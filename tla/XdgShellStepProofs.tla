------------------------- MODULE XdgShellStepProofs -------------------------
(***************************************************************************)
(* Proofs of what a step of XdgShell does and what it may never do, for    *)
(* any number of toplevels, keyboards, backgrounds and popups: the window  *)
(* management implements Desktop; and what no step does to the keyboard    *)
(* focus, to the order of the windows, to the focus that one window leaves *)
(* to the next, and to the configure a client waits for.  As in            *)
(* XdgShellProofs, the handlers are dealt with on records before the       *)
(* actions: Order and Active are what the refinement mapping reads of one. *)
(***************************************************************************)
EXTENDS XdgShellProofs

Order(stack, M) == {p \in M \X M : Above(stack, p[1], p[2])}

Active(w, M) == IF w.focused \in w.activated \cap M THEN w.focused ELSE NULL

-----------------------------------------------------------------------------
(* The order of a scene *)

\* Two nodes of the scene are drawn one over the other.
LEMMA AboveTotal ==
  ASSUME NEW S, NEW s \in Seq(S), NEW a \in ToSet(s), NEW b \in ToSet(s), a # b
  PROVE  Above(s, a, b) \/ Above(s, b, a)
PROOF
  <1>1. PICK i \in DOMAIN s : s[i] = a
    BY DEF ToSet
  <1>2. PICK j \in DOMAIN s : s[j] = b
    BY DEF ToSet
  <1>3. i \in Nat /\ j \in Nat /\ i # j
    BY <1>1, <1>2
  <1>4. i < j \/ j < i
    BY <1>3
  <1> QED
    BY <1>1, <1>2, <1>4 DEF Above

\* What is appended, or raised, is over all there was.
LEMMA RaiseOver ==
  ASSUME NEW S, NEW s \in Seq(S), NEW e \in S, IsInjective(s), NEW b \in ToSet(s), b # e
  PROVE  Above(RaiseToTop(s, e), e, b)
PROOF
  <1> DEFINE r == RaiseToTop(s, e)
  <1>1. /\ r \in Seq(S) /\ ToSet(r) = ToSet(s) \cup {e}
        /\ ~Above(r, b, e)
    BY RaiseToTopProperties
  <1> HIDE DEF r
  <1>2. e \in ToSet(r) /\ b \in ToSet(r)
    BY <1>1
  <1>3. Above(r, e, b) \/ Above(r, b, e)
    BY <1>1, <1>2, AboveTotal
  <1> QED
    BY <1>1, <1>3 DEF r

\* The order of the windows in S when t is over the others and nothing else has
\* changed.
LEMMA OrderOnTop ==
  ASSUME NEW k, NEW r, NEW M, NEW S, NEW t \in S, S \ {t} \subseteq M,
         \A a \in S : ~Above(r, a, t),
         \A a \in S \ {t} : Above(r, t, a),
         \A a, b \in S \ {t} : Above(r, a, b) <=> Above(k, a, b)
  PROVE  Order(r, S) = Desk!OnTopOf(Order(k, M), S, t)
PROOF
  <1> DEFINE new == Desk!OnTopOf(Order(k, M), S, t)
  <1>1. ASSUME NEW p \in Order(r, S) PROVE p \in new
    <2>1. p = <<p[1], p[2]>> /\ p[1] \in S /\ p[2] \in S /\ Above(r, p[1], p[2])
      BY DEF Order
    <2>2. p[2] # t
      BY <2>1
    <2>3. CASE p[1] = t
      BY <2>1, <2>2, <2>3 DEF Desk!OnTopOf
    <2>4. CASE p[1] # t
      <3>1. Above(k, p[1], p[2]) /\ p[1] \in M /\ p[2] \in M
        BY <2>1, <2>2, <2>4
      <3> QED
        BY <2>1, <2>2, <3>1 DEF Desk!OnTopOf, Order
    <2> QED
      BY <2>3, <2>4
  <1>2. ASSUME NEW p \in new PROVE p \in Order(r, S)
    <2>1. CASE p \in {<<t, u>> : u \in S \ {t}}
      BY <2>1 DEF Order
    <2>2. CASE p \in Order(k, M) /\ p[1] \in S /\ p[2] \in S \ {t}
      <3>1. p = <<p[1], p[2]>> /\ Above(k, p[1], p[2])
        BY <2>2 DEF Order
      <3>2. Above(r, p[1], p[2])
        <4>1. CASE p[1] = t
          BY <2>2, <4>1
        <4>2. CASE p[1] # t
          BY <2>2, <3>1, <4>2
        <4> QED
          BY <4>1, <4>2
      <3> QED
        BY <2>2, <3>1, <3>2 DEF Order
    <2> QED
      BY <2>1, <2>2 DEF Desk!OnTopOf
  <1> QED
    BY <1>1, <1>2

\* The order of the windows in M is what their pairs in the scene say.
LEMMA OrderSame ==
  ASSUME NEW k, NEW r, NEW M, \A a, b \in M : Above(r, a, b) <=> Above(k, a, b)
  PROVE  Order(r, M) = Order(k, M)
BY DEF Order

\* The order of the windows in S when t, one of them, has been raised.
LEMMA OrderRaised ==
  ASSUME NEW w, NEW A, NEW X, Sound(w, A, X), NEW M \in SUBSET Allocated,
         NEW t \in Allocated, NEW S \in SUBSET Allocated, S \ {t} \subseteq M
  PROVE  /\ t \in S => Order(RaiseToTop(w.stack, t), S)
                         = Desk!OnTopOf(Order(w.stack, M), S, t)
         /\ t \notin S => Order(RaiseToTop(w.stack, t), S) = Order(w.stack, S)
PROOF
  <1> DEFINE k == w.stack
             r == RaiseToTop(k, t)
  <1>1. /\ k \in Seq(Slots \cup Others) /\ IsInjective(k) /\ Allocated \subseteq ToSet(k)
        /\ t \in Slots \cup Others
    BY DEF Sound, Linked, WindowManager, Allocated
  <1> HIDE DEF k
  <1>2. /\ \A a, b : Above(r, a, b) => a = t \/ Above(k, a, b)
        /\ \A a, b : Above(k, a, b) /\ t \notin {a, b} => Above(r, a, b)
        /\ \A a : ~Above(r, a, t)
    BY <1>1, RaiseToTopProperties
  <1>3. \A a \in S \ {t} : Above(r, t, a)
    BY <1>1, RaiseOver
  <1> HIDE DEF r
  <1>4. \A a, b \in S \ {t} : Above(r, a, b) <=> Above(k, a, b)
    BY <1>2
  <1>5. CASE t \in S
    BY <1>2, <1>3, <1>4, <1>5, OrderOnTop DEF k, r
  <1>6. CASE t \notin S
    <2>1. \A a, b \in S : Above(r, a, b) <=> Above(k, a, b)
      BY <1>4, <1>6
    <2>2. Order(r, S) = Order(k, S)
      BY <2>1, OrderSame
    <2> QED
      BY <1>6, <2>2 DEF k, r
  <1> QED
    BY <1>5, <1>6

-----------------------------------------------------------------------------
(* The focus function and the unmap handler *)

\* Focusing a mapped window draws it over the others and makes it the active one;
\* focusing one that is not mapped, or none, leaves no window active.
LEMMA FocusShows ==
  ASSUME NEW w, NEW A \in SUBSET Allocated, NEW X \in SUBSET Slots, Sound(w, A, X),
         NEW t \in Allocated, t # w.focused,
         NEW M \in SUBSET Allocated, NEW S \in SUBSET Allocated, S \ {t} \subseteq M
  PROVE  LET r == FocusToplevel(w, t) IN
         \/ /\ t \in S /\ Active(r, S) = t
            /\ Order(r.stack, S) = Desk!OnTopOf(Order(w.stack, M), S, t)
         \/ /\ t \notin S /\ Active(r, S) = NULL
            /\ Order(r.stack, S) = Order(w.stack, S)
PROOF
  <1> DEFINE r == FocusToplevel(w, t)
  <1>1. w \in WindowManager /\ t \in Slots /\ IsInjective(w.stack)
    BY DEF Sound, Linked, Allocated
  <1> HIDE DEF r
  <1>2. /\ r.focused = t /\ r.stack = RaiseToTop(w.stack, t)
        /\ r.activated = (w.activated \ ({w.focused} \cap Allocated)) \cup {t}
    <2>1. FocusMoved(w, t, r)
      BY <1>1, FocusChange DEF r
    <2> QED
      BY <2>1 DEF FocusMoved
  <1>3. t \in r.activated
    BY <1>2
  <1>4. Active(r, S) = IF t \in S THEN t ELSE NULL
    BY <1>2, <1>3 DEF Active
  <1>5. /\ t \in S => Order(r.stack, S) = Desk!OnTopOf(Order(w.stack, M), S, t)
        /\ t \notin S => Order(r.stack, S) = Order(w.stack, S)
    <2>1. /\ t \in S => Order(RaiseToTop(w.stack, t), S)
                          = Desk!OnTopOf(Order(w.stack, M), S, t)
          /\ t \notin S => Order(RaiseToTop(w.stack, t), S) = Order(w.stack, S)
      BY OrderRaised
    <2> QED
      BY <1>2, <2>1
  <1> QED
    BY <1>4, <1>5 DEF r

\* The same for a window of those that are shown.
LEMMA SwitchShows ==
  ASSUME NEW w, NEW M \in SUBSET Allocated, Sound(w, M, {}), NEW t \in M, t # w.focused
  PROVE  LET r == FocusToplevel(w, t) IN
         /\ Active(r, M) = t
         /\ Order(r.stack, M) = Desk!OnTopOf(Order(w.stack, M), M, t)
PROOF
  <1>1. {} \in SUBSET Slots /\ t \in Allocated /\ M \ {t} \subseteq M
    OBVIOUS
  <1>2. \/ /\ t \in M /\ Active(FocusToplevel(w, t), M) = t
           /\ Order(FocusToplevel(w, t).stack, M) = Desk!OnTopOf(Order(w.stack, M), M, t)
        \/ /\ t \notin M /\ Active(FocusToplevel(w, t), M) = NULL
           /\ Order(FocusToplevel(w, t).stack, M) = Order(w.stack, M)
    BY <1>1, FocusShows
  <1> QED
    BY <1>2

\* Focusing none moves nothing.
LEMMA ClearShows ==
  ASSUME NEW w \in WindowManager
  PROVE  LET r == FocusToplevel(w, NULL) IN
         \A S \in SUBSET Slots : Active(r, S) = NULL /\ Order(r.stack, S) = Order(w.stack, S)
PROOF
  <1> DEFINE r == FocusToplevel(w, NULL)
  <1>1. CASE w.focused = NULL
    <2>1. r = w
      BY <1>1 DEF FocusToplevel
    <2> QED
      BY <1>1, <2>1, NullAssumption DEF Active
  <1>2. CASE w.focused # NULL
    <2>1. r = [Defocus(w) EXCEPT !.focused = NULL, !.kbdFocus = NULL]
      BY <1>2 DEF FocusToplevel
    <2>2. Defocus(w) \in WindowManager /\ Defocus(w).stack = w.stack
      BY DefocusFields
    <2>3. r.focused = NULL /\ r.stack = w.stack
      BY <2>1, <2>2 DEF WindowManager
    <2> QED
      BY <2>3, NullAssumption DEF Active
  <1> QED
    BY <1>1, <1>2

\* The windows that are left when t is unmapped: as before without it, or with
\* the next one on top and active, in the place of t or of none.
LEMMA UnmapShows ==
  ASSUME NEW w, NEW M \in SUBSET Allocated, Sound(w, M, {}), OnTop(w, M), NEW t \in M
  PROVE  LET r == UnmapHandler(w, t)
             S == M \ {t} IN
         \/ /\ Active(r, S) = IF Active(w, M) = t THEN NULL ELSE Active(w, M)
            /\ Order(r.stack, S) = Order(w.stack, S)
         \/ /\ Active(w, M) \in {t, NULL} /\ Active(r, S) \in S
            /\ Order(r.stack, S) = Desk!OnTopOf(Order(w.stack, M), S, Active(r, S))
PROOF
  <1> DEFINE hidden == [w EXCEPT !.border[t] = NULL]
             next == NextToplevel(w, t)
             S == M \ {t}
  <1>1. w \in WindowManager /\ t \in Slots /\ t # NULL
    BY NullAssumption DEF Sound, Allocated
  <1>2. /\ hidden \in WindowManager /\ hidden.focused = w.focused
        /\ hidden.toplevels = w.toplevels /\ hidden.stack = w.stack
        /\ hidden.geo = w.geo /\ hidden.left = w.left /\ hidden.kbdFocus = w.kbdFocus
        /\ hidden.activated = w.activated /\ hidden.scheduled = w.scheduled
        /\ hidden.border = [w.border EXCEPT ![t] = NULL]
    <2>1. hidden \in WindowManager
      BY <1>1 DEF WindowManager
    <2> QED
      BY <1>1, <2>1 DEF WindowManager
  <1> HIDE DEF hidden
  <1>3. Sound(hidden, M, {})
    <2>1. ASSUME NEW s \in Slots PROVE BorderSound(hidden, M, s)
      <3>1. CASE s = t
        BY <1>1, <1>2, <3>1 DEF BorderSound, WindowManager
      <3>2. CASE s # t
        <4>1. hidden.border[s] = w.border[s] /\ hidden.geo = w.geo
              /\ hidden.focused = w.focused
          BY <1>1, <1>2, <3>2 DEF WindowManager
        <4> QED
          BY <4>1 DEF Sound, BorderSound
      <3> QED
        BY <3>1, <3>2
    <2> QED
      BY <1>2, <2>1 DEF Sound, Linked
  <1>4. S \in SUBSET Allocated /\ S \in SUBSET M /\ t \notin S /\ S \in SUBSET Slots
    BY DEF Allocated
  <1> HIDE DEF S
  <1>5. CASE w.focused # t
    <2>1. UnmapHandler(w, t) = hidden
      BY <1>5 DEF UnmapHandler, hidden
    <2>2. Active(hidden, S) = Active(w, M) /\ Active(w, M) # t
      BY <1>1, <1>2, <1>5 DEF Active, S
    <2> QED
      BY <1>2, <2>1, <2>2 DEF S
  <1>6. CASE w.focused = t
    <2>1. UnmapHandler(w, t) = FocusToplevel(hidden, next)
      BY <1>6 DEF UnmapHandler, hidden
    <2>2. Active(w, M) \in {t, NULL}
      BY <1>6 DEF Active
    <2>3. next \in (Allocated \ {t}) \cup {NULL}
      BY <1>1, NextToplevelAllocated
    <2> DEFINE r == FocusToplevel(hidden, next)
    <2> HIDE DEF next
    <2>4. CASE next = NULL
      <3>1. Active(r, S) = NULL /\ Order(r.stack, S) = Order(hidden.stack, S)
        BY <1>2, <1>4, <2>4, ClearShows
      <3> QED
        BY <1>2, <2>1, <2>2, <3>1 DEF S
    <2>5. CASE next # NULL
      <3>1. next \in Allocated /\ next # hidden.focused
        BY <1>2, <1>6, <2>3, <2>5
      <3>2. S \ {next} \subseteq M
        BY <1>4
      <3>3. \/ /\ next \in S /\ Active(r, S) = next
               /\ Order(r.stack, S) = Desk!OnTopOf(Order(hidden.stack, M), S, next)
            \/ /\ next \notin S /\ Active(r, S) = NULL
               /\ Order(r.stack, S) = Order(hidden.stack, S)
        <4>1. {} \in SUBSET Slots
          OBVIOUS
        <4> QED
          BY <1>3, <1>4, <3>1, <3>2, <4>1, FocusShows
      <3> QED
        BY <1>2, <2>1, <2>2, <3>3 DEF S
    <2> QED
      BY <2>4, <2>5
  <1> QED
    BY <1>5, <1>6

\* The commit handler changes nothing the user sees but the border.
LEMMA CommitShows ==
  ASSUME NEW w \in WindowManager, NEW t \in Slots
  PROVE  LET r == CommitHandler(w, t) IN
         r.focused = w.focused /\ r.stack = w.stack /\ r.activated = w.activated
BY DEF CommitHandler, WindowManager

\* A mapped window is drawn over the others and active; the one that had the
\* focus before it was mapped is there already, and may stay inactive.
LEMMA MapShows ==
  ASSUME NEW w, NEW M \in SUBSET Allocated, Sound(w, M, {}), OnTop(w, M),
         NEW t \in Allocated \ M, NEW size \in Sizes, NEW ok \in BOOLEAN
  PROVE  LET r == CommitHandler(MapHandler([w EXCEPT !.geo[t] = size], t, ok), t)
             S == M \cup {t} IN
         /\ Active(r, S) = t \/ (Active(w, M) = NULL /\ Active(r, S) = NULL)
         /\ Order(r.stack, S) = Desk!OnTopOf(Order(w.stack, M), S, t)
PROOF
  <1> DEFINE S == M \cup {t}
             g == [w EXCEPT !.geo[t] = size]
             b == IF g.geo[t] > 0 /\ ok THEN CreateBorder(g.geo[t], TRUE) ELSE NULL
             h == [g EXCEPT !.border[t] = b]
             f == FocusToplevel(h, t)
             r == CommitHandler(f, t)
  <1>1. /\ w \in WindowManager /\ t \in Slots /\ t # NULL
        /\ w.border \in [Slots -> Borders \cup {NULL}] /\ w.geo \in [Slots -> Sizes]
        /\ S \in SUBSET Allocated /\ S \ {t} \subseteq M /\ t \in S
    BY NullAssumption DEF Sound, WindowManager, Allocated
  <1>2. g \in WindowManager
    BY <1>1 DEF WindowManager
  <1>3. /\ g.focused = w.focused /\ g.toplevels = w.toplevels
        /\ g.geo = [w.geo EXCEPT ![t] = size] /\ g.left = w.left
        /\ g.kbdFocus = w.kbdFocus /\ g.stack = w.stack /\ g.activated = w.activated
        /\ g.scheduled = w.scheduled /\ g.border = w.border
    BY <1>1 DEF WindowManager
  <1>4. MapHandler(g, t, ok) = f
    BY DEF MapHandler
  <1> HIDE DEF g
  <1>5. b \in Borders \cup {NULL}
    BY <1>1, <1>3 DEF CreateBorder, TopColour, Borders, Tops, Sides
  <1> HIDE DEF b
  <1>6. h \in WindowManager
    BY <1>1, <1>2, <1>5 DEF WindowManager
  <1>7. /\ h.focused = w.focused /\ h.toplevels = w.toplevels /\ h.geo = g.geo
        /\ h.left = w.left
        /\ h.kbdFocus = w.kbdFocus /\ h.stack = w.stack /\ h.activated = w.activated
        /\ h.scheduled = w.scheduled /\ h.border = [w.border EXCEPT ![t] = b]
    BY <1>2, <1>3 DEF WindowManager
  <1> HIDE DEF h
  <1>8. ASSUME NEW s \in Slots \ {t} PROVE BorderSound(h, M, s)
    <2>1. BorderSound(w, M, s)
      BY DEF Sound
    <2>2. h.geo[s] = w.geo[s] /\ h.border[s] = w.border[s] /\ h.focused = w.focused
      BY <1>1, <1>3, <1>7
    <2> QED
      BY <2>1, <2>2 DEF BorderSound
  <1>9. Sound(h, M, {t})
    BY <1>6, <1>7, <1>8 DEF Sound, Linked
  <1> HIDE DEF S
  <1>10. /\ Active(f, S) = t \/ (Active(w, M) = NULL /\ Active(f, S) = NULL)
         /\ Order(f.stack, S) = Desk!OnTopOf(Order(w.stack, M), S, t)
         /\ f \in WindowManager
    <2>1. CASE t # h.focused
      <3>1. {t} \in SUBSET Slots
        BY <1>1
      <3>2. Active(f, S) = t /\ Order(f.stack, S) = Desk!OnTopOf(Order(h.stack, M), S, t)
        BY <1>1, <1>9, <2>1, <3>1, FocusShows
      <3>3. FocusMoved(h, t, f)
        BY <1>1, <1>9, <2>1, FocusChange DEF Sound, Linked
      <3> QED
        BY <1>7, <3>2, <3>3 DEF FocusMoved
    <2>2. CASE t = h.focused
      <3>1. f = h
        BY <2>2 DEF FocusToplevel
      <3> DEFINE k == w.stack
      <3>2. /\ k \in Seq(Slots \cup Others) /\ IsInjective(k)
            /\ Allocated \subseteq ToSet(k)
        BY DEF Sound, Linked, WindowManager
      <3>3. \A u \in M : ~Above(k, u, t)
        BY <1>7, <2>2 DEF OnTop
      <3> HIDE DEF k
      <3>4. ~Above(k, t, t)
        BY <3>2 DEF Above, IsInjective
      <3>5. \A a \in S : ~Above(k, a, t)
        BY <1>1, <3>3, <3>4
      <3>6. \A a \in S \ {t} : Above(k, t, a)
        BY <1>1, <3>2, <3>5, AboveTotal
      <3>7. Order(k, S) = Desk!OnTopOf(Order(k, M), S, t)
        BY <1>1, <3>5, <3>6, OrderOnTop
      <3>8. Active(w, M) = NULL /\ Active(f, S) \in {t, NULL}
        BY <1>7, <2>2, <3>1 DEF Active
      <3> QED
        BY <1>6, <1>7, <3>1, <3>7, <3>8 DEF k
    <2> QED
      BY <2>1, <2>2
  <1> HIDE DEF f
  <1>11. r.focused = f.focused /\ r.stack = f.stack /\ r.activated = f.activated
    BY <1>1, <1>10, CommitShows
  <1> QED
    BY <1>4, <1>10, <1>11 DEF g, S, Active

-----------------------------------------------------------------------------
(* The actions *)

\* A step the user sees nothing of.
LEMMA DeskStutter ==
  ASSUME Mapped' = Mapped, wm'.focused = wm.focused,
         wm'.activated \cap Mapped = wm.activated \cap Mapped,
         \A a, b \in Mapped : Above(wm'.stack, a, b) <=> Above(wm.stack, a, b)
  PROVE  UNCHANGED Desk!desktopVars
PROOF
  <1>1. Order(wm'.stack, Mapped) = Order(wm.stack, Mapped)
    BY OrderSame
  <1>2. (wm.focused \in wm.activated \cap Mapped)' <=> wm.focused \in wm.activated \cap Mapped
    OBVIOUS
  <1> QED
    BY <1>1, <1>2 DEF Desk!desktopVars, Order

\* Mapping a window opens it.
LEMMA MapCommitShows ==
  ASSUME IInv, NEW t \in Slots, NEW size \in Sizes, NEW ok \in BOOLEAN, MapCommit(t, size, ok)
  PROVE  Desk!Open(t)
PROOF
  <1> DEFINE r == CommitHandler(MapHandler([wm EXCEPT !.geo[t] = size], t, ok), t)
             S == Mapped \cup {t}
  <1>1. t \in Allocated \ Mapped
    BY DEF MapCommit, Allocated, Mapped
  <1>2. Mapped' = S /\ wm' = r
    BY GotoSets DEF MapCommit, IInv, Lives
  <1>3. /\ Active(r, S) = t \/ (Active(wm, Mapped) = NULL /\ Active(r, S) = NULL)
        /\ Order(r.stack, S) = Desk!OnTopOf(Order(wm.stack, Mapped), S, t)
    BY <1>1, MapShows, MappedAllocated DEF IInv
  <1> HIDE DEF r, S
  <1>4. Order(wm.stack, Mapped)' = Desk!OnTopOf(Order(wm.stack, Mapped), Mapped', t)
    BY <1>2, <1>3 DEF Order
  <1>5. \/ Active(wm, Mapped)' = t
        \/ Active(wm, Mapped) = NULL /\ Active(wm, Mapped)' = NULL
    BY <1>2, <1>3 DEF Active
  <1> QED
    BY <1>1, <1>2, <1>4, <1>5 DEF Desk!Open, Order, Active, S

\* What a window that is unmapped, and perhaps freed, leaves behind: the record r
\* shows of the others what the unmap handler has made of them.
LEMMA Closes ==
  ASSUME IInv, NEW t \in Mapped, Mapped' = Mapped \ {t},
         wm'.focused = UnmapHandler(wm, t).focused,
         wm'.activated \ {t} = UnmapHandler(wm, t).activated \ {t},
         \A a, b \in Mapped \ {t} :
           Above(wm'.stack, a, b) <=> Above(UnmapHandler(wm, t).stack, a, b)
  PROVE  Desk!Close(t)
PROOF
  <1> DEFINE u == UnmapHandler(wm, t)
             S == Mapped \ {t}
  <1>1. \/ /\ Active(u, S) = IF Active(wm, Mapped) = t THEN NULL ELSE Active(wm, Mapped)
           /\ Order(u.stack, S) = Order(wm.stack, S)
        \/ /\ Active(wm, Mapped) \in {t, NULL} /\ Active(u, S) \in S
           /\ Order(u.stack, S) = Desk!OnTopOf(Order(wm.stack, Mapped), S, Active(u, S))
    BY UnmapShows, MappedAllocated DEF IInv
  <1>2. Order(wm'.stack, S) = Order(u.stack, S)
    BY OrderSame
  <1>3. Active(wm', S) = Active(u, S)
    BY DEF Active
  <1>4. Order(wm.stack, Mapped)' = Order(u.stack, S) /\ Active(wm, Mapped)' = Active(u, S)
    BY <1>2, <1>3 DEF Order, Active
  <1>5. Order(wm.stack, S) = {p \in Order(wm.stack, Mapped) : t \notin {p[1], p[2]}}
    BY DEF Order
  <1> HIDE DEF u
  <1> QED
    BY <1>1, <1>4, <1>5 DEF Desk!Close, Order, Active

\* Unmapping a window closes it.
LEMMA UnmapCommitShows ==
  ASSUME IInv, NEW t \in Slots, UnmapCommit(t) PROVE Desk!Close(t)
PROOF
  <1> DEFINE u == UnmapHandler(wm, t)
  <1>1. t \in Mapped
    BY DEF UnmapCommit, Mapped
  <1>2. Mapped' = Mapped \ {t} /\ wm' = SurfaceReset(u, t)
    BY GotoSets DEF UnmapCommit, IInv, Lives
  <1>3. u \in WindowManager
    BY <1>1, UnmapSound, MappedAllocated DEF IInv, Sound
  <1> HIDE DEF u
  <1>4. wm'.focused = u.focused /\ wm'.activated = u.activated /\ wm'.stack = u.stack
    BY <1>2, <1>3 DEF SurfaceReset, WindowManager
  <1> QED
    BY <1>1, <1>2, <1>4, Closes DEF u

\* Toplevel t goes, with its surface or without it.
Goes(t) ==
  /\ life[t] # "free" /\ Goto(t, "free")
  /\ \/ wm' = SurfaceGone(Destroyed(t), t)
     \/ \E x \in Remnants : wm' = SurfaceStays(Destroyed(t), t, x)

\* Both destructions of a toplevel do what Goes says.
LEMMA DestroyGoes ==
  ASSUME NEW t \in Slots, Disconnect(t) \/ \E x \in Remnants : DestroyToplevel(t, x)
  PROVE  Goes(t)
BY DEF Goes, Disconnect, DestroyToplevel

\* What the destroy handler and wlroots take away is t's alone.
LEMMA GoneFields ==
  ASSUME NEW w \in WindowManager, NEW t \in Slots, NEW v,
         \/ v = SurfaceGone(DestroyHandler(w, t), t)
         \/ \E x \in Remnants : v = SurfaceStays(DestroyHandler(w, t), t, x)
  PROVE  /\ v.focused = w.focused /\ v.activated = w.activated \ {t}
         /\ v.stack = Without(w.stack, t) /\ v.scheduled = w.scheduled \ {t}
         /\ v.keyboard = w.keyboard
         /\ \/ v.kbdFocus = w.kbdFocus
            \/ w.kbdFocus = t /\ v.kbdFocus \in Remnants \cup {NULL}
PROOF
  <1> DEFINE l == Without(w.toplevels, t)
             k == Without(w.stack, t)
             d == DestroyHandler(w, t)
             g == SurfaceGone(d, t)
  <1>1. d = [w EXCEPT !.border[t] = NULL, !.toplevels = l]
    BY DEF DestroyHandler
  <1>2. /\ d.focused = w.focused /\ d.activated = w.activated /\ d.stack = w.stack
        /\ d.scheduled = w.scheduled /\ d.keyboard = w.keyboard
        /\ d.kbdFocus = w.kbdFocus
    <2> HIDE DEF l, d
    <2> QED
      BY <1>1 DEF WindowManager
  <1>3. g = [d EXCEPT !.stack = k, !.activated = @ \ {t}, !.scheduled = @ \ {t},
                      !.geo[t] = 0, !.kbdFocus = IF @ = t THEN NULL ELSE @]
    BY <1>2 DEF SurfaceGone
  <1>4. /\ g.focused = w.focused /\ g.activated = w.activated \ {t} /\ g.stack = k
        /\ g.scheduled = w.scheduled \ {t} /\ g.keyboard = w.keyboard
        /\ g.kbdFocus = IF w.kbdFocus = t THEN NULL ELSE w.kbdFocus
    <2>1. d = [w EXCEPT !.border[t] = NULL, !.toplevels = l]
      BY <1>1
    <2> HIDE DEF k, l, d, g
    <2> QED
      BY <1>2, <1>3, <2>1 DEF WindowManager
  <1>5. ASSUME NEW x \in Remnants, v = SurfaceStays(d, t, x)
        PROVE  /\ v.focused = g.focused /\ v.activated = g.activated /\ v.stack = g.stack
               /\ v.scheduled = g.scheduled /\ v.keyboard = g.keyboard
               /\ v.kbdFocus = IF w.kbdFocus = t THEN x ELSE g.kbdFocus
    <2>1. v = [g EXCEPT !.left = @ \cup {x},
                        !.kbdFocus = IF d.kbdFocus = t THEN x ELSE @]
      BY <1>5 DEF SurfaceStays
    <2>2. g = [[w EXCEPT !.border[t] = NULL, !.toplevels = l] EXCEPT
                 !.stack = k, !.activated = @ \ {t}, !.scheduled = @ \ {t},
                 !.geo[t] = 0, !.kbdFocus = IF @ = t THEN NULL ELSE @]
      BY <1>1, <1>3
    <2> HIDE DEF d, g, k, l
    <2> QED
      BY <1>2, <2>1, <2>2 DEF WindowManager
  <1> HIDE DEF d, g
  <1>6. CASE v = g
    BY <1>4, <1>6
  <1>7. CASE \E x \in Remnants : v = SurfaceStays(d, t, x)
    BY <1>4, <1>5, <1>7
  <1> QED
    BY <1>6, <1>7 DEF d, g

\* Destroying a mapped window closes it; of any other the user sees nothing.
LEMMA GoesShows ==
  ASSUME IInv, NEW t \in Slots, Goes(t)
  PROVE  (t \in Mapped /\ Desk!Close(t)) \/ UNCHANGED Desk!desktopVars
PROOF
  <1> DEFINE u == IF life[t] = "mapped" THEN UnmapHandler(wm, t) ELSE wm
             M == Mapped \ {t}
  <1>1. /\ Mapped' = M
        /\ \/ wm' = SurfaceGone(DestroyHandler(u, t), t)
           \/ \E x \in Remnants : wm' = SurfaceStays(DestroyHandler(u, t), t, x)
    BY GotoSets DEF Goes, Destroyed, IInv, Lives
  <1>2. \E N : Sound(u, N, {})
    <2>1. CASE life[t] = "mapped"
      <3>1. t \in Mapped
        BY <2>1 DEF Mapped
      <3>2. Sound(UnmapHandler(wm, t), M, {})
        BY <3>1, UnmapSound, MappedAllocated DEF IInv
      <3> QED
        BY <2>1, <3>2
    <2>2. CASE life[t] # "mapped"
      BY <2>2 DEF IInv
    <2> QED
      BY <2>1, <2>2
  <1> HIDE DEF u
  <1>3. /\ wm'.focused = u.focused /\ wm'.activated = u.activated \ {t}
        /\ \A a, b \in Slots \ {t} : Above(wm'.stack, a, b) <=> Above(u.stack, a, b)
    <2>1. u \in WindowManager /\ u.stack \in Seq(Slots \cup Others) /\ IsInjective(u.stack)
      BY <1>2 DEF Sound, Linked, WindowManager
    <2>2. /\ wm'.focused = u.focused /\ wm'.activated = u.activated \ {t}
          /\ wm'.stack = Without(u.stack, t)
      BY <1>1, <2>1, GoneFields
    <2>3. \A a, b \in Slots \ {t} :
            Above(Without(u.stack, t), a, b) <=> Above(u.stack, a, b)
      BY <2>1, WithoutProperties
    <2> QED
      BY <2>2, <2>3
  <1>4. M \subseteq Slots \ {t}
    BY DEF Mapped
  <1>5. CASE life[t] = "mapped"
    <2>1. t \in Mapped /\ u = UnmapHandler(wm, t)
      BY <1>5 DEF Mapped, u
    <2>2. Desk!Close(t)
      BY <1>1, <1>3, <1>4, <2>1, Closes
    <2> QED
      BY <2>1, <2>2
  <1>6. CASE life[t] # "mapped"
    <2>1. t \notin Mapped /\ u = wm
      BY <1>6 DEF Mapped, u
    <2>2. Mapped' = Mapped /\ Mapped \subseteq Slots \ {t}
      BY <1>1, <1>4, <2>1
    <2> QED
      BY <1>3, <2>1, <2>2, DeskStutter
  <1> QED
    BY <1>5, <1>6

\* A focus request switches to a window, or blurs them all.
LEMMA FocusRequestShows ==
  ASSUME IInv, NEW t \in Slots \cup {NULL}, FocusRequest(t)
  PROVE  [Desk!DesktopNext]_(Desk!desktopVars)
PROOF
  <1>1. Mapped' = Mapped /\ wm' = FocusToplevel(wm, t) /\ t \in Mapped \cup {NULL}
    BY DEF FocusRequest, Mapped
  <1>2. wm \in WindowManager /\ Mapped \in SUBSET Slots /\ {} \in SUBSET Slots
    BY DEF IInv, Sound, Mapped
  <1>3. CASE t = wm.focused
    <2>1. wm' = wm
      BY <1>1, <1>3 DEF FocusToplevel
    <2> QED
      BY <1>1, <2>1, DeskStutter
  <1>4. CASE t = NULL
    <2>1. Active(wm', Mapped) = NULL /\ Order(wm'.stack, Mapped) = Order(wm.stack, Mapped)
      BY <1>1, <1>2, <1>4, ClearShows
    <2>2. Desk!Blur
      BY <1>1, <2>1 DEF Desk!Blur, Active, Order
    <2> QED
      BY <2>2 DEF Desk!DesktopNext
  <1>5. CASE t # wm.focused /\ t # NULL
    <2>1. t \in Mapped /\ t \in Allocated
      BY <1>1, <1>5, MappedAllocated
    <2>2. /\ Active(wm', Mapped) = t
          /\ Order(wm'.stack, Mapped) = Desk!OnTopOf(Order(wm.stack, Mapped), Mapped, t)
      <3>1. Sound(wm, Mapped, {}) /\ Mapped \in SUBSET Allocated
        BY MappedAllocated DEF IInv
      <3>2. LET r == FocusToplevel(wm, t) IN
            /\ Active(r, Mapped) = t
            /\ Order(r.stack, Mapped) = Desk!OnTopOf(Order(wm.stack, Mapped), Mapped, t)
        BY <1>5, <2>1, <3>1, SwitchShows
      <3> QED
        BY <1>1, <3>2
    <2>3. Desk!Switch(t)
      BY <1>1, <2>1, <2>2 DEF Desk!Switch, Active, Order
    <2> QED
      BY <2>1, <2>3 DEF Desk!DesktopNext, Mapped
  <1> QED
    BY <1>3, <1>4, <1>5

\* What is put on top of the scene, or taken out of it, and is not mapped leaves
\* the windows in their order.
LEMMA SceneStutter ==
  ASSUME IInv, NEW n \in Slots \cup Others, n \notin Mapped, Mapped' = Mapped,
         wm'.focused = wm.focused, wm'.activated = wm.activated,
         \/ wm'.stack = Append(wm.stack, n)
         \/ wm'.stack = Without(wm.stack, n)
  PROVE  UNCHANGED Desk!desktopVars
PROOF
  <1>1. wm.stack \in Seq(Slots \cup Others) /\ IsInjective(wm.stack)
    BY DEF IInv, Sound, Linked, WindowManager
  <1>2. \A a, b \in Mapped : Above(wm'.stack, a, b) <=> Above(wm.stack, a, b)
    <2>1. CASE wm'.stack = Append(wm.stack, n)
      BY <1>1, <2>1, OnTopProperties
    <2>2. CASE wm'.stack = Without(wm.stack, n)
      BY <1>1, <2>2, WithoutProperties
    <2> QED
      BY <2>1, <2>2
  <1> QED
    BY <1>2, DeskStutter

\* Every step is one of Desktop, or one the user sees nothing of.
LEMMA NextShows ==
  ASSUME IInv, [Next]_shellVars PROVE [Desk!DesktopNext]_(Desk!desktopVars)
PROOF
  <1>0. wm \in WindowManager
    BY DEF IInv, Sound
  <1>1. ASSUME life' = life, wm'.focused = wm.focused, wm'.activated = wm.activated,
               wm'.stack = wm.stack
        PROVE  UNCHANGED Desk!desktopVars
    <2>1. Mapped' = Mapped
      BY <1>1 DEF Mapped
    <2> QED
      BY <1>1, <2>1, DeskStutter
  <1>2. CASE UNCHANGED shellVars \/ Terminate
    BY <1>1, <1>2 DEF shellVars, Terminate
  <1>3. ASSUME NEW t \in Slots, Client(t) PROVE [Desk!DesktopNext]_(Desk!desktopVars)
    <2>1. CASE NewToplevel(t)
      <3>1. Mapped' = Mapped /\ t \notin Mapped
        BY <2>1, GotoSets DEF NewToplevel, IInv, Lives, Mapped
      <3>2. wm' = [wm EXCEPT !.toplevels = Insert(@, t), !.stack = Append(@, t)]
        BY <2>1 DEF NewToplevel
      <3>3. /\ wm'.focused = wm.focused /\ wm'.activated = wm.activated
            /\ wm'.stack = Append(wm.stack, t)
        BY <1>0, <3>2 DEF WindowManager
      <3> QED
        BY <3>1, <3>3, SceneStutter
    <2>2. CASE InitialCommit(t)
      <3>1. Mapped' = Mapped
        BY <2>2, GotoSets DEF InitialCommit, IInv, Lives, Mapped
      <3>2. /\ wm'.focused = wm.focused /\ wm'.activated = wm.activated
            /\ wm'.stack = wm.stack
        BY <1>0, <2>2 DEF InitialCommit, WindowManager
      <3> QED
        BY <3>1, <3>2, DeskStutter
    <2>3. ASSUME NEW size \in Sizes, NEW ok \in BOOLEAN, MapCommit(t, size, ok)
          PROVE  [Desk!DesktopNext]_(Desk!desktopVars)
      BY <2>3, MapCommitShows DEF Desk!DesktopNext
    <2>4. ASSUME NEW size \in Sizes, SizeCommit(t, size)
          PROVE  UNCHANGED Desk!desktopVars
      <3> DEFINE g == [wm EXCEPT !.geo[t] = size]
      <3>1. life' = life /\ wm' = CommitHandler(g, t)
        BY <2>4 DEF SizeCommit
      <3>2. g \in WindowManager
        BY <1>0 DEF WindowManager
      <3>3. g.focused = wm.focused /\ g.stack = wm.stack /\ g.activated = wm.activated
        BY <1>0 DEF WindowManager
      <3> HIDE DEF g
      <3> QED
        BY <1>1, <3>1, <3>2, <3>3, CommitShows
    <2>5. CASE UnmapCommit(t)
      BY <2>5, UnmapCommitShows DEF Desk!DesktopNext
    <2>6. CASE Disconnect(t) \/ \E x \in Remnants : DestroyToplevel(t, x)
      BY <2>6, DestroyGoes, GoesShows DEF Desk!DesktopNext
    <2>7. CASE RequestMaximize(t) \/ RequestFullscreen(t) \/ NewDecoration(t)
      <3>1. ScheduleConfigure(t)
        BY <2>7 DEF RequestMaximize, RequestFullscreen, NewDecoration
      <3> QED
        BY <1>0, <1>1, <3>1 DEF ScheduleConfigure, WindowManager
    <2> QED
      BY <1>3, <2>1, <2>2, <2>3, <2>4, <2>5, <2>6, <2>7 DEF Client
  <1>4. ASSUME NEW t \in Slots, SendConfigure(t) PROVE UNCHANGED Desk!desktopVars
    <2>1. life \in [Slots -> Lives] /\ life[t] \in Lives /\ "configured" \in Lives
      BY DEF IInv, Lives
    <2>2. Mapped' = Mapped
      BY <1>4, <2>1 DEF SendConfigure, Goto, Mapped
    <2>3. /\ wm'.focused = wm.focused /\ wm'.activated = wm.activated
          /\ wm'.stack = wm.stack
      BY <1>0, <1>4 DEF SendConfigure, WindowManager
    <2> QED
      BY <2>2, <2>3, DeskStutter
  <1>5. ASSUME NEW n \in Others, PutOnTop(n) \/ DetachPopup(n)
        PROVE  UNCHANGED Desk!desktopVars
    <2>1. Mapped' = Mapped /\ n \notin Mapped
      BY <1>5, SceneAssumption DEF PutOnTop, DetachPopup, Mapped
    <2>2. /\ wm'.focused = wm.focused /\ wm'.activated = wm.activated
          /\ wm'.stack \in {Append(wm.stack, n), Without(wm.stack, n)}
      BY <1>0, <1>5 DEF PutOnTop, DetachPopup, WindowManager
    <2> QED
      BY <2>1, <2>2, SceneStutter
  <1>6. ASSUME NEW t \in Slots \cup {NULL}, FocusRequest(t)
        PROVE  [Desk!DesktopNext]_(Desk!desktopVars)
    BY <1>6, FocusRequestShows
  <1>7. ASSUME NEW k \in Keyboards \cup {NULL}, SeatKeyboard(k)
        PROVE  UNCHANGED Desk!desktopVars
    BY <1>0, <1>1, <1>7 DEF SeatKeyboard, WindowManager
  <1>8. ASSUME NEW x \in Remnants, DestroySurface(x)
        PROVE  UNCHANGED Desk!desktopVars
    BY <1>0, <1>1, <1>8 DEF DestroySurface, WindowManager
  <1>9. ASSUME NEW b \in Backgrounds, LoseOutput(b)
        PROVE  UNCHANGED Desk!desktopVars
    BY <1>1, <1>9 DEF LoseOutput
  <1> QED
    BY <1>2, <1>3, <1>4, <1>5, <1>6, <1>7, <1>8, <1>9
       DEF Next, Unattended, AddBackground, AttachPopup, Others

\* The window management implements Desktop, whatever its clients, its devices
\* and the pointers into freed memory do, for any number of them.
THEOREM RefinesDesktop == Spec => ShowsDesktop
PROOF
  <1>1. Init => Desk!DesktopInit
    <2>1. ASSUME Init PROVE Mapped = {} /\ wm.focused = NULL
      BY <2>1 DEF Init, Mapped
    <2> QED
      BY <2>1 DEF Desk!DesktopInit
  <1>2. IInv /\ [Next]_shellVars => [Desk!DesktopNext]_(Desk!desktopVars)
    BY NextShows
  <1> QED
    BY <1>1, <1>2, Inductive, PTL DEF Spec, ShowsDesktop, Desk!DesktopSpec

\* What Desktop says of the screen holds of the windows: those that are shown are
\* drawn one over the other, none over itself, and none over the active one.
THEOREM ScreenIsOrderly == Spec => []Desk!Orderly
PROOF
  <1> DEFINE k == wm.stack
             order == Order(k, Mapped)
             active == Active(wm, Mapped)
  <1>1. ASSUME IInv PROVE Desk!Orderly
    <2>1. /\ k \in Seq(Slots \cup Others) /\ IsInjective(k)
          /\ Mapped \subseteq ToSet(k) /\ Mapped \subseteq Slots
      BY <1>1 DEF IInv, Sound, Linked, WindowManager, Mapped, Allocated
    <2>2. active # NULL => /\ active \in Mapped
                           /\ \A u \in Mapped : ~Above(k, u, active)
      BY <1>1, MappedAllocated DEF IInv, OnTop, Active
    <2> HIDE DEF k, active
    <2>3. \A a, b : ~(Above(k, a, b) /\ Above(k, b, a))
      <3>1. SUFFICES ASSUME NEW a, NEW b, Above(k, a, b), Above(k, b, a) PROVE FALSE
        OBVIOUS
      <3>2. PICK i, j \in DOMAIN k : k[i] = b /\ k[j] = a /\ i < j
        BY <3>1 DEF Above
      <3>3. PICK m, n \in DOMAIN k : k[m] = a /\ k[n] = b /\ m < n
        BY <3>1 DEF Above
      <3>4. i = n /\ j = m
        BY <2>1, <3>2, <3>3 DEF IsInjective
      <3>5. i \in Nat /\ j \in Nat
        BY <2>1, <3>2
      <3> QED
        BY <3>2, <3>3, <3>4, <3>5
    <2>4. \A a, b \in Mapped : a # b => (Above(k, a, b) <=> ~Above(k, b, a))
      BY <2>1, <2>3, AboveTotal
    <2>5. \A a : ~Above(k, a, a)
      BY <2>3
    <2>6. order \subseteq Mapped \X Mapped
      BY DEF Order
    <2>7. \A a, b \in Mapped : <<a, b>> \in order <=> Above(k, a, b)
      BY DEF Order
    <2> HIDE DEF order
    <2>8. active # NULL => active \in Mapped /\ \A u \in Mapped : <<u, active>> \notin order
      BY <2>2, <2>7
    <2>9. \A a, b \in Mapped : a # b => (<<a, b>> \in order <=> <<b, a>> \notin order)
      BY <2>4, <2>7
    <2>10. \A a \in Mapped : <<a, a>> \notin order
      BY <2>5, <2>7
    <2> QED
      BY <2>1, <2>6, <2>8, <2>9, <2>10 DEF Desk!Orderly, order, active, k, Order, Active
  <1> QED
    BY <1>1, Inductive, PTL

-----------------------------------------------------------------------------
(* What a step may never do *)

\* From w to r the seat keeps its keyboard, and its focus goes to a window only
\* with a keyboard there; it may stay on a surface that outlives its toplevel.
SeatKept(w, r) ==
  /\ r.keyboard = w.keyboard
  /\ r.kbdFocus \in {w.kbdFocus, NULL} \cup Remnants \/ w.keyboard # NULL

\* Keystrokes that go to the focused window keep doing so.
Aligned(w, r) == w.keyboard # NULL /\ w.kbdFocus = w.focused => r.kbdFocus = r.focused

\* Only the window with the focus moves in the scene.
OrderKept(w, r) ==
  \A a, b \in Slots \ {r.focused} : Above(w.stack, a, b) <=> Above(r.stack, a, b)

Kept(w, r) == SeatKept(w, r) /\ Aligned(w, r) /\ OrderKept(w, r)

-----------------------------------------------------------------------------
(* The handlers *)

\* A window that gets the focus is raised and entered.
LEMMA RaiseKept ==
  ASSUME NEW w \in WindowManager, IsInjective(w.stack), NEW t \in Slots, t # w.focused
  PROVE  Kept(w, FocusToplevel(w, t)) /\ FocusToplevel(w, t) \in WindowManager
PROOF
  <1> DEFINE r == FocusToplevel(w, t)
  <1>1. /\ r \in WindowManager
        /\ r.focused = t /\ r.stack = RaiseToTop(w.stack, t)
        /\ r.keyboard = w.keyboard
        /\ r.kbdFocus = IF w.keyboard = NULL THEN w.kbdFocus ELSE t
    <2>1. FocusMoved(w, t, r)
      BY FocusChange
    <2> QED
      BY <2>1 DEF FocusMoved
  <1> HIDE DEF r
  <1>4. t \in Slots \cup Others /\ w.stack \in Seq(Slots \cup Others)
    BY DEF WindowManager
  <1>5. \A a, b \in Slots \ {t} : Above(w.stack, a, b) <=> Above(r.stack, a, b)
    BY <1>1, <1>4, RaiseToTopProperties
  <1> QED
    BY <1>1, <1>5 DEF Kept, SeatKept, Aligned, OrderKept, r

\* The focus function moves the window and the seat's focus together.
LEMMA FocusKept ==
  ASSUME NEW w \in WindowManager, IsInjective(w.stack), NEW t \in Slots \cup {NULL}
  PROVE  Kept(w, FocusToplevel(w, t)) /\ FocusToplevel(w, t) \in WindowManager
PROOF
  <1> DEFINE r == FocusToplevel(w, t)
  <1>1. CASE t = w.focused
    BY <1>1 DEF FocusToplevel, Kept, SeatKept, Aligned, OrderKept
  <1>2. CASE t # w.focused /\ t = NULL
    <2> DEFINE d == Defocus(w)
    <2>1. r = [d EXCEPT !.focused = NULL, !.kbdFocus = NULL]
      BY <1>2 DEF FocusToplevel
    <2>2. /\ d \in WindowManager /\ d.stack = w.stack /\ d.keyboard = w.keyboard
      BY DefocusFields
    <2> HIDE DEF d
    <2>3. [d EXCEPT !.focused = NULL, !.kbdFocus = NULL] \in WindowManager
      BY <2>2 DEF WindowManager
    <2>4. /\ r \in WindowManager /\ r.focused = NULL /\ r.kbdFocus = NULL
          /\ r.stack = w.stack /\ r.keyboard = w.keyboard
      BY <2>1, <2>2, <2>3 DEF WindowManager
    <2> QED
      BY <2>4 DEF Kept, SeatKept, Aligned, OrderKept
  <1>3. CASE t # w.focused /\ t # NULL
    <2>1. t \in Slots
      BY <1>3
    <2> QED
      BY <1>3, <2>1, RaiseKept
  <1> QED
    BY <1>1, <1>2, <1>3

\* The border and the geometry are none of the seat's or the scene's.
LEMMA SameKept ==
  ASSUME NEW w, NEW v, NEW r, v.keyboard = w.keyboard, v.kbdFocus = w.kbdFocus,
         v.focused = w.focused, v.stack = w.stack
  PROVE  /\ Kept(v, r) => Kept(w, r)
         /\ Kept(r, v) => Kept(r, w)
         /\ Kept(w, v)
BY DEF Kept, SeatKept, Aligned, OrderKept

\* The commit handler draws the border alone.
LEMMA CommitKept ==
  ASSUME NEW w \in WindowManager, NEW t \in Slots
  PROVE  LET r == CommitHandler(w, t) IN
         /\ r.keyboard = w.keyboard /\ r.kbdFocus = w.kbdFocus
         /\ r.focused = w.focused /\ r.stack = w.stack
BY DEF CommitHandler, WindowManager

\* The first buffer: the size and the border are set, then comes the focus.
LEMMA MapKept ==
  ASSUME NEW w \in WindowManager, IsInjective(w.stack), NEW t \in Slots,
         NEW size \in Sizes, NEW ok \in BOOLEAN
  PROVE  LET r == CommitHandler(MapHandler([w EXCEPT !.geo[t] = size], t, ok), t) IN
         Kept(w, r) /\ r.focused = t
PROOF
  <1> DEFINE g == [w EXCEPT !.geo[t] = size]
             b == IF g.geo[t] > 0 /\ ok THEN CreateBorder(g.geo[t], TRUE) ELSE NULL
             h == [g EXCEPT !.border[t] = b]
             f == FocusToplevel(h, t)
             r == CommitHandler(f, t)
  <1>1. /\ w.geo \in [Slots -> Sizes] /\ w.border \in [Slots -> Borders \cup {NULL}]
        /\ t # NULL
    BY NullAssumption DEF WindowManager
  <1>2. g \in WindowManager /\ g.geo[t] \in Sizes
    BY <1>1 DEF WindowManager
  <1>3. g.keyboard = w.keyboard /\ g.kbdFocus = w.kbdFocus /\ g.focused = w.focused
        /\ g.stack = w.stack
    BY DEF WindowManager
  <1>4. MapHandler(g, t, ok) = f
    BY DEF MapHandler
  <1> HIDE DEF g
  <1>5. b \in Borders \cup {NULL}
    BY <1>2 DEF CreateBorder, TopColour, Borders, Tops, Sides
  <1> HIDE DEF b
  <1>6. h \in WindowManager
    BY <1>2, <1>5 DEF WindowManager
  <1>7. h.keyboard = w.keyboard /\ h.kbdFocus = w.kbdFocus /\ h.focused = w.focused
        /\ h.stack = w.stack
    BY <1>2, <1>3 DEF WindowManager
  <1> HIDE DEF h
  <1>8. Kept(h, f) /\ f \in WindowManager
    BY <1>6, <1>7, FocusKept
  <1>9. f.focused = t
    <2>1. CASE t = h.focused
      BY <2>1 DEF FocusToplevel
    <2>2. CASE t # h.focused
      <3>1. FocusMoved(h, t, f)
        BY <1>6, <1>7, <2>2, FocusChange
      <3> QED
        BY <3>1 DEF FocusMoved
    <2> QED
      BY <2>1, <2>2
  <1> HIDE DEF f
  <1>10. r.keyboard = f.keyboard /\ r.kbdFocus = f.kbdFocus /\ r.focused = f.focused
         /\ r.stack = f.stack
    BY <1>8, CommitKept
  <1> HIDE DEF r
  <1>11. Kept(w, f)
    BY <1>7, <1>8, SameKept
  <1>12. Kept(w, r)
    BY <1>10, <1>11 DEF Kept, SeatKept, Aligned, OrderKept
  <1> QED
    BY <1>4, <1>9, <1>10, <1>12 DEF g, r

\* The unmap handler changes them as one focus change does.
LEMMA UnmapKept ==
  ASSUME NEW w, NEW M, NEW X, Sound(w, M, X), NEW t \in Slots
  PROVE  Kept(w, UnmapHandler(w, t)) /\ UnmapHandler(w, t) \in WindowManager
PROOF
  <1> DEFINE h == [w EXCEPT !.border[t] = NULL]
             next == NextToplevel(w, t)
             r == UnmapHandler(w, t)
  <1>1. w \in WindowManager /\ IsInjective(w.stack)
    BY DEF Sound, Linked
  <1>2. h \in WindowManager
    BY <1>1 DEF WindowManager
  <1>3. h.keyboard = w.keyboard /\ h.kbdFocus = w.kbdFocus /\ h.focused = w.focused
        /\ h.stack = w.stack
    BY <1>1 DEF WindowManager
  <1>4. r = IF w.focused = t THEN FocusToplevel(h, next) ELSE h
    BY DEF UnmapHandler
  <1>5. next \in Slots \cup {NULL}
    BY NextToplevelAllocated DEF Allocated
  <1> HIDE DEF h, next, r
  <1>6. CASE w.focused # t
    BY <1>2, <1>3, <1>4, <1>6, SameKept DEF r
  <1>7. CASE w.focused = t
    <2>1. Kept(h, r) /\ r \in WindowManager
      BY <1>1, <1>2, <1>3, <1>4, <1>5, <1>7, FocusKept
    <2>2. Kept(w, r)
      BY <1>3, <2>1, SameKept
    <2> QED
      BY <2>1, <2>2 DEF r
  <1> QED
    BY <1>6, <1>7

-----------------------------------------------------------------------------
(* The actions *)

AlignedStep ==
  wm.kbdFocus = wm.focused /\ wm.keyboard # NULL =>
    wm'.kbdFocus = wm'.focused \/ wm'.focused \notin Allocated' \cup {NULL}

OrderStep ==
  \A a, b \in (Allocated \cap Allocated') \ {wm'.focused} :
    Above(wm.stack, a, b) <=> Above(wm'.stack, a, b)

\* A step that keeps the seat, its focus and the order.
LEMMA KeptStep ==
  ASSUME Kept(wm, wm') PROVE SeatKept(wm, wm') /\ AlignedStep /\ OrderStep
BY DEF Kept, SeatKept, Aligned, OrderKept, AlignedStep, OrderStep, Allocated

\* A step that does not touch the seat, the focus or the scene.
LEMMA QuietStep ==
  ASSUME wm'.keyboard = wm.keyboard, wm'.kbdFocus = wm.kbdFocus,
         wm'.focused = wm.focused, wm'.stack = wm.stack
  PROVE  SeatKept(wm, wm') /\ AlignedStep /\ OrderStep
PROOF
  <1>1. Kept(wm, wm')
    BY DEF Kept, SeatKept, Aligned, OrderKept
  <1> QED
    BY <1>1, KeptStep

\* A node that comes or goes leaves the order of all others.
LEMMA SceneStep ==
  ASSUME IInv, NEW n \in Slots \cup Others, n \notin Allocated \cap Allocated',
         wm'.keyboard = wm.keyboard, wm'.kbdFocus = wm.kbdFocus, wm'.focused = wm.focused,
         wm'.stack \in {Append(wm.stack, n), Without(wm.stack, n)}
  PROVE  SeatKept(wm, wm') /\ AlignedStep /\ OrderStep
PROOF
  <1>1. wm.stack \in Seq(Slots \cup Others) /\ IsInjective(wm.stack)
    BY DEF IInv, Sound, Linked, WindowManager
  <1>2. ASSUME NEW a, NEW b, n \notin {a, b}
        PROVE  Above(wm'.stack, a, b) <=> Above(wm.stack, a, b)
    <2>1. CASE wm'.stack = Append(wm.stack, n)
      BY <1>1, <1>2, <2>1, OnTopProperties
    <2>2. CASE wm'.stack = Without(wm.stack, n)
      BY <1>1, <1>2, <2>2, WithoutProperties
    <2> QED
      BY <2>1, <2>2
  <1>3. OrderStep
    BY <1>2 DEF OrderStep
  <1> QED
    BY <1>3 DEF SeatKept, AlignedStep

\* The unmap handler changes focus, order and keyboard as one focus change does;
\* what wlroots resets after it touches none of them.
LEMMA UnmapCommitKept ==
  ASSUME IInv, NEW t \in Slots, UnmapCommit(t)
  PROVE  SeatKept(wm, wm') /\ AlignedStep /\ OrderStep
PROOF
  <1> DEFINE u == UnmapHandler(wm, t)
  <1>1. Allocated' = Allocated /\ wm' = SurfaceReset(u, t)
    <2>1. t \in Allocated
      BY DEF UnmapCommit, Allocated
    <2> QED
      BY <2>1, GotoSets DEF UnmapCommit, IInv, Lives
  <1>2. Kept(wm, u) /\ u \in WindowManager
    BY UnmapKept DEF IInv
  <1> HIDE DEF u
  <1>3. /\ wm'.focused = u.focused /\ wm'.stack = u.stack
        /\ wm'.keyboard = u.keyboard /\ wm'.kbdFocus = u.kbdFocus
    BY <1>1, <1>2 DEF SurfaceReset, WindowManager
  <1>4. Kept(wm, wm')
    BY <1>2, <1>3, SameKept
  <1> QED
    BY <1>1, <1>2, <1>3, <1>4, KeptStep

\* The toplevel that is freed may keep the focus, and the keyboard loses it, or
\* keeps it on the surface.
LEMMA GoesKept ==
  ASSUME IInv, NEW t \in Slots, Goes(t)
  PROVE  SeatKept(wm, wm') /\ AlignedStep /\ OrderStep
PROOF
  <1> DEFINE u == IF life[t] = "mapped" THEN UnmapHandler(wm, t) ELSE wm
  <1>1. /\ Allocated' = Allocated \ {t}
        /\ \/ wm' = SurfaceGone(DestroyHandler(u, t), t)
           \/ \E x \in Remnants : wm' = SurfaceStays(DestroyHandler(u, t), t, x)
    BY GotoSets DEF Goes, Destroyed, IInv, Lives
  <1>2. Kept(wm, u) /\ u \in WindowManager /\ \E N : Sound(u, N, {})
    <2>1. CASE life[t] = "mapped"
      <3>1. t \in Mapped
        BY <2>1 DEF Mapped
      <3>2. Sound(UnmapHandler(wm, t), Mapped \ {t}, {})
        BY <3>1, UnmapSound, MappedAllocated DEF IInv
      <3> QED
        BY <2>1, <3>2, UnmapKept DEF IInv
    <2>2. CASE life[t] # "mapped"
      BY <2>2 DEF IInv, Sound, Kept, SeatKept, Aligned, OrderKept
    <2> QED
      BY <2>1, <2>2
  <1> HIDE DEF u
  <1>3. /\ wm'.focused = u.focused
        /\ \A a, b \in Slots \ {t} : Above(wm'.stack, a, b) <=> Above(u.stack, a, b)
    <2>1. u.stack \in Seq(Slots \cup Others) /\ IsInjective(u.stack)
      BY <1>2 DEF Sound, Linked, WindowManager
    <2>2. wm'.focused = u.focused /\ wm'.stack = Without(u.stack, t)
      BY <1>1, <1>2, GoneFields
    <2>3. \A a, b \in Slots \ {t} :
            Above(Without(u.stack, t), a, b) <=> Above(u.stack, a, b)
      BY <2>1, WithoutProperties
    <2> QED
      BY <2>2, <2>3
  <1>4. /\ wm'.keyboard = u.keyboard
        /\ \/ wm'.kbdFocus = u.kbdFocus
           \/ u.kbdFocus = t /\ wm'.kbdFocus \in Remnants \cup {NULL}
    BY <1>1, <1>2, GoneFields
  <1>5. SeatKept(wm, wm')
    BY <1>2, <1>4 DEF Kept, SeatKept
  <1>6. AlignedStep
    BY <1>1, <1>2, <1>3, <1>4, NullAssumption DEF AlignedStep, Kept, Aligned
  <1>7. OrderStep
    <2>1. ASSUME NEW a \in (Allocated \cap Allocated') \ {wm'.focused},
                 NEW b \in (Allocated \cap Allocated') \ {wm'.focused}
          PROVE  Above(wm.stack, a, b) <=> Above(wm'.stack, a, b)
      <3>1. a \in Slots \ {t} /\ b \in Slots \ {t} /\ u.focused \notin {a, b}
        BY <1>1, <1>3 DEF Allocated
      <3>2. Above(wm.stack, a, b) <=> Above(u.stack, a, b)
        BY <1>2, <3>1 DEF Kept, OrderKept
      <3> QED
        BY <1>3, <3>1, <3>2
    <2> QED
      BY <2>1 DEF OrderStep
  <1> QED
    BY <1>5, <1>6, <1>7

\* A focus request of the cursor.
LEMMA FocusRequestKept ==
  ASSUME IInv, NEW t \in Slots \cup {NULL}, FocusRequest(t)
  PROVE  SeatKept(wm, wm') /\ AlignedStep /\ OrderStep
PROOF
  <1>1. wm \in WindowManager /\ IsInjective(wm.stack)
    BY DEF IInv, Sound, Linked
  <1>2. wm' = FocusToplevel(wm, t) /\ life' = life
    BY DEF FocusRequest
  <1>3. Kept(wm, wm')
    BY <1>1, <1>2, FocusKept
  <1> QED
    BY <1>2, <1>3, KeptStep

\* What goes on without the user's hands.
LEMMA UnattendedKept ==
  ASSUME IInv, Unattended
  PROVE  SeatKept(wm, wm') /\ AlignedStep /\ OrderStep
PROOF
  <1> DEFINE goal == SeatKept(wm, wm') /\ AlignedStep /\ OrderStep
  <1>0. wm \in WindowManager /\ IsInjective(wm.stack)
    BY DEF IInv, Sound, Linked
  <1>1. ASSUME NEW t \in Slots, NewToplevel(t) PROVE goal
    <2>1. t \notin Allocated
      BY <1>1 DEF NewToplevel, Allocated
    <2>2. /\ wm'.keyboard = wm.keyboard /\ wm'.kbdFocus = wm.kbdFocus
          /\ wm'.focused = wm.focused /\ wm'.stack = Append(wm.stack, t)
      BY <1>0, <1>1 DEF NewToplevel, WindowManager
    <2> QED
      BY <2>1, <2>2, SceneStep
  <1>2. ASSUME NEW t \in Slots,
               \/ InitialCommit(t) \/ SendConfigure(t) \/ RequestMaximize(t)
               \/ RequestFullscreen(t) \/ NewDecoration(t)
        PROVE  goal
    <2>1. \E S : wm' = [wm EXCEPT !.scheduled = S]
      BY <1>2 DEF InitialCommit, SendConfigure, ScheduleConfigure, RequestMaximize,
                  RequestFullscreen, NewDecoration
    <2> QED
      BY <1>0, <2>1, QuietStep DEF WindowManager
  <1>3. ASSUME NEW t \in Slots, NEW size \in Sizes, NEW ok \in BOOLEAN,
               MapCommit(t, size, ok)
        PROVE  goal
    <2>1. Kept(wm, wm')
      BY <1>0, <1>3, MapKept DEF MapCommit
    <2> QED
      BY <2>1, KeptStep
  <1>4. ASSUME NEW t \in Slots, NEW size \in Sizes, SizeCommit(t, size) PROVE goal
    <2> DEFINE g == [wm EXCEPT !.geo[t] = size]
    <2>1. wm' = CommitHandler(g, t)
      BY <1>4 DEF SizeCommit
    <2>2. /\ g \in WindowManager /\ g.keyboard = wm.keyboard /\ g.kbdFocus = wm.kbdFocus
          /\ g.focused = wm.focused /\ g.stack = wm.stack
      BY <1>0 DEF WindowManager
    <2> HIDE DEF g
    <2>3. /\ wm'.keyboard = wm.keyboard /\ wm'.kbdFocus = wm.kbdFocus
          /\ wm'.focused = wm.focused /\ wm'.stack = wm.stack
      BY <2>1, <2>2, CommitKept
    <2> QED
      BY <2>3, QuietStep
  <1>5. ASSUME NEW t \in Slots, UnmapCommit(t) PROVE goal
    BY <1>5, UnmapCommitKept
  <1>6. ASSUME NEW t \in Slots, Disconnect(t) \/ \E x \in Remnants : DestroyToplevel(t, x)
        PROVE  goal
    BY <1>6, DestroyGoes, GoesKept
  <1>7. ASSUME NEW n \in Others, PutOnTop(n) PROVE goal
    <2>1. n \notin Allocated
      BY SceneAssumption DEF Allocated
    <2>2. /\ wm'.keyboard = wm.keyboard /\ wm'.kbdFocus = wm.kbdFocus
          /\ wm'.focused = wm.focused /\ wm'.stack = Append(wm.stack, n)
      BY <1>0, <1>7 DEF PutOnTop, WindowManager
    <2> QED
      BY <2>1, <2>2, SceneStep
  <1>8. ASSUME NEW x \in Remnants, DestroySurface(x) PROVE goal
    <2>1. /\ wm'.keyboard = wm.keyboard /\ wm'.kbdFocus \in {wm.kbdFocus, NULL}
          /\ wm.kbdFocus # x => wm'.kbdFocus = wm.kbdFocus
          /\ wm'.focused = wm.focused /\ wm'.stack = wm.stack
      BY <1>0, <1>8 DEF DestroySurface, WindowManager
    <2>2. wm.focused \in Slots \cup {NULL} /\ x \notin Slots \cup {NULL}
      BY <1>0, SceneAssumption, NullAssumption DEF WindowManager
    <2> QED
      BY <2>1, <2>2 DEF SeatKept, AlignedStep, OrderStep
  <1>9. ASSUME NEW b \in Backgrounds, LoseOutput(b) PROVE goal
    BY <1>9, QuietStep DEF LoseOutput
  <1> HIDE DEF goal
  <1>10. goal
    BY <1>1, <1>2, <1>3, <1>4, <1>5, <1>6, <1>7, <1>8, <1>9
       DEF Unattended, Client, AddBackground, Others
  <1> QED
    BY <1>10 DEF goal

\* Every step does what it may.
LEMMA NextKept ==
  ASSUME IInv, [Next]_shellVars PROVE AlignedStep /\ OrderStep
PROOF
  <1>0. wm \in WindowManager
    BY DEF IInv, Sound
  <1>1. CASE UNCHANGED shellVars \/ Terminate
    BY <1>1, QuietStep DEF shellVars, Terminate
  <1>2. CASE Unattended
    BY <1>2, UnattendedKept
  <1>3. ASSUME NEW p \in Popups, AttachPopup(p) \/ DetachPopup(p)
        PROVE  AlignedStep /\ OrderStep
    <2>1. p \notin Allocated /\ p \in Others
      BY SceneAssumption DEF Allocated, Others
    <2>2. /\ wm'.keyboard = wm.keyboard /\ wm'.kbdFocus = wm.kbdFocus
          /\ wm'.focused = wm.focused
          /\ wm'.stack \in {Append(wm.stack, p), Without(wm.stack, p)}
      BY <1>0, <1>3 DEF AttachPopup, PutOnTop, DetachPopup, WindowManager
    <2> QED
      BY <2>1, <2>2, SceneStep
  <1>4. ASSUME NEW t \in Slots \cup {NULL}, FocusRequest(t)
        PROVE  AlignedStep /\ OrderStep
    BY <1>4, FocusRequestKept
  <1>5. ASSUME NEW k \in Keyboards \cup {NULL}, SeatKeyboard(k)
        PROVE  AlignedStep /\ OrderStep
    <2>1. wm'.kbdFocus = wm.kbdFocus /\ wm'.focused = wm.focused /\ wm'.stack = wm.stack
      BY <1>0, <1>5 DEF SeatKeyboard, WindowManager
    <2> QED
      BY <2>1 DEF AlignedStep, OrderStep
  <1> QED
    BY <1>1, <1>2, <1>3, <1>4, <1>5 DEF Next

\* Whatever clients, clicks, outputs and popups do, two windows change places only
\* if one of them gets the focus.
THEOREM KeepsOrder == Spec => OrderIsKept
PROOF
  <1>1. IInv /\ [Next]_shellVars => OrderStep
    BY NextKept
  <1>2. [OrderStep]_shellVars
          => [\A a, b \in (Allocated \cap Allocated') \ {wm'.focused} :
                Above(wm.stack, a, b) <=> Above(wm'.stack, a, b)]_shellVars
    BY DEF OrderStep
  <1> QED
    BY <1>1, <1>2, Inductive, PTL DEF Spec, OrderIsKept

\* The focus function and the handlers move the seat's focus with the shell's.
THEOREM KeepsKeyboardAligned == Spec => KeyboardStaysAligned
PROOF
  <1>1. IInv /\ [Next]_shellVars => AlignedStep
    BY NextKept
  <1>2. [AlignedStep]_shellVars
          => [(wm.kbdFocus = wm.focused /\ wm.keyboard # NULL)
                => \/ wm'.kbdFocus = wm'.focused
                   \/ wm'.focused \notin Allocated' \cup {NULL}]_shellVars
    BY DEF AlignedStep
  <1> QED
    BY <1>1, <1>2, Inductive, PTL DEF Spec, KeyboardStaysAligned

-----------------------------------------------------------------------------
(* The configures that wait, and what the focus is left on *)

\* The focus is where w had it, the same windows activated but for gone, or on an
\* activated window, or on none.
Followed(w, r, gone) ==
  \/ r.focused \in r.activated \cup {NULL}
  \/ r.focused = w.focused /\ w.activated \ gone \subseteq r.activated

\* f is another toplevel than t, or NULL if there is none.
HandedOver(f, t) ==
  LET others == Allocated \ {t} IN IF others = {} THEN f = NULL ELSE f \in others

\* The unmap handler looks through the whole list.
LEMMA NextToplevelPicks ==
  ASSUME NEW w, NEW M, NEW X, Sound(w, M, X), NEW t \in Slots
  PROVE  HandedOver(NextToplevel(w, t), t)
PROOF
  <1> DEFINE others == Without(w.toplevels, t)
             next == NextToplevel(w, t)
  <1>1. w.toplevels \in Seq(Slots) /\ IsInjective(w.toplevels)
        /\ ToSet(w.toplevels) = Allocated
    BY DEF Sound, Linked, WindowManager
  <1>2. others \in Seq(Slots) /\ ToSet(others) = Allocated \ {t}
    BY <1>1, WithoutProperties
  <1>3. next = IF others = << >> THEN NULL ELSE Head(others)
    BY DEF NextToplevel
  <1> HIDE DEF others, next
  <1>4. CASE others = << >>
    <2>1. ToSet(others) = {}
      BY <1>4 DEF ToSet
    <2> QED
      BY <1>2, <1>3, <1>4, <2>1 DEF HandedOver, next
  <1>5. CASE others # << >>
    <2>1. Head(others) \in ToSet(others)
      BY <1>2, <1>5 DEF ToSet
    <2> QED
      BY <1>2, <1>3, <1>5, <2>1 DEF HandedOver, next
  <1> QED
    BY <1>4, <1>5

\* The focus function takes no configure back, and gives the focus to t, which it
\* activates unless it has it already.
LEMMA FocusSchedules ==
  ASSUME NEW w \in WindowManager, IsInjective(w.stack), NEW t \in Slots \cup {NULL}
  PROVE  LET r == FocusToplevel(w, t) IN
         /\ r \in WindowManager /\ r.focused = t /\ w.scheduled \subseteq r.scheduled
         /\ Followed(w, r, {})
PROOF
  <1> DEFINE r == FocusToplevel(w, t)
             d == Defocus(w)
  <1>1. CASE t = w.focused
    BY <1>1 DEF FocusToplevel, Followed
  <1>2. CASE t # w.focused /\ t = NULL
    <2>1. r = [d EXCEPT !.focused = NULL, !.kbdFocus = NULL]
      BY <1>2 DEF FocusToplevel
    <2>2. d \in WindowManager /\ w.scheduled \subseteq d.scheduled
      BY DefocusFields
    <2> HIDE DEF d
    <2>3. [d EXCEPT !.focused = NULL, !.kbdFocus = NULL] \in WindowManager
      BY <2>2 DEF WindowManager
    <2> QED
      BY <1>2, <2>1, <2>2, <2>3 DEF WindowManager, Followed
  <1>3. CASE t # w.focused /\ t # NULL
    <2>1. FocusMoved(w, t, r)
      BY <1>3, FocusChange
    <2> QED
      BY <2>1 DEF FocusMoved, Followed
  <1> QED
    BY <1>1, <1>2, <1>3

\* Nor do the map and the commit handler.
LEMMA MapSchedules ==
  ASSUME NEW w \in WindowManager, IsInjective(w.stack), NEW t \in Slots,
         NEW size \in Sizes, NEW ok \in BOOLEAN
  PROVE  LET r == CommitHandler(MapHandler([w EXCEPT !.geo[t] = size], t, ok), t) IN
         w.scheduled \subseteq r.scheduled /\ r.focused = t /\ Followed(w, r, {})
PROOF
  <1> DEFINE g == [w EXCEPT !.geo[t] = size]
             b == IF g.geo[t] > 0 /\ ok THEN CreateBorder(g.geo[t], TRUE) ELSE NULL
             h == [g EXCEPT !.border[t] = b]
             f == FocusToplevel(h, t)
  <1>1. /\ w.geo \in [Slots -> Sizes] /\ w.border \in [Slots -> Borders \cup {NULL}]
    BY DEF WindowManager
  <1>2. g \in WindowManager /\ g.geo[t] \in Sizes
    BY <1>1 DEF WindowManager
  <1>3. /\ g.stack = w.stack /\ g.scheduled = w.scheduled
        /\ g.focused = w.focused /\ g.activated = w.activated
    BY DEF WindowManager
  <1>4. MapHandler(g, t, ok) = f
    BY DEF MapHandler
  <1> HIDE DEF g
  <1>5. b \in Borders \cup {NULL}
    BY <1>2 DEF CreateBorder, TopColour, Borders, Tops, Sides
  <1> HIDE DEF b
  <1>6. h \in WindowManager
    BY <1>2, <1>5 DEF WindowManager
  <1>7. /\ h.stack = w.stack /\ h.scheduled = w.scheduled
        /\ h.focused = w.focused /\ h.activated = w.activated
    BY <1>2, <1>3 DEF WindowManager
  <1> HIDE DEF h
  <1>8. /\ f \in WindowManager /\ f.focused = t
        /\ h.scheduled \subseteq f.scheduled /\ Followed(h, f, {})
    BY <1>6, <1>7, FocusSchedules
  <1> HIDE DEF f
  <1> DEFINE r == CommitHandler(f, t)
  <1>9. r.scheduled = f.scheduled /\ r.focused = f.focused /\ r.activated = f.activated
    BY <1>8, CommitShows DEF CommitHandler, WindowManager
  <1> HIDE DEF r
  <1>10. w.scheduled \subseteq r.scheduled /\ r.focused = t /\ Followed(w, r, {})
    BY <1>7, <1>8, <1>9 DEF Followed
  <1> QED
    BY <1>4, <1>10 DEF g, r

\* Nor does the unmap handler, which leaves a focus on t to the next toplevel.
LEMMA UnmapSchedules ==
  ASSUME NEW w, NEW M, NEW X, Sound(w, M, X), NEW t \in Slots
  PROVE  LET r == UnmapHandler(w, t) IN
         /\ r \in WindowManager /\ w.scheduled \subseteq r.scheduled
         /\ r.focused = IF w.focused = t THEN NextToplevel(w, t) ELSE w.focused
         /\ Followed(w, r, {})
PROOF
  <1> DEFINE h == [w EXCEPT !.border[t] = NULL]
             next == NextToplevel(w, t)
  <1>1. w \in WindowManager /\ IsInjective(w.stack)
    BY DEF Sound, Linked
  <1>2. h \in WindowManager
    BY <1>1 DEF WindowManager
  <1>3. /\ h.focused = w.focused /\ h.stack = w.stack /\ h.scheduled = w.scheduled
        /\ h.activated = w.activated
    BY <1>1 DEF WindowManager
  <1>4. UnmapHandler(w, t) = IF w.focused = t THEN FocusToplevel(h, next) ELSE h
    BY DEF UnmapHandler
  <1>5. next \in Slots \cup {NULL}
    BY NextToplevelAllocated DEF Allocated
  <1> HIDE DEF h, next
  <1>6. CASE w.focused = t
    <2> DEFINE f == FocusToplevel(h, next)
    <2>1. /\ f \in WindowManager /\ f.focused = next
          /\ h.scheduled \subseteq f.scheduled /\ Followed(h, f, {})
      BY <1>1, <1>2, <1>3, <1>5, FocusSchedules
    <2> HIDE DEF f
    <2>2. Followed(w, f, {})
      BY <1>3, <2>1 DEF Followed
    <2> QED
      BY <1>3, <1>4, <1>6, <2>1, <2>2 DEF next, f
  <1>7. CASE w.focused # t
    <2>1. Followed(w, h, {})
      BY <1>3 DEF Followed
    <2> QED
      BY <1>2, <1>3, <1>4, <1>7, <2>1
  <1> QED
    BY <1>6, <1>7

\* Resetting an unmapped surface takes its own configure back.
LEMMA ResetSchedules ==
  ASSUME NEW w \in WindowManager, NEW t \in Slots
  PROVE  LET r == SurfaceReset(w, t) IN
         /\ r.focused = w.focused /\ r.activated = w.activated
         /\ r.scheduled = w.scheduled \ {t}
BY DEF SurfaceReset, WindowManager

\* No window is left waiting without a configure; none that is shown loses the
\* focus to freed memory, or without another one getting it; and none comes to be
\* focused without being activated, but by its address.
PendingStep == ConfigureIsPending => ConfigureIsPending'

LeftStep == wm.focused \in Mapped \cup {NULL} => wm'.focused \in Allocated' \cup {NULL}

HandOverStep ==
  wm.focused \in Mapped \ Mapped' =>
    LET others == Allocated' \ {wm.focused}
    IN IF others = {} THEN wm'.focused = NULL ELSE wm'.focused \in others

ReuseStep ==
  wm'.focused \in Allocated' \ wm'.activated =>
    \/ wm.focused \in Allocated \ wm.activated
    \/ wm.focused \notin Allocated \cup {NULL} /\ wm'.focused = wm.focused

LeavingStep == PendingStep /\ LeftStep /\ HandOverStep /\ ReuseStep

\* A step of one window, which may take its configure back, if it does not wait
\* for it, and which leaves the focus to a window that stays allocated.
LEMMA ToplevelStep ==
  ASSUME life \in [Slots -> Lives], NEW t \in Slots, NEW l \in Lives, Goto(t, l),
         wm.scheduled \ {t} \subseteq wm'.scheduled,
         l = "initial" => t \in wm'.scheduled,
         wm.focused \in Mapped \cup {NULL} =>
           /\ wm'.focused \in Allocated \cup {NULL}
           /\ wm'.focused = t => l # "free",
         wm.focused = t /\ t \in Mapped /\ l # "mapped" => HandedOver(wm'.focused, t),
         Followed(wm, wm', IF l = "free" THEN {t} ELSE {})
  PROVE  LeavingStep
PROOF
  <1>1. \A s \in Slots : life'[s] = IF s = t THEN l ELSE life[s]
    BY DEF Goto
  <1>2. PendingStep
    BY <1>1 DEF PendingStep, ConfigureIsPending
  <1>3. Allocated' = IF l = "free" THEN Allocated \ {t} ELSE Allocated \cup {t}
    BY GotoSets
  <1>4. LeftStep
    BY <1>3 DEF LeftStep
  <1>5. HandOverStep
    <2>1. SUFFICES ASSUME wm.focused \in Mapped \ Mapped'
                   PROVE  /\ wm.focused = t /\ HandedOver(wm'.focused, t)
                          /\ Allocated' \ {t} = Allocated \ {t}
      BY <2>1 DEF HandOverStep, HandedOver
    <2>2. wm.focused = t /\ l # "mapped"
      BY <1>1, <2>1 DEF Mapped
    <2>3. Allocated' \ {t} = Allocated \ {t}
      BY <1>3
    <2> QED
      BY <2>1, <2>2, <2>3
  <1>6. ReuseStep
    <2>1. SUFFICES ASSUME wm'.focused \in Allocated' \ wm'.activated
                   PROVE  \/ wm.focused \in Allocated \ wm.activated
                          \/ /\ wm.focused \notin Allocated \cup {NULL}
                             /\ wm'.focused = wm.focused
      BY <2>1 DEF ReuseStep
    <2>2. wm'.focused \in Slots /\ wm'.focused # NULL
      BY <2>1, NullAssumption DEF Allocated
    <2>3. /\ wm'.focused = wm.focused
          /\ wm.activated \ (IF l = "free" THEN {t} ELSE {}) \subseteq wm'.activated
      BY <2>1, <2>2 DEF Followed
    <2>4. wm.focused \notin wm.activated
      BY <1>3, <2>1, <2>3
    <2> QED
      BY <2>2, <2>3, <2>4
  <1> QED
    BY <1>2, <1>4, <1>5, <1>6 DEF LeavingStep

\* A step that lets every window be as it is.
LEMMA ResidentStep ==
  ASSUME life' = life, wm.scheduled \subseteq wm'.scheduled,
         wm'.focused \in Mapped \cup {wm.focused, NULL}, Followed(wm, wm', {})
  PROVE  LeavingStep
PROOF
  <1>1. Allocated' = Allocated /\ Mapped' = Mapped
    BY DEF Allocated, Mapped
  <1>2. PendingStep /\ LeftStep
    BY DEF PendingStep, ConfigureIsPending, LeftStep, Allocated, Mapped
  <1>3. HandOverStep
    BY <1>1 DEF HandOverStep
  <1>4. ReuseStep
    <2>1. SUFFICES ASSUME wm'.focused \in Allocated \ wm'.activated
                   PROVE  \/ wm.focused \in Allocated \ wm.activated
                          \/ /\ wm.focused \notin Allocated \cup {NULL}
                             /\ wm'.focused = wm.focused
      BY <1>1, <2>1 DEF ReuseStep
    <2>2. wm'.focused # NULL
      BY <2>1, NullAssumption DEF Allocated
    <2> QED
      BY <2>1, <2>2 DEF Followed
  <1> QED
    BY <1>2, <1>3, <1>4 DEF LeavingStep

\* What a client does to its own window.
LEMMA ClientLeaves ==
  ASSUME IInv, NEW t \in Slots, Client(t) \/ SendConfigure(t)
  PROVE  LeavingStep
PROOF
  <1>0. /\ wm \in WindowManager /\ IsInjective(wm.stack) /\ life \in [Slots -> Lives]
        /\ Sound(wm, Mapped, {}) /\ Mapped \subseteq Allocated /\ t # NULL
    BY MappedAllocated, NullAssumption DEF IInv, Sound, Linked
  <1>1. CASE NewToplevel(t)
    <2>1. /\ Goto(t, "new") /\ wm'.scheduled = wm.scheduled /\ wm'.focused = wm.focused
          /\ wm'.activated = wm.activated /\ t \notin Mapped
      BY <1>0, <1>1 DEF NewToplevel, WindowManager, Mapped
    <2> QED
      BY <1>0, <2>1, ToplevelStep DEF Lives, Followed
  <1>2. CASE InitialCommit(t)
    <2>1. /\ Goto(t, "initial") /\ wm'.scheduled = wm.scheduled \cup {t}
          /\ wm'.focused = wm.focused /\ wm'.activated = wm.activated /\ t \notin Mapped
      BY <1>0, <1>2 DEF InitialCommit, WindowManager, Mapped
    <2> QED
      BY <1>0, <2>1, ToplevelStep DEF Lives, Followed
  <1>3. CASE SendConfigure(t)
    <2> DEFINE l == IF life[t] = "initial" THEN "configured" ELSE life[t]
    <2>1. /\ Goto(t, l) /\ wm'.scheduled = wm.scheduled \ {t} /\ wm'.focused = wm.focused
          /\ wm'.activated = wm.activated
      BY <1>0, <1>3 DEF SendConfigure, WindowManager
    <2>2. l \in Lives /\ l # "initial"
      BY <1>0 DEF Lives
    <2>3. t \in Allocated
      BY <1>0, <1>3 DEF SendConfigure, Sound, Linked
    <2>4. l # "free" /\ (t \in Mapped => l = "mapped")
      BY <2>3 DEF Allocated, Mapped
    <2> HIDE DEF l
    <2> QED
      BY <1>0, <2>1, <2>2, <2>4, ToplevelStep DEF Followed
  <1>4. ASSUME NEW size \in Sizes, NEW ok \in BOOLEAN, MapCommit(t, size, ok)
        PROVE  LeavingStep
    <2>1. Goto(t, "mapped") /\ t \in Allocated
      BY <1>4 DEF MapCommit, Allocated
    <2>2. wm.scheduled \subseteq wm'.scheduled /\ wm'.focused = t /\ Followed(wm, wm', {})
      BY <1>0, <1>4, MapSchedules DEF MapCommit
    <2> QED
      BY <1>0, <2>1, <2>2, ToplevelStep DEF Lives
  <1>5. ASSUME NEW size \in Sizes, SizeCommit(t, size)
        PROVE  LeavingStep
    <2> DEFINE g == [wm EXCEPT !.geo[t] = size]
    <2>1. wm' = CommitHandler(g, t) /\ life' = life
      BY <1>5 DEF SizeCommit
    <2>2. /\ g \in WindowManager /\ g.focused = wm.focused /\ g.scheduled = wm.scheduled
          /\ g.activated = wm.activated
      BY <1>0 DEF WindowManager
    <2> HIDE DEF g
    <2>3. /\ wm'.focused = wm.focused /\ wm'.scheduled = wm.scheduled
          /\ wm'.activated = wm.activated
      BY <2>1, <2>2 DEF CommitHandler, WindowManager
    <2> QED
      BY <2>1, <2>3, ResidentStep DEF Followed
  <1>6. CASE UnmapCommit(t)
    <2> DEFINE u == UnmapHandler(wm, t)
    <2>1. Goto(t, "new") /\ wm' = SurfaceReset(u, t)
      BY <1>6 DEF UnmapCommit
    <2>2. /\ u \in WindowManager /\ wm.scheduled \subseteq u.scheduled
          /\ u.focused \in Allocated \cup {NULL, wm.focused}
          /\ wm.focused = t => HandedOver(u.focused, t)
          /\ Followed(wm, u, {})
      BY <1>0, UnmapSchedules, NextToplevelAllocated, NextToplevelPicks
    <2> HIDE DEF u
    <2>3. /\ wm'.focused = u.focused /\ wm'.scheduled = u.scheduled \ {t}
          /\ wm'.activated = u.activated
      BY <2>1, <2>2, ResetSchedules
    <2>4. Followed(wm, wm', {})
      BY <2>2, <2>3 DEF Followed
    <2> QED
      BY <1>0, <2>1, <2>2, <2>3, <2>4, ToplevelStep DEF Lives
  <1>7. CASE Goes(t)
    <2> DEFINE u == IF life[t] = "mapped" THEN UnmapHandler(wm, t) ELSE wm
    <2>1. /\ Goto(t, "free")
          /\ \/ wm' = SurfaceGone(DestroyHandler(u, t), t)
             \/ \E x \in Remnants : wm' = SurfaceStays(DestroyHandler(u, t), t, x)
      BY <1>7 DEF Goes, Destroyed
    <2>2. /\ u \in WindowManager /\ wm.scheduled \subseteq u.scheduled
          /\ wm.focused \in Mapped \cup {NULL} => u.focused \in (Allocated \ {t}) \cup {NULL}
          /\ wm.focused = t /\ t \in Mapped => HandedOver(u.focused, t)
          /\ Followed(wm, u, {})
      <3>1. CASE life[t] = "mapped"
        <4>1. t \in Mapped
          BY <3>1 DEF Mapped
        <4> QED
          BY <1>0, <3>1, <4>1, UnmapSchedules, NextToplevelAllocated, NextToplevelPicks
      <3>2. CASE life[t] # "mapped"
        <4>1. t \notin Mapped
          BY <3>2 DEF Mapped
        <4> QED
          BY <1>0, <3>2, <4>1 DEF Followed
      <3> QED
        BY <3>1, <3>2
    <2>3. u.focused = t => life[t] # "mapped"
      <3>1. ASSUME life[t] = "mapped" PROVE u.focused # t
        BY <1>0, <3>1, UnmapSchedules, NextToplevelAllocated
      <3> QED
        BY <3>1
    <2>4. u.focused = t => u = wm
      BY <2>3
    <2> HIDE DEF u
    <2>5. /\ wm'.focused = u.focused /\ wm'.scheduled = u.scheduled \ {t}
          /\ wm'.activated = u.activated \ {t}
      BY <2>1, <2>2, GoneFields
    <2>6. Followed(wm, wm', {t})
      <3>1. CASE u.focused = t
        BY <2>4, <2>5, <3>1 DEF Followed
      <3>2. CASE u.focused # t
        BY <2>2, <2>5, <3>2 DEF Followed
      <3> QED
        BY <3>1, <3>2
    <2> QED
      BY <1>0, <2>1, <2>2, <2>5, <2>6, ToplevelStep DEF Lives
  <1>8. CASE RequestMaximize(t) \/ RequestFullscreen(t) \/ NewDecoration(t)
    <2>1. /\ life' = life /\ wm'.scheduled = wm.scheduled \cup {t}
          /\ wm'.focused = wm.focused /\ wm'.activated = wm.activated
      BY <1>0, <1>8 DEF RequestMaximize, RequestFullscreen, NewDecoration, ScheduleConfigure,
                        WindowManager
    <2> QED
      BY <2>1, ResidentStep DEF Followed
  <1> QED
    BY <1>1, <1>2, <1>3, <1>4, <1>5, <1>6, <1>7, <1>8, DestroyGoes DEF Client

\* Every step leaves the waiting windows a configure and the focus a window.
LEMMA NextLeaves ==
  ASSUME IInv, [Next]_shellVars PROVE LeavingStep
PROOF
  <1>0. wm \in WindowManager /\ IsInjective(wm.stack)
    BY DEF IInv, Sound, Linked
  <1>1. CASE UNCHANGED shellVars \/ Terminate \/ \E b \in Backgrounds : LoseOutput(b)
    <2>1. life' = life /\ wm' = wm
      BY <1>1 DEF shellVars, Terminate, LoseOutput
    <2> QED
      BY <2>1, ResidentStep DEF Followed
  <1>2. ASSUME NEW t \in Slots, Client(t) \/ SendConfigure(t) PROVE LeavingStep
    BY <1>2, ClientLeaves
  <1>3. ASSUME NEW n, PutOnTop(n) \/ DetachPopup(n) \/ SeatKeyboard(n) \/ DestroySurface(n)
        PROVE LeavingStep
    <2>1. /\ life' = life /\ wm'.scheduled = wm.scheduled /\ wm'.focused = wm.focused
          /\ wm'.activated = wm.activated
      BY <1>0, <1>3 DEF PutOnTop, DetachPopup, SeatKeyboard, DestroySurface, WindowManager
    <2> QED
      BY <2>1, ResidentStep DEF Followed
  <1>4. ASSUME NEW t \in Slots \cup {NULL}, FocusRequest(t) PROVE LeavingStep
    <2>1. life' = life /\ wm' = FocusToplevel(wm, t) /\ t \in Mapped \cup {NULL}
      BY <1>4 DEF FocusRequest
    <2>2. wm.scheduled \subseteq wm'.scheduled /\ wm'.focused = t /\ Followed(wm, wm', {})
      BY <1>0, <2>1, FocusSchedules
    <2> QED
      BY <2>1, <2>2, ResidentStep
  <1> QED
    BY <1>1, <1>2, <1>3, <1>4 DEF Next, Unattended, AddBackground, AttachPopup

\* Whatever other windows do, a client that waits for the answer to its initial
\* commit has it on its way.
THEOREM AnswerIsOnItsWay == Spec => []ConfigureIsPending
PROOF
  <1>1. Init => ConfigureIsPending
    BY DEF Init, ConfigureIsPending
  <1>2. IInv /\ ConfigureIsPending /\ [Next]_shellVars => ConfigureIsPending'
    BY NextLeaves DEF LeavingStep, PendingStep
  <1> QED
    BY <1>1, <1>2, Inductive, PTL DEF Spec

\* No handler takes the focus from a window that is shown to freed memory.
THEOREM FocusOutlivesTheShown == Spec => FocusDanglesOnlyFromHidden
PROOF
  <1>1. IInv /\ [Next]_shellVars => LeftStep
    BY NextLeaves DEF LeavingStep
  <1>2. [LeftStep]_shellVars
          => [wm.focused \in Mapped \cup {NULL} =>
                wm'.focused \in Allocated' \cup {NULL}]_shellVars
    BY DEF LeftStep
  <1> QED
    BY <1>1, <1>2, Inductive, PTL DEF Spec, FocusDanglesOnlyFromHidden

\* A window that is shown and focused leaves the focus, unmapped or destroyed, to
\* another toplevel that exists, or to none if there is no other.
THEOREM HandsFocusOver == Spec => FocusIsHandedOver
PROOF
  <1>1. IInv /\ [Next]_shellVars => HandOverStep
    BY NextLeaves DEF LeavingStep
  <1>2. [HandOverStep]_shellVars
          => [wm.focused \in Mapped \ Mapped' =>
                LET others == Allocated' \ {wm.focused}
                IN IF others = {} THEN wm'.focused = NULL ELSE wm'.focused \in others]_shellVars
    BY DEF HandOverStep
  <1> QED
    BY <1>1, <1>2, Inductive, PTL DEF Spec, FocusIsHandedOver

\* Only a toplevel that gets the address of a freed focused one comes to be focused
\* without being activated.
THEOREM UnactivatedOnlyByReuse == Spec => FocusedUnactivatedOnlyByReuse
PROOF
  <1>1. IInv /\ [Next]_shellVars => ReuseStep
    BY NextLeaves DEF LeavingStep
  <1>2. [ReuseStep]_shellVars
          => [wm'.focused \in Allocated' \ wm'.activated =>
                \/ wm.focused \in Allocated \ wm.activated
                \/ /\ wm.focused \notin Allocated \cup {NULL}
                   /\ wm'.focused = wm.focused]_shellVars
    BY DEF ReuseStep
  <1> QED
    BY <1>1, <1>2, Inductive, PTL DEF Spec, FocusedUnactivatedOnlyByReuse
=============================================================================
