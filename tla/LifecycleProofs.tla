-------------------------- MODULE LifecycleProofs ---------------------------
(***************************************************************************)
(* Proofs about the process: in which order server_init() makes the        *)
(* subsystems, that each of its labels destroys what has been made, and    *)
(* that server_finish() destroys the rest, except the scene.               *)
(***************************************************************************)
EXTENDS Lifecycle, SequenceTheorems, FiniteSetTheorems, TLAPS

\* What server_init() has made when it is about to make its n-th subsystem.
MadeBefore(n) == {Subsystems[i] : i \in 1 .. n - 1}

\* What is destroyed by a call of its own.
Calls ==
  {"clients", "xcursor", "cursor", "allocator", "renderer", "backend", "display"}

\* No call comes before that of one that uses what it destroys.
Ordered(calls) == \A i, j \in DOMAIN calls : calls[j] \in Uses(calls[i]) => i < j

\* What is left, behind a label or in server_finish(): each call destroys
\* something that is there, once, the display at last; what has none goes with
\* the display, users go before what they use, and the clients go while all there
\* is is there.
OnTheWayOut ==
  /\ todo \in Seq(Calls) /\ todo # << >> /\ IsInjective(todo)
  /\ todo[Len(todo)] = "display"
  /\ ToSet(todo) \subseteq live \cup {"clients"}
  /\ live \subseteq ToSet(todo) \cup {"scene"} \cup OwnedByDisplay
  /\ "clients" \in ToSet(todo) => Head(todo) = "clients" /\ ToSet(Subsystems) \subseteq live
  /\ Ordered(todo) /\ UsersGoFirst

\* The inductive invariant.
LifecycleInv ==
  /\ phase \in Phases /\ shouldExit \in BOOLEAN
  /\ phase \in {"init", "socket", "start", "loop", "exited"} => todo = << >>
  /\ phase = "init" => \E n \in 1 .. 15 : /\ live = MadeBefore(n) /\ IsFiniteSet(live)
                                         /\ Cardinality(live) = n - 1
  /\ phase \in {"socket", "start"} => live = ToSet(Subsystems)
  /\ phase = "loop" => /\ ToSet(Subsystems) \subseteq live
                       /\ live \subseteq ToSet(Subsystems) \cup {"clients"}
  /\ phase \in {"unwind", "finish"} => OnTheWayOut
  /\ phase = "finish" => {"scene"} \cup OwnedByDisplay \subseteq live
  /\ phase = "exited" => live \subseteq {"scene"}

-----------------------------------------------------------------------------
(* The subsystems and the calls, by name *)

\* The fifteen subsystems, and which of them have a destructor call.
LEMMA SubsystemNames ==
  /\ Len(Subsystems) = 15 /\ Last(Subsystems) = Subsystems[15]
  /\ ToSet(Subsystems) = {Subsystems[i] : i \in 1 .. 15}
  /\ \A i, j \in 1 .. 15 : Subsystems[i] = Subsystems[j] => i = j
  /\ \A i \in 5 .. 13 : Subsystems[i] \in {"scene"} \cup OwnedByDisplay
  /\ {"scene"} \cup OwnedByDisplay \subseteq ToSet(Subsystems)
  /\ {"xcursor", "cursor", "allocator", "renderer", "backend", "display"}
       \subseteq ToSet(Subsystems)
  /\ ToSet(Subsystems) \subseteq Calls \cup {"scene"} \cup OwnedByDisplay
  /\ "clients" \notin ToSet(Subsystems)
PROOF
  <1>1. Len(Subsystems) = 15
    BY DEF Subsystems
  <1>2. ToSet(Subsystems) = {Subsystems[i] : i \in 1 .. 15}
    BY <1>1 DEF ToSet, Subsystems
  <1>3. /\ Subsystems[1] = "display" /\ Subsystems[2] = "backend"
        /\ Subsystems[3] = "renderer" /\ Subsystems[4] = "allocator"
        /\ Subsystems[5] = "scene" /\ Subsystems[6] = "layout"
        /\ Subsystems[7] = "scene_layout" /\ Subsystems[8] = "compositor"
        /\ Subsystems[9] = "subcompositor" /\ Subsystems[10] = "data_device"
        /\ Subsystems[11] = "xdg_shell" /\ Subsystems[12] = "decoration"
        /\ Subsystems[13] = "seat" /\ Subsystems[14] = "cursor"
        /\ Subsystems[15] = "xcursor"
    BY DEF Subsystems
  <1>4. \A i, j \in 1 .. 15 : Subsystems[i] = Subsystems[j] => i = j
    BY DEF Subsystems
  <1>5. \A i \in 1 .. 15 : i \in {1, 2, 3, 4, 5, 6, 7, 8, 9, 10, 11, 12, 13, 14, 15}
    OBVIOUS
  <1>6. \A i \in 5 .. 13 : Subsystems[i] \in {"scene"} \cup OwnedByDisplay
    BY DEF Subsystems, OwnedByDisplay
  <1>7. /\ {"scene"} \cup OwnedByDisplay \subseteq ToSet(Subsystems)
        /\ {"xcursor", "cursor", "allocator", "renderer", "backend", "display"}
             \subseteq ToSet(Subsystems)
    BY <1>2, <1>3 DEF OwnedByDisplay
  <1>8. \A i \in 1 .. 15 : /\ Subsystems[i] \in Calls \cup {"scene"} \cup OwnedByDisplay
                           /\ Subsystems[i] # "clients"
    BY <1>3, <1>5 DEF Calls, OwnedByDisplay
  <1> QED
    BY <1>1, <1>2, <1>4, <1>6, <1>7, <1>8 DEF Last

\* What has a destructor call of its own is neither the scene nor, the display
\* aside, destroyed with the display.
LEMMA CallsDiffer ==
  /\ (Calls \ {"display"}) \cap ({"scene"} \cup OwnedByDisplay) = {}
  /\ "display" \notin {"scene"} \cup OwnedByDisplay
BY DEF Calls, OwnedByDisplay

\* A sequence of calls is empty when its length is 0.
LEMMA NoCalls ==
  ASSUME NEW calls \in Seq(Calls) PROVE calls = << >> <=> Len(calls) = 0
BY EmptySeq

\* What uses what, by name.
LEMMA UsesNames ==
  /\ Uses("display") = {} /\ Uses("scene") = {} /\ Uses("xcursor") = {}
  /\ Uses("backend") = {"display"} /\ Uses("renderer") = {"backend"}
  /\ Uses("allocator") = {"backend", "renderer"} /\ Uses("cursor") = {"layout"}
  /\ Uses("clients") = ToSet(Subsystems)
  /\ \A o \in OwnedByDisplay : Uses(o) \subseteq {"display", "scene", "layout"}
BY DEF Uses, OwnedByDisplay

\* A subsystem is made after those it uses.
LEMMA UsesMade ==
  ASSUME NEW i \in 1 .. 15 PROVE Uses(Subsystems[i]) \subseteq MadeBefore(i)
PROOF
  <1>1. /\ Subsystems[1] = "display" /\ Subsystems[2] = "backend"
        /\ Subsystems[3] = "renderer" /\ Subsystems[4] = "allocator"
        /\ Subsystems[5] = "scene" /\ Subsystems[6] = "layout"
        /\ Subsystems[7] = "scene_layout" /\ Subsystems[8] = "compositor"
        /\ Subsystems[9] = "subcompositor" /\ Subsystems[10] = "data_device"
        /\ Subsystems[11] = "xdg_shell" /\ Subsystems[12] = "decoration"
        /\ Subsystems[13] = "seat" /\ Subsystems[14] = "cursor"
        /\ Subsystems[15] = "xcursor"
    BY DEF Subsystems
  <1>2. /\ i > 1 => "display" \in MadeBefore(i)
        /\ i > 2 => "backend" \in MadeBefore(i)
        /\ i > 3 => "renderer" \in MadeBefore(i)
        /\ i > 5 => "scene" \in MadeBefore(i)
        /\ i > 6 => "layout" \in MadeBefore(i)
    BY <1>1 DEF MadeBefore
  <1>3. i \in {1, 2, 3, 4, 5, 6, 7, 8, 9, 10, 11, 12, 13, 14, 15}
    OBVIOUS
  <1>4. /\ Uses("layout") = {"display"} /\ Uses("scene_layout") = {"scene", "layout"}
        /\ Uses("compositor") = {"display"} /\ Uses("subcompositor") = {"display"}
        /\ Uses("data_device") = {"display"} /\ Uses("xdg_shell") = {"display"}
        /\ Uses("decoration") = {"display"} /\ Uses("seat") = {"display"}
    BY DEF Uses
  <1> HIDE DEF Subsystems
  <1> QED
    BY <1>1, <1>2, <1>3, <1>4, UsesNames

\* What is made is made with all it uses.
LEMMA MadeUses ==
  ASSUME NEW n \in 1 .. 15, live = MadeBefore(n) PROVE UsersGoFirst
PROOF
  <1>1. SUFFICES ASSUME NEW i \in 1 .. n - 1 PROVE Uses(Subsystems[i]) \subseteq live
    BY <1>1 DEF UsersGoFirst, MadeBefore
  <1>2. i \in 1 .. 15 /\ MadeBefore(i) \subseteq MadeBefore(n)
    BY DEF MadeBefore
  <1> QED
    BY <1>2, UsesMade

\* Where every subsystem is there, so is all that any uses.
LEMMA AllUses ==
  ASSUME ToSet(Subsystems) \subseteq live, live \subseteq ToSet(Subsystems) \cup {"clients"}
  PROVE  UsersGoFirst
PROOF
  <1>1. ASSUME NEW i \in 1 .. 15 PROVE Uses(Subsystems[i]) \subseteq ToSet(Subsystems)
    BY <1>1, UsesMade, SubsystemNames DEF MadeBefore
  <1>2. \A o \in ToSet(Subsystems) : Uses(o) \subseteq ToSet(Subsystems)
    BY <1>1, SubsystemNames
  <1> QED
    BY <1>2, UsesNames DEF UsersGoFirst

\* The labels destroy users before what they use.
LEMMA UnwindOrdered ==
  ASSUME NEW i \in 1 .. 5, NEW j \in 1 .. 5, Unwind[j] \in Uses(Unwind[i])
  PROVE  i < j
PROOF
  <1>1. /\ Unwind[1] = "cursor" /\ Unwind[2] = "allocator" /\ Unwind[3] = "renderer"
        /\ Unwind[4] = "backend" /\ Unwind[5] = "display"
    BY DEF Unwind
  <1>2. i \in {1, 2, 3, 4, 5} /\ j \in {1, 2, 3, 4, 5}
    OBVIOUS
  <1> HIDE DEF Unwind
  <1> QED
    BY <1>1, <1>2, UsesNames

\* So does server_finish().
LEMMA FinishOrdered == Ordered(FinishCalls)
PROOF
  <1>1. /\ FinishCalls[1] = "clients" /\ FinishCalls[2] = "xcursor"
        /\ FinishCalls[3] = "cursor" /\ FinishCalls[4] = "allocator"
        /\ FinishCalls[5] = "renderer" /\ FinishCalls[6] = "backend"
        /\ FinishCalls[7] = "display" /\ DOMAIN FinishCalls = 1 .. 7
    BY DEF FinishCalls
  <1>2. \A k \in 1 .. 7 : k \in {1, 2, 3, 4, 5, 6, 7}
    OBVIOUS
  <1>3. ASSUME NEW i \in 1 .. 7, NEW j \in 1 .. 7, FinishCalls[j] \in Uses(FinishCalls[i])
        PROVE  i < j
    <2>1. CASE i = 1
      <3>1. FinishCalls[j] \in ToSet(Subsystems)
        BY <1>1, <1>3, <2>1, UsesNames
      <3>2. j # 1
        BY <1>1, <3>1, SubsystemNames
      <3> QED
        BY <2>1, <3>2
    <2>2. CASE i # 1
      BY <1>1, <1>2, <1>3, <2>2, UsesNames
    <2> QED
      BY <2>1, <2>2
  <1> QED
    BY <1>1, <1>3 DEF Ordered

\* What the labels destroy, from the k-th on.
LEMMA LabelCalls ==
  ASSUME NEW k \in 1 .. 5
  PROVE  LET calls == SubSeq(Unwind, k, Len(Unwind)) IN
         /\ calls \in Seq(Calls) /\ calls # << >> /\ IsInjective(calls)
         /\ calls[Len(calls)] = "display" /\ "clients" \notin ToSet(calls)
         /\ ToSet(calls) = {Unwind[i] : i \in k .. 5}
         /\ Ordered(calls)
PROOF
  <1> DEFINE calls == SubSeq(Unwind, k, 5)
  <1>1. Len(Unwind) = 5 /\ Unwind[5] = "display" /\ \A i \in 1 .. 5 : Unwind[i] \in Calls
    BY DEF Unwind, Calls
  <1>2. \A i \in 1 .. 5 : Unwind[i] # "clients"
    BY DEF Unwind
  <1>3. \A i, j \in 1 .. 5 : Unwind[i] = Unwind[j] => i = j
    BY DEF Unwind
  <1>4. /\ calls \in Seq(Calls) /\ Len(calls) = 6 - k
        /\ \A i \in 1 .. 6 - k : calls[i] = Unwind[k + i - 1]
    <2>1. \A i \in k .. 5 : Unwind[i] \in Calls
      BY <1>1
    <2> HIDE DEF Calls, Unwind
    <2>2. /\ calls \in Seq(Calls) /\ Len(calls) = 5 - k + 1
          /\ \A i \in 1 .. 5 - k + 1 : calls[i] = Unwind[k + i - 1]
      BY <2>1, SubSeqProperties
    <2>3. 5 - k + 1 = 6 - k
      OBVIOUS
    <2> QED
      BY <2>2, <2>3
  <1> HIDE DEF calls, Calls, Unwind
  <1>a. DOMAIN calls = 1 .. 6 - k
    BY <1>4
  <1>b. Ordered(calls)
    <2>1. SUFFICES ASSUME NEW a \in 1 .. 6 - k, NEW b \in 1 .. 6 - k, calls[b] \in Uses(calls[a])
                   PROVE  a < b
      BY <1>a DEF Ordered
    <2>2. k + a - 1 \in 1 .. 5 /\ k + b - 1 \in 1 .. 5
      OBVIOUS
    <2>3. Unwind[k + b - 1] \in Uses(Unwind[k + a - 1])
      BY <1>4, <2>1
    <2>4. k + a - 1 < k + b - 1
      BY <2>2, <2>3, UnwindOrdered
    <2> QED
      BY <2>4
  <1>5. calls # << >>
    BY <1>4, NoCalls
  <1>6. IsInjective(calls)
    <2>1. SUFFICES ASSUME NEW a \in 1 .. 6 - k, NEW b \in 1 .. 6 - k, calls[a] = calls[b]
                   PROVE  a = b
      BY <1>a DEF IsInjective
    <2>2. k + a - 1 \in 1 .. 5 /\ k + b - 1 \in 1 .. 5
      OBVIOUS
    <2>3. Unwind[k + a - 1] = Unwind[k + b - 1]
      BY <1>4, <2>1
    <2>4. k + a - 1 = k + b - 1
      BY <1>3, <2>2, <2>3
    <2> QED
      BY <2>4
  <1>7. calls[Len(calls)] = "display"
    BY <1>1, <1>4
  <1>8. ToSet(calls) = {Unwind[i] : i \in k .. 5}
    <2>1. ToSet(calls) = {calls[i] : i \in 1 .. 6 - k}
      BY <1>a DEF ToSet
    <2>2. ASSUME NEW i \in k .. 5
          PROVE  Unwind[i] \in ToSet(calls)
      <3>1. i - k + 1 \in 1 .. 6 - k /\ k + (i - k + 1) - 1 = i
        OBVIOUS
      <3>2. calls[i - k + 1] = Unwind[i]
        BY <1>4, <3>1
      <3> QED
        BY <2>1, <3>1, <3>2
    <2>3. ASSUME NEW i \in 1 .. 6 - k
          PROVE  calls[i] \in {Unwind[j] : j \in k .. 5}
      <3>1. k + i - 1 \in k .. 5
        OBVIOUS
      <3> QED
        BY <1>4, <3>1
    <2> QED
      BY <2>1, <2>2, <2>3
  <1>9. "clients" \notin ToSet(calls)
    BY <1>2, <1>8
  <1> QED
    BY <1>1, <1>4, <1>5, <1>6, <1>7, <1>8, <1>9, <1>b DEF calls

\* The calls of server_finish().
LEMMA FinishNames ==
  /\ FinishCalls \in Seq(Calls) /\ FinishCalls # << >> /\ IsInjective(FinishCalls)
  /\ FinishCalls[Len(FinishCalls)] = "display" /\ Head(FinishCalls) = "clients"
  /\ ToSet(FinishCalls) = Calls
PROOF
  <1>1. Len(FinishCalls) = 7 /\ DOMAIN FinishCalls = 1 .. 7
    BY DEF FinishCalls
  <1>2. FinishCalls \in Seq(Calls) /\ FinishCalls # << >> /\ Head(FinishCalls) = "clients"
    BY DEF FinishCalls, Calls
  <1>3. IsInjective(FinishCalls)
    <2>1. \A i, j \in 1 .. 7 : FinishCalls[i] = FinishCalls[j] => i = j
      BY DEF FinishCalls
    <2> QED
      BY <1>1, <2>1 DEF IsInjective
  <1>4. /\ FinishCalls[1] = "clients" /\ FinishCalls[2] = "xcursor"
        /\ FinishCalls[3] = "cursor" /\ FinishCalls[4] = "allocator"
        /\ FinishCalls[5] = "renderer" /\ FinishCalls[6] = "backend"
        /\ FinishCalls[7] = "display"
    BY DEF FinishCalls
  <1>5. \A i \in 1 .. 7 : i \in {1, 2, 3, 4, 5, 6, 7}
    OBVIOUS
  <1>6. ToSet(FinishCalls) = {FinishCalls[i] : i \in 1 .. 7}
    BY <1>1 DEF ToSet
  <1>7. ToSet(FinishCalls) \subseteq Calls
    BY <1>4, <1>5, <1>6 DEF Calls
  <1>8. Calls \subseteq ToSet(FinishCalls)
    BY <1>4, <1>6 DEF Calls
  <1> QED
    BY <1>1, <1>2, <1>3, <1>4, <1>7, <1>8

\* What a call leaves to the calls behind it.
LEMMA TailCalls ==
  ASSUME NEW calls \in Seq(Calls), calls # << >>, IsInjective(calls),
         calls[Len(calls)] = "display"
  PROVE  /\ Tail(calls) \in Seq(Calls) /\ IsInjective(Tail(calls))
         /\ ToSet(Tail(calls)) = ToSet(calls) \ {Head(calls)}
         /\ Head(calls) \in ToSet(calls) /\ Head(calls) \in Calls
         /\ Tail(calls) # << >> => /\ Tail(calls)[Len(Tail(calls))] = "display"
                                   /\ Head(calls) # "display"
         /\ Tail(calls) = << >> => /\ Head(calls) = "display"
                                   /\ ToSet(calls) = {"display"}
         /\ Ordered(calls) => /\ Ordered(Tail(calls))
                              /\ \A c \in ToSet(calls) : Head(calls) \notin Uses(c)
PROOF
  <1> DEFINE n == Len(calls)
             rest == Tail(calls)
  <1> HIDE DEF Calls
  <1>1. n \in Nat /\ n # 0
    BY NoCalls
  <1>2. n \in Nat \ {0} /\ DOMAIN calls = 1 .. n /\ Head(calls) = calls[1] /\ 1 \in 1 .. n
    BY <1>1
  <1>3. /\ rest \in Seq(Calls) /\ Len(rest) = n - 1
        /\ \A i \in 1 .. n - 1 : rest[i] = calls[i + 1]
    BY <1>2
  <1>4. DOMAIN rest = 1 .. n - 1
    BY <1>3
  <1> HIDE DEF n, rest
  <1>5. \A i, j \in 1 .. n : calls[i] = calls[j] => i = j
    BY <1>2 DEF IsInjective
  <1>6. IsInjective(rest)
    <2>1. SUFFICES ASSUME NEW a \in 1 .. n - 1, NEW b \in 1 .. n - 1, rest[a] = rest[b]
                   PROVE  a = b
      BY <1>4 DEF IsInjective
    <2>2. a + 1 \in 1 .. n /\ b + 1 \in 1 .. n
      BY <1>2
    <2>3. a + 1 = b + 1
      BY <1>3, <1>5, <2>1, <2>2
    <2> QED
      BY <2>3
  <1>7. /\ ToSet(calls) = {calls[i] : i \in 1 .. n}
        /\ ToSet(rest) = {rest[i] : i \in 1 .. n - 1}
    BY <1>2, <1>4 DEF ToSet
  <1>8. ToSet(rest) = ToSet(calls) \ {Head(calls)}
    <2>1. ASSUME NEW i \in 1 .. n - 1
          PROVE  rest[i] \in ToSet(calls) \ {Head(calls)}
      <3>1. i + 1 \in 1 .. n /\ i + 1 # 1
        BY <1>2
      <3> QED
        BY <1>2, <1>3, <1>5, <1>7, <3>1
    <2>2. ASSUME NEW i \in 1 .. n, calls[i] # Head(calls)
          PROVE  calls[i] \in ToSet(rest)
      <3>1. i # 1
        BY <1>2, <2>2
      <3>2. i - 1 \in 1 .. n - 1 /\ (i - 1) + 1 = i
        BY <1>2, <3>1
      <3>3. rest[i - 1] = calls[i]
        BY <1>3, <3>2
      <3> QED
        BY <1>7, <3>2, <3>3
    <2> QED
      BY <1>7, <2>1, <2>2
  <1>9. Head(calls) \in ToSet(calls) /\ Head(calls) \in Calls
    BY <1>2, <1>7
  <1>10. calls[n] = "display" /\ n \in 1 .. n
    BY <1>2 DEF n
  <1>11. ASSUME rest # << >>
         PROVE  rest[Len(rest)] = "display" /\ Head(calls) # "display"
    <2>1. Len(rest) # 0
      BY <1>3, <1>11, NoCalls
    <2>2. n - 1 \in 1 .. n - 1 /\ n # 1 /\ (n - 1) + 1 = n
      BY <1>2, <1>3, <2>1
    <2>3. rest[n - 1] = calls[n]
      BY <1>3, <2>2
    <2> QED
      BY <1>2, <1>3, <1>5, <1>10, <2>2, <2>3
  <1>12. ASSUME rest = << >>
         PROVE  Head(calls) = "display" /\ ToSet(calls) = {"display"}
    <2>1. Len(rest) = 0
      BY <1>12
    <2>2. n = 1
      BY <1>2, <1>3, <2>1
    <2>3. \A i \in 1 .. n : i = 1
      BY <2>2
    <2> QED
      BY <1>2, <1>7, <1>10, <2>2, <2>3
  <1>13. ASSUME Ordered(calls)
         PROVE  Ordered(rest) /\ \A c \in ToSet(calls) : Head(calls) \notin Uses(c)
    <2>1. \A i, j \in 1 .. n : calls[j] \in Uses(calls[i]) => i < j
      BY <1>2, <1>13 DEF Ordered
    <2>2. ASSUME NEW a \in 1 .. n - 1, NEW b \in 1 .. n - 1, rest[b] \in Uses(rest[a])
          PROVE  a < b
      <3>1. a + 1 \in 1 .. n /\ b + 1 \in 1 .. n
        BY <1>2
      <3>2. calls[b + 1] \in Uses(calls[a + 1])
        BY <1>3, <2>2
      <3>3. a + 1 < b + 1
        BY <2>1, <3>1, <3>2
      <3> QED
        BY <3>3
    <2>3. \A i \in 1 .. n : calls[1] \notin Uses(calls[i])
      BY <1>2, <2>1
    <2> QED
      BY <1>2, <1>4, <1>7, <2>2, <2>3 DEF Ordered
  <1> QED
    BY <1>3, <1>6, <1>8, <1>9, <1>11, <1>12, <1>13 DEF rest

-----------------------------------------------------------------------------
(* The steps *)

\* One construction after the other: the last of them opens the socket.
LEMMA CreateKeeps ==
  ASSUME LifecycleInv, NEW o \in ToSet(Subsystems), Create(o)
  PROVE  LifecycleInv'
PROOF
  <1>1. PICK n \in 1 .. 15 : /\ live = MadeBefore(n) /\ IsFiniteSet(live)
                              /\ Cardinality(live) = n - 1
    BY DEF LifecycleInv, Create
  <1>2. o = Subsystems[n]
    BY <1>1 DEF Create, IsNext
  <1>3. live' = {Subsystems[i] : i \in 1 .. n}
    BY <1>1, <1>2 DEF Create, MadeBefore
  <1>4. todo' = << >> /\ shouldExit' \in BOOLEAN
    BY DEF LifecycleInv, Create
  <1>5. CASE n = 15
    <2>1. phase' = "socket"
      BY <1>2, <1>5, SubsystemNames DEF Create
    <2>2. live' = ToSet(Subsystems)
      BY <1>3, <1>5, SubsystemNames
    <2> QED
      BY <1>4, <2>1, <2>2 DEF LifecycleInv, Phases
  <1>6. CASE n # 15
    <2>1. o # Last(Subsystems)
      BY <1>2, <1>6, SubsystemNames
    <2>2. phase' = "init"
      BY <2>1 DEF Create
    <2>3. live' = MadeBefore(n + 1)
      BY <1>3 DEF MadeBefore
    <2>4. o \notin live
      BY <1>1, <1>2, SubsystemNames DEF MadeBefore
    <2>5. IsFiniteSet(live)
      BY <1>1
    <2>6. live' = live \cup {o}
      BY DEF Create
    <2>7. Cardinality(live') = n /\ IsFiniteSet(live')
      BY <1>1, <2>4, <2>5, <2>6, FS_AddElement
    <2> QED
      BY <1>4, <1>6, <2>2, <2>3, <2>7 DEF LifecycleInv, Phases
  <1> QED
    BY <1>5, <1>6

\* What a label destroys is what was made before the jump to it, but for the
\* scene and for what the display takes along.
LEMMA LabelFits ==
  ASSUME NEW n \in 1 .. 15, NEW k, k = Label(Subsystems[n])
  PROVE  /\ k \in 1 .. 6
         /\ k = 6 <=> n = 1
         /\ k < 6 => {Unwind[i] : i \in k .. 5} \subseteq MadeBefore(n)
         /\ MadeBefore(n) \subseteq {Unwind[i] : i \in k .. 5} \cup {"scene"} \cup OwnedByDisplay
PROOF
  <1>1. /\ Subsystems[1] = "display" /\ Subsystems[2] = "backend"
        /\ Subsystems[3] = "renderer" /\ Subsystems[4] = "allocator"
        /\ Subsystems[14] = "cursor" /\ Subsystems[15] = "xcursor"
    BY DEF Subsystems
  <1>2. /\ Unwind[1] = "cursor" /\ Unwind[2] = "allocator" /\ Unwind[3] = "renderer"
        /\ Unwind[4] = "backend" /\ Unwind[5] = "display"
    BY DEF Unwind
  <1> HIDE DEF Subsystems, Unwind
  <1>3. k = CASE n = 1 -> 6 [] n = 2 -> 5 [] n = 3 -> 4 [] n = 4 -> 3 [] n = 15 -> 1
              [] OTHER -> 2
    <2>1. /\ Subsystems[n] = "display" <=> n = 1
          /\ Subsystems[n] = "backend" <=> n = 2
          /\ Subsystems[n] = "renderer" <=> n = 3
          /\ Subsystems[n] = "allocator" <=> n = 4
          /\ Subsystems[n] = "xcursor" <=> n = 15
      BY <1>1, SubsystemNames
    <2> QED
      BY <2>1 DEF Label
  <1>4. k \in 1 .. 6 /\ (k = 6 <=> n = 1)
    BY <1>3
  <1>5. ASSUME NEW i \in k .. 5
        PROVE  Unwind[i] \in MadeBefore(n)
    <2>1. i \in {1, 2, 3, 4, 5} /\ k <= i
      BY <1>4
    <2>2. CASE i = 1
      BY <1>1, <1>2, <1>3, <2>1, <2>2 DEF MadeBefore
    <2>3. CASE i = 2
      BY <1>1, <1>2, <1>3, <2>1, <2>3 DEF MadeBefore
    <2>4. CASE i = 3
      BY <1>1, <1>2, <1>3, <2>1, <2>4 DEF MadeBefore
    <2>5. CASE i = 4
      BY <1>1, <1>2, <1>3, <2>1, <2>5 DEF MadeBefore
    <2>6. CASE i = 5
      BY <1>1, <1>2, <1>3, <2>1, <2>6 DEF MadeBefore
    <2> QED
      BY <2>1, <2>2, <2>3, <2>4, <2>5, <2>6
  <1>6. ASSUME NEW j \in 1 .. n - 1
        PROVE  Subsystems[j] \in {Unwind[i] : i \in k .. 5} \cup {"scene"} \cup OwnedByDisplay
    <2>1. j \in {1, 2, 3, 4, 14} \/ j \in 5 .. 13
      OBVIOUS
    <2>2. CASE j \in 5 .. 13
      BY <2>2, SubsystemNames
    <2>3. CASE j = 1
      <3>1. 5 \in k .. 5
        BY <1>3, <2>3
      <3> QED
        BY <1>1, <1>2, <2>3, <3>1
    <2>4. CASE j = 2
      <3>1. 4 \in k .. 5
        BY <1>3, <2>4
      <3> QED
        BY <1>1, <1>2, <2>4, <3>1
    <2>5. CASE j = 3
      <3>1. 3 \in k .. 5
        BY <1>3, <2>5
      <3> QED
        BY <1>1, <1>2, <2>5, <3>1
    <2>6. CASE j = 4
      <3>1. 2 \in k .. 5
        BY <1>3, <2>6
      <3> QED
        BY <1>1, <1>2, <2>6, <3>1
    <2>7. CASE j = 14
      <3>1. 1 \in k .. 5
        BY <1>3, <2>7
      <3> QED
        BY <1>1, <1>2, <2>7, <3>1
    <2> QED
      BY <2>1, <2>2, <2>3, <2>4, <2>5, <2>6, <2>7
  <1> QED
    BY <1>4, <1>5, <1>6 DEF MadeBefore

\* A construction that fails jumps to the label that fits.
LEMMA FailKeeps ==
  ASSUME LifecycleInv, NEW o \in ToSet(Subsystems), Fail(o)
  PROVE  LifecycleInv'
PROOF
  <1>1. PICK n \in 1 .. 15 : live = MadeBefore(n) /\ Cardinality(live) = n - 1
    BY DEF LifecycleInv, Fail
  <1>2. o = Subsystems[n]
    BY <1>1 DEF Fail, IsNext
  <1> DEFINE k == Label(o)
             calls == SubSeq(Unwind, k, Len(Unwind))
  <1>3. /\ k \in 1 .. 6 /\ (k = 6 <=> n = 1)
        /\ k < 6 => {Unwind[i] : i \in k .. 5} \subseteq live
        /\ live \subseteq {Unwind[i] : i \in k .. 5} \cup {"scene"} \cup OwnedByDisplay
    BY <1>1, <1>2, LabelFits
  <1>4. todo' = calls /\ live' = live /\ shouldExit' \in BOOLEAN
        /\ phase' = IF calls = << >> THEN "exited" ELSE "unwind"
    BY DEF Fail, Leave, LifecycleInv
  <1>5. CASE k = 6
    <2>1. calls = << >>
      BY <1>5 DEF Unwind
    <2>2. live' = {}
      BY <1>1, <1>3, <1>4, <1>5 DEF MadeBefore
    <2> QED
      BY <1>4, <2>1, <2>2 DEF LifecycleInv, Phases
  <1>6. CASE k < 6
    <2>a. k \in 1 .. 5
      BY <1>3, <1>6
    <2> HIDE DEF k
    <2>1. /\ calls \in Seq(Calls) /\ calls # << >> /\ IsInjective(calls)
          /\ calls[Len(calls)] = "display" /\ "clients" \notin ToSet(calls)
          /\ ToSet(calls) = {Unwind[i] : i \in k .. 5} /\ Ordered(calls)
      BY <2>a, LabelCalls
    <2> HIDE DEF calls
    <2>3. UsersGoFirst'
      BY <1>1, <1>4, MadeUses DEF UsersGoFirst
    <2>2. OnTheWayOut'
      BY <1>3, <1>4, <1>6, <2>1, <2>3 DEF OnTheWayOut
    <2> QED
      BY <1>4, <2>1, <2>2 DEF LifecycleInv, Phases
  <1> QED
    BY <1>3, <1>5, <1>6

\* server_finish(), from wherever the program comes to it.
LEMMA FinishKeeps ==
  ASSUME LifecycleInv, phase \in {"socket", "start", "loop"},
         Leave("finish", FinishCalls), UNCHANGED <<live, shouldExit>>
  PROVE  LifecycleInv'
PROOF
  <1>1. todo' = FinishCalls /\ phase' = "finish"
    BY FinishNames DEF Leave
  <1>2. /\ ToSet(Subsystems) \subseteq live' /\ live' \subseteq ToSet(Subsystems) \cup {"clients"}
        /\ live' = live
    BY DEF LifecycleInv
  <1>3. ToSet(todo') \subseteq live' \cup {"clients"}
    <2>1. Calls \subseteq ToSet(Subsystems) \cup {"clients"}
      BY SubsystemNames DEF Calls
    <2> QED
      BY <1>1, <1>2, <2>1, FinishNames
  <1>4. live' \subseteq ToSet(todo') \cup {"scene"} \cup OwnedByDisplay
    <2>1. "clients" \in Calls
      BY DEF Calls
    <2> QED
      BY <1>1, <1>2, <2>1, SubsystemNames, FinishNames
  <1>5. UsersGoFirst'
    <2>1. UsersGoFirst
      BY <1>2, AllUses
    <2> QED
      BY <1>2, <2>1 DEF UsersGoFirst
  <1>6. OnTheWayOut'
    BY <1>1, <1>2, <1>3, <1>4, <1>5, FinishNames, FinishOrdered DEF OnTheWayOut
  <1> QED
    BY <1>1, <1>2, <1>6, SubsystemNames DEF LifecycleInv, Phases

\* The socket and the backend: on success one phase further.
LEMMA RunKeeps ==
  ASSUME LifecycleInv, NEW ok \in BOOLEAN, AddSocket(ok) \/ StartBackend(ok)
  PROVE  LifecycleInv'
PROOF
  <1>1. phase \in {"socket", "start"} /\ UNCHANGED <<live, shouldExit>>
    BY DEF AddSocket, StartBackend
  <1>2. CASE ok
    <2>1. phase' \in {"start", "loop"} /\ todo' = todo
      BY <1>2 DEF AddSocket, StartBackend
    <2> QED
      BY <1>1, <2>1 DEF LifecycleInv, Phases
  <1>3. CASE ~ok
    <2>1. Leave("finish", FinishCalls)
      BY <1>3 DEF AddSocket, StartBackend
    <2> QED
      BY <1>1, <2>1, FinishKeeps
  <1> QED
    BY <1>2, <1>3

\* A destructor, in the order its label or server_finish() calls them: what
\* goes is what the head of the rest names, and, with the display, what it owns.
LEMMA DestroyKeeps ==
  ASSUME LifecycleInv, Destroy
  PROVE  LifecycleInv'
PROOF
  <1>1. phase \in {"unwind", "finish"} /\ OnTheWayOut
    BY DEF LifecycleInv, Destroy
  <1> DEFINE head == Head(todo)
             rest == Tail(todo)
  <1>2. /\ rest \in Seq(Calls) /\ IsInjective(rest)
        /\ ToSet(rest) = ToSet(todo) \ {head}
        /\ head \in ToSet(todo) /\ head \in Calls
        /\ rest # << >> => rest[Len(rest)] = "display" /\ head # "display"
        /\ rest = << >> => head = "display" /\ ToSet(todo) = {"display"}
        /\ Ordered(rest) /\ \A c \in ToSet(todo) : head \notin Uses(c)
    BY <1>1, TailCalls DEF OnTheWayOut
  <1>3. /\ todo' = rest /\ shouldExit' \in BOOLEAN
        /\ phase' = IF rest = << >> THEN "exited" ELSE phase
        /\ live' = live \ ({head} \cup IF head = "display" THEN OwnedByDisplay ELSE {})
    BY DEF Destroy, Leave, LifecycleInv
  <1>4. /\ ToSet(todo) \subseteq live \cup {"clients"}
        /\ live \subseteq ToSet(todo) \cup {"scene"} \cup OwnedByDisplay
        /\ "clients" \in ToSet(todo) => head = "clients"
        /\ UsersGoFirst
    BY <1>1 DEF OnTheWayOut
  <1> HIDE DEF head, rest
  <1>5. CASE rest = << >>
    <2>1. live' \subseteq {"scene"}
      BY <1>2, <1>3, <1>4, <1>5
    <2> QED
      BY <1>3, <1>5, <2>1 DEF LifecycleInv, Phases
  <1>6. CASE rest # << >>
    <2>1. live' = live \ {head} /\ phase' = phase
      BY <1>2, <1>3, <1>6
    <2>2. ToSet(rest) \subseteq live' \cup {"clients"}
      BY <1>2, <1>4, <2>1
    <2>3. live' \subseteq ToSet(rest) \cup {"scene"} \cup OwnedByDisplay
      BY <1>2, <1>4, <2>1
    <2>4. "clients" \notin ToSet(rest)
      BY <1>2, <1>4
    <2>7. ASSUME NEW o \in live' PROVE head \notin Uses(o)
      <3>1. o \in ToSet(todo) \/ o = "scene" \/ o \in OwnedByDisplay
        BY <1>4, <2>1
      <3>2. head \notin {"display", "scene", "layout"}
        BY <1>2, <1>6 DEF Calls
      <3> QED
        BY <1>2, <3>1, <3>2, UsesNames
    <2>8. UsersGoFirst'
      BY <1>4, <2>1, <2>7 DEF UsersGoFirst
    <2>5. OnTheWayOut'
      BY <1>2, <1>3, <1>6, <2>2, <2>3, <2>4, <2>8 DEF OnTheWayOut
    <2>6. phase' = "finish" => {"scene"} \cup OwnedByDisplay \subseteq live'
      BY <1>2, <1>6, <2>1, CallsDiffer DEF LifecycleInv
    <2> QED
      BY <1>1, <1>3, <2>1, <2>5, <2>6 DEF LifecycleInv, Phases
  <1> QED
    BY <1>5, <1>6

\* Every step of the process keeps the invariant.
LEMMA LifecycleNextInv ==
  ASSUME LifecycleInv, [LifecycleNext]_lifecycleVars
  PROVE  LifecycleInv'
PROOF
  <1>1. CASE UNCHANGED lifecycleVars
    BY <1>1 DEF lifecycleVars, LifecycleInv, OnTheWayOut, UsersGoFirst
  <1>2. CASE Advance
    BY <1>2, CreateKeeps, FailKeeps, RunKeeps, DestroyKeeps DEF Advance
  <1>3. CASE Connect
    <2>1. /\ phase = "loop" /\ UNCHANGED <<phase, todo, shouldExit>>
          /\ live' = live \cup {"clients"}
      BY <1>3 DEF Connect
    <2> QED
      BY <2>1 DEF LifecycleInv
  <1>4. CASE Quit
    BY <1>4, FinishKeeps DEF Quit
  <1>5. CASE Signal
    <2>1. shouldExit' \in BOOLEAN /\ UNCHANGED <<phase, live, todo>>
      BY <1>5 DEF Signal
    <2> QED
      BY <2>1 DEF LifecycleInv, OnTheWayOut, UsersGoFirst
  <1> QED
    BY <1>1, <1>2, <1>3, <1>4, <1>5 DEF LifecycleNext

\* The process starts with nothing made.
LEMMA LifecycleInitInv == LifecycleInit => LifecycleInv
PROOF
  <1> SUFFICES ASSUME LifecycleInit PROVE LifecycleInv
    OBVIOUS
  <1>1. phase = "init" /\ live = {} /\ todo = << >> /\ shouldExit = FALSE
    BY DEF LifecycleInit
  <1>2. live = MadeBefore(1)
    BY <1>1 DEF MadeBefore
  <1>3. IsFiniteSet(live) /\ Cardinality(live) = 1 - 1
    BY <1>1, FS_EmptySet
  <1>4. \E n \in 1 .. 15 : /\ live = MadeBefore(n) /\ IsFiniteSet(live)
                          /\ Cardinality(live) = n - 1
    <2>1. 1 \in 1 .. 15
      OBVIOUS
    <2> QED
      BY <1>2, <1>3, <2>1
  <1> QED
    BY <1>1, <1>4 DEF LifecycleInv, Phases

\* The invariant of the process, which Session needs too.
LEMMA LifecycleInductive == LifecycleSpec => []LifecycleInv
BY LifecycleInitInv, LifecycleNextInv, PTL DEF LifecycleSpec

-----------------------------------------------------------------------------
(* What it means *)

\* The invariant says what the properties of Lifecycle do.
LEMMA LifecycleInvMeans ==
  ASSUME LifecycleInv
  PROVE  LifecycleTypeOK /\ OnlyLiveIsDestroyed /\ OnlySceneLeaks /\ UsersGoFirst
PROOF
  <1>1. phase \in Phases /\ shouldExit \in BOOLEAN
    BY DEF LifecycleInv
  <1>2. CASE phase \in {"unwind", "finish"}
    <2>1. OnTheWayOut
      BY <1>2 DEF LifecycleInv
    <2>2. Calls \subseteq ToSet(Subsystems) \cup {"clients"}
      BY SubsystemNames DEF Calls
    <2>3. todo \in Seq(ToSet(Subsystems) \cup {"clients"})
      <3>1. todo \in Seq(Calls)
        BY <2>1 DEF OnTheWayOut
      <3> HIDE DEF Calls
      <3> QED
        BY <2>2, <3>1
    <2>4. live \subseteq ToSet(Subsystems) \cup {"clients"}
      <3>1. ToSet(todo) \subseteq Calls
        <4>1. todo \in Seq(Calls)
          BY <2>1 DEF OnTheWayOut
        <4> HIDE DEF Calls
        <4> QED
          BY <4>1 DEF ToSet
      <3> QED
        BY <2>1, <2>2, <3>1, SubsystemNames DEF OnTheWayOut
    <2>5. UsersGoFirst
      BY <2>1 DEF OnTheWayOut
    <2> QED
      BY <1>1, <1>2, <2>1, <2>3, <2>4, <2>5
         DEF OnTheWayOut, LifecycleTypeOK, OnlyLiveIsDestroyed, OnlySceneLeaks
  <1>3. CASE phase \in {"init", "socket", "start", "loop", "exited"}
    <2>1. todo = << >>
      BY <1>3 DEF LifecycleInv
    <2>2. todo \in Seq(ToSet(Subsystems) \cup {"clients"})
      BY <2>1
    <2>3. OnlyLiveIsDestroyed
      BY <2>1 DEF OnlyLiveIsDestroyed, IsInjective, ToSet
    <2>4. live \subseteq ToSet(Subsystems) \cup {"clients"}
      <3>1. \A n \in 1 .. 15 : MadeBefore(n) \subseteq ToSet(Subsystems)
        BY SubsystemNames DEF MadeBefore
      <3> QED
        BY <1>3, <3>1, SubsystemNames DEF LifecycleInv
    <2>6. UsersGoFirst
      <3>1. CASE phase = "init"
        BY <3>1, MadeUses DEF LifecycleInv
      <3>2. CASE phase \in {"socket", "start", "loop"}
        BY <2>4, <3>2, AllUses DEF LifecycleInv
      <3>3. CASE phase = "exited"
        BY <3>3, UsesNames DEF LifecycleInv, UsersGoFirst
      <3> QED
        BY <1>3, <3>1, <3>2, <3>3
    <2>7. phase \in {"socket", "start", "loop"} => ToSet(Subsystems) \subseteq live
      BY DEF LifecycleInv
    <2>8. OnlySceneLeaks
      BY DEF LifecycleInv, OnlySceneLeaks
    <2> QED
      BY <1>1, <1>3, <2>1, <2>2, <2>3, <2>4, <2>6, <2>7, <2>8 DEF LifecycleTypeOK
  <1> QED
    BY <1>1, <1>2, <1>3 DEF Phases

\* Type correctness: in particular, the event loop has every subsystem, and
\* destructor calls remain exactly on the way out.
THEOREM LifecycleTypeCorrect == LifecycleSpec => []LifecycleTypeOK
BY LifecycleInductive, LifecycleInvMeans, PTL

\* Whichever construction fails, the label it jumps to destroys only what has
\* been made, each of it once, and so does server_finish().
THEOREM LabelsFit == LifecycleSpec => []OnlyLiveIsDestroyed
BY LifecycleInductive, LifecycleInvMeans, PTL

\* A process that leaves, on whatever way, leaves nothing but the scene behind.
THEOREM NothingElseLeaks == LifecycleSpec => []OnlySceneLeaks
BY LifecycleInductive, LifecycleInvMeans, PTL

\* Whatever fails, and however the process ends, nothing is destroyed while
\* something that uses it is there: no label and no call is out of order.
THEOREM UsersLeaveFirst == LifecycleSpec => []UsersGoFirst
BY LifecycleInductive, LifecycleInvMeans, PTL
=============================================================================
