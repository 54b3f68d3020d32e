---------------------------- MODULE WlListProofs ----------------------------
(* What the list and scene operations keep, for every sequence. *)
EXTENDS WlList, SequenceTheorems, TLAPS

\* Linking a node at the head: the list stays well formed and gains e.
LEMMA InsertProperties ==
  ASSUME NEW S, NEW s \in Seq(S), NEW e \in S
  PROVE  /\ Insert(s, e) \in Seq(S)
         /\ ToSet(Insert(s, e)) = ToSet(s) \cup {e}
         /\ IsInjective(s) /\ e \notin ToSet(s) => IsInjective(Insert(s, e))
PROOF
  <1> DEFINE r == Insert(s, e)
  <1>1. <<e>> \in Seq(S) /\ Len(<<e>>) = 1 /\ <<e>>[1] = e
    OBVIOUS
  <1>2. r = <<e>> \o s
    BY DEF Insert, Cons
  <1> HIDE DEF r
  <1>3. r \in Seq(S) /\ Len(r) = Len(s) + 1
    BY <1>1, <1>2, ConcatProperties
  <1>4. Len(s) \in Nat /\ DOMAIN s = 1 .. Len(s) /\ DOMAIN r = 1 .. Len(s) + 1
    BY <1>3, LenProperties
  <1>5. \A k \in 1 .. Len(s) + 1 : r[k] = IF k <= 1 THEN e ELSE s[k - 1]
    <2> TAKE k \in 1 .. Len(s) + 1
    <2>1. r[k] = IF k <= Len(<<e>>) THEN <<e>>[k] ELSE s[k - Len(<<e>>)]
      BY <1>1, <1>2, <1>4, ConcatProperties
    <2> QED
      BY <1>1, <1>4, <2>1
  <1>6. ToSet(r) = ToSet(s) \cup {e}
    <2>1. ASSUME NEW x \in ToSet(s) PROVE x \in ToSet(r)
      <3>1. PICK k \in 1 .. Len(s) : s[k] = x
        BY <1>4, <2>1 DEF ToSet
      <3>2. k + 1 \in DOMAIN r /\ r[k + 1] = x
        BY <1>4, <1>5, <3>1
      <3> QED
        BY <3>2 DEF ToSet
    <2>2. e \in ToSet(r)
      BY <1>4, <1>5 DEF ToSet
    <2>3. ASSUME NEW k \in DOMAIN r PROVE r[k] \in ToSet(s) \cup {e}
      <3>1. k = 1 \/ k - 1 \in 1 .. Len(s)
        BY <1>4
      <3> QED
        BY <1>4, <1>5, <3>1 DEF ToSet
    <2> QED
      BY <2>1, <2>2, <2>3 DEF ToSet
  <1>7. ASSUME IsInjective(s), e \notin ToSet(s) PROVE IsInjective(r)
    <2> SUFFICES ASSUME NEW a \in 1 .. Len(s) + 1, NEW b \in 1 .. Len(s) + 1, r[a] = r[b]
                 PROVE  a = b
      BY <1>4 DEF IsInjective
    <2>1. \A k \in 1 .. Len(s) : s[k] # e
      BY <1>4, <1>7 DEF ToSet
    <2>2. \A i, j \in 1 .. Len(s) : s[i] = s[j] => i = j
      BY <1>4, <1>7 DEF IsInjective
    <2>3. \A k \in 1 .. Len(s) + 1 : k = 1 \/ k - 1 \in 1 .. Len(s)
      BY <1>4
    <2> QED
      BY <1>4, <1>5, <2>1, <2>2, <2>3
  <1> QED
    BY <1>3, <1>6, <1>7 DEF r

\* Placing a node on top: nothing below it changes its order.
LEMMA OnTopProperties ==
  ASSUME NEW S, NEW s \in Seq(S), NEW e \in S
  PROVE  /\ Append(s, e) \in Seq(S)
         /\ ToSet(Append(s, e)) = ToSet(s) \cup {e}
         /\ IsInjective(s) /\ e \notin ToSet(s) => IsInjective(Append(s, e))
         /\ \A a, b : Above(Append(s, e), a, b) => a = e \/ Above(s, a, b)
         /\ \A a, b : Above(s, a, b) => Above(Append(s, e), a, b)
PROOF
  <1> DEFINE r == Append(s, e)
  <1>1. /\ r \in Seq(S) /\ Len(r) = Len(s) + 1
        /\ \A k \in 1 .. Len(s) : r[k] = s[k]
        /\ r[Len(s) + 1] = e
    BY AppendProperties
  <1> HIDE DEF r
  <1>2. Len(s) \in Nat /\ DOMAIN s = 1 .. Len(s) /\ DOMAIN r = 1 .. Len(s) + 1
    BY <1>1, LenProperties
  <1>3. \A k \in 1 .. Len(s) + 1 : k \in 1 .. Len(s) \/ k = Len(s) + 1
    BY <1>2
  <1>4. ToSet(r) = ToSet(s) \cup {e}
    <2>1. ASSUME NEW k \in DOMAIN r PROVE r[k] \in ToSet(s) \cup {e}
      BY <1>1, <1>2, <1>3 DEF ToSet
    <2>2. ASSUME NEW k \in DOMAIN s PROVE s[k] \in ToSet(r)
      BY <1>1, <1>2 DEF ToSet
    <2>3. e \in ToSet(r)
      BY <1>1, <1>2 DEF ToSet
    <2> QED
      BY <2>1, <2>2, <2>3 DEF ToSet
  <1>5. ASSUME IsInjective(s), e \notin ToSet(s) PROVE IsInjective(r)
    BY <1>1, <1>2, <1>3, <1>5 DEF IsInjective, ToSet
  <1>6. ASSUME NEW a, NEW b, Above(r, a, b), a # e PROVE Above(s, a, b)
    <2>1. PICK i \in DOMAIN r, j \in DOMAIN r : r[i] = b /\ r[j] = a /\ i < j
      BY <1>6 DEF Above
    <2>2. j \in 1 .. Len(s) /\ i \in 1 .. Len(s)
      BY <1>1, <1>2, <1>3, <1>6, <2>1
    <2> QED
      BY <1>1, <1>2, <2>1, <2>2 DEF Above
  <1>7. ASSUME NEW a, NEW b, Above(s, a, b) PROVE Above(r, a, b)
    BY <1>1, <1>2, <1>7 DEF Above
  <1> QED
    BY <1>1, <1>4, <1>5, <1>6, <1>7 DEF r

\* What removing the node at position i leaves.
LEMMA RemoveAtProperties ==
  ASSUME NEW S, NEW s \in Seq(S), NEW i \in DOMAIN s
  PROVE  /\ RemoveAt(s, i) \in Seq(S)
         /\ Len(RemoveAt(s, i)) = Len(s) - 1
         /\ \A k \in 1 .. Len(s) - 1 : RemoveAt(s, i)[k] = IF k < i THEN s[k] ELSE s[k + 1]
PROOF
  <1> DEFINE a == SubSeq(s, 1, i - 1)
             b == SubSeq(s, i + 1, Len(s))
             r == RemoveAt(s, i)
  <1>0. Len(s) \in Nat /\ i \in 1 .. Len(s)
    BY LenProperties
  <1>1. a \in Seq(S) /\ Len(a) = i - 1 /\ \A k \in 1 .. i - 1 : a[k] = s[k]
    BY <1>0, SubSeqProperties
  <1>2. b \in Seq(S) /\ Len(b) = Len(s) - i /\ \A k \in 1 .. Len(s) - i : b[k] = s[k + i]
    BY <1>0, SubSeqProperties
  <1>3. r = a \o b
    BY DEF RemoveAt
  <1> HIDE DEF a, b, r
  <1>4. r \in Seq(S) /\ Len(r) = Len(s) - 1
    BY <1>0, <1>1, <1>2, <1>3, ConcatProperties
  <1>5. \A k \in 1 .. Len(s) - 1 : r[k] = IF k < i THEN s[k] ELSE s[k + 1]
    <2> TAKE k \in 1 .. Len(s) - 1
    <2>1. r[k] = IF k <= Len(a) THEN a[k] ELSE b[k - Len(a)]
      BY <1>0, <1>1, <1>2, <1>3, ConcatProperties
    <2>2. CASE k < i
      BY <1>0, <1>1, <2>1, <2>2
    <2>3. CASE ~(k < i)
      BY <1>0, <1>1, <1>2, <2>1, <2>3
    <2> QED
      BY <2>2, <2>3
  <1> QED
    BY <1>4, <1>5 DEF r

\* Unlinking a node that is linked at most once removes it and keeps the
\* order of the others.
LEMMA WithoutProperties ==
  ASSUME NEW S, NEW s \in Seq(S), NEW e, IsInjective(s)
  PROVE  /\ Without(s, e) \in Seq(S)
         /\ ToSet(Without(s, e)) = ToSet(s) \ {e}
         /\ IsInjective(Without(s, e))
         /\ \A a, b : Above(Without(s, e), a, b) => Above(s, a, b)
         /\ \A a, b : Above(s, a, b) /\ e \notin {a, b} => Above(Without(s, e), a, b)
PROOF
  <1>1. CASE e \notin ToSet(s)
    BY <1>1 DEF Without
  <1>2. CASE e \in ToSet(s)
    <2> DEFINE p == CHOOSE i \in DOMAIN s : s[i] = e
               r == Without(s, e)
               At(k) == IF k < p THEN k ELSE k + 1
               From(k) == IF k < p THEN k ELSE k - 1
    <2>1. p \in DOMAIN s /\ s[p] = e
      BY <1>2 DEF ToSet
    <2>2. r = RemoveAt(s, p)
      BY <1>2 DEF Without
    <2>3. Len(s) \in Nat /\ DOMAIN s = 1 .. Len(s)
      BY LenProperties
    <2> HIDE DEF p, r
    <2>4. /\ r \in Seq(S) /\ Len(r) = Len(s) - 1
          /\ \A k \in 1 .. Len(s) - 1 : r[k] = s[At(k)]
      BY <2>1, <2>2, <2>3, RemoveAtProperties
    <2>5. DOMAIN r = 1 .. Len(s) - 1
      BY <2>4, LenProperties
    <2>6. \A k \in DOMAIN r : At(k) \in DOMAIN s /\ At(k) # p /\ r[k] = s[At(k)]
      BY <2>1, <2>3, <2>4, <2>5
    <2>7. \A k \in DOMAIN s : k # p => From(k) \in DOMAIN r /\ r[From(k)] = s[k]
      <3> SUFFICES ASSUME NEW k \in DOMAIN s, k # p
                   PROVE  From(k) \in DOMAIN r /\ r[From(k)] = s[k]
        OBVIOUS
      <3>1. From(k) \in DOMAIN r /\ At(From(k)) = k
        BY <2>1, <2>3, <2>5
      <3> QED
        BY <2>6, <3>1
    <2>8. \A i, j \in DOMAIN s : s[i] = s[j] => i = j
      BY DEF IsInjective
    <2>9. ToSet(r) = ToSet(s) \ {e}
      <3>1. ASSUME NEW k \in DOMAIN r PROVE r[k] \in ToSet(s) \ {e}
        BY <2>1, <2>6, <2>8 DEF ToSet
      <3>2. ASSUME NEW k \in DOMAIN s, s[k] # e PROVE s[k] \in ToSet(r)
        <4>1. From(k) \in DOMAIN r /\ r[From(k)] = s[k]
          BY <2>1, <2>7, <3>2
        <4> HIDE DEF From
        <4> QED
          BY <4>1 DEF ToSet
      <3> QED
        BY <3>1, <3>2 DEF ToSet
    <2>10. IsInjective(r)
      <3> SUFFICES ASSUME NEW i \in DOMAIN r, NEW j \in DOMAIN r, r[i] = r[j]
                   PROVE  i = j
        BY DEF IsInjective
      <3>1. At(i) = At(j)
        BY <2>6, <2>8
      <3> QED
        BY <2>1, <2>3, <2>5, <3>1
    <2>11. ASSUME NEW a, NEW b, Above(r, a, b) PROVE Above(s, a, b)
      <3>1. PICK i \in DOMAIN r, j \in DOMAIN r : r[i] = b /\ r[j] = a /\ i < j
        BY <2>11 DEF Above
      <3>2. At(i) \in DOMAIN s /\ At(j) \in DOMAIN s /\ s[At(i)] = b /\ s[At(j)] = a
        BY <2>6, <3>1
      <3>3. At(i) < At(j)
        BY <2>1, <2>3, <2>5, <3>1
      <3> HIDE DEF At
      <3> QED
        BY <3>2, <3>3 DEF Above
    <2>12. ASSUME NEW a, NEW b, Above(s, a, b), e \notin {a, b} PROVE Above(r, a, b)
      <3>1. PICK i \in DOMAIN s, j \in DOMAIN s : s[i] = b /\ s[j] = a /\ i < j
        BY <2>12 DEF Above
      <3>2. i # p /\ j # p
        BY <2>1, <2>12, <3>1
      <3>3. From(i) \in DOMAIN r /\ From(j) \in DOMAIN r /\ r[From(i)] = b /\ r[From(j)] = a
        BY <2>7, <3>1, <3>2
      <3>4. From(i) < From(j)
        BY <2>1, <2>3, <3>1, <3>2
      <3> HIDE DEF From
      <3> QED
        BY <3>3, <3>4 DEF Above
    <2> QED
      BY <2>4, <2>9, <2>10, <2>11, <2>12 DEF r
  <1> QED
    BY <1>1, <1>2

\* Raising a node puts it over every other one and reorders nothing else.
LEMMA RaiseToTopProperties ==
  ASSUME NEW S, NEW s \in Seq(S), NEW e \in S, IsInjective(s)
  PROVE  /\ RaiseToTop(s, e) \in Seq(S)
         /\ ToSet(RaiseToTop(s, e)) = ToSet(s) \cup {e}
         /\ IsInjective(RaiseToTop(s, e))
         /\ \A a, b : Above(RaiseToTop(s, e), a, b) => a = e \/ Above(s, a, b)
         /\ \A a, b : Above(s, a, b) /\ e \notin {a, b} => Above(RaiseToTop(s, e), a, b)
         /\ \A a : ~Above(RaiseToTop(s, e), a, e)
PROOF
  <1> DEFINE w == Without(s, e)
             r == RaiseToTop(s, e)
  <1>1. /\ w \in Seq(S) /\ ToSet(w) = ToSet(s) \ {e} /\ IsInjective(w)
        /\ \A a, b : Above(w, a, b) => Above(s, a, b)
        /\ \A a, b : Above(s, a, b) /\ e \notin {a, b} => Above(w, a, b)
    BY WithoutProperties
  <1>2. r = Append(w, e)
    BY DEF RaiseToTop
  <1> HIDE DEF w, r
  <1>3. /\ r \in Seq(S) /\ ToSet(r) = ToSet(w) \cup {e} /\ IsInjective(r)
        /\ \A a, b : Above(r, a, b) => a = e \/ Above(w, a, b)
        /\ \A a, b : Above(w, a, b) => Above(r, a, b)
    BY <1>1, <1>2, OnTopProperties
  <1>4. ASSUME NEW a, Above(r, a, e) PROVE FALSE
    <2>1. PICK i \in DOMAIN r, j \in DOMAIN r : r[i] = e /\ r[j] = a /\ i < j
      BY <1>4 DEF Above
    <2>2. Len(r) = Len(w) + 1 /\ r[Len(w) + 1] = e /\ Len(w) \in Nat /\ DOMAIN r = 1 .. Len(r)
      BY <1>1, <1>2, <1>3, AppendProperties, LenProperties
    <2>3. i = Len(w) + 1
      BY <1>3, <2>1, <2>2 DEF IsInjective
    <2> QED
      BY <2>1, <2>2, <2>3
  <1> QED
    BY <1>1, <1>3, <1>4 DEF r
=============================================================================
