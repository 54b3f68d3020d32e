------------------------------- MODULE WlList -------------------------------
(***************************************************************************)
(* The two ordered structures of PulseDE: the intrusive wl_list (sequence  *)
(* order is traversal order) and the children of a wlr_scene_tree          *)
(* (sequence order is bottom to top).  Both belong to libraries outside    *)
(* the repository; they are modelled from how src/ calls them.  A node is  *)
(* linked at most once, so "the" position of an element is well defined.   *)
(***************************************************************************)
EXTENDS Integers, Sequences, SequencesExt

\* wl_list_insert(head, e): e becomes the first element.
Insert(s, e) == Cons(e, s)

\* wl_list_remove(e), and the unlinking of a destroyed scene node.
Without(s, e) ==
  IF e \in ToSet(s) THEN RemoveAt(s, CHOOSE i \in DOMAIN s : s[i] = e) ELSE s

\* wlr_scene_node_raise_to_top(e).
RaiseToTop(s, e) == Append(Without(s, e), e)

\* In a scene, a is drawn over b.
Above(s, a, b) == \E i, j \in DOMAIN s : s[i] = b /\ s[j] = a /\ i < j
=============================================================================
