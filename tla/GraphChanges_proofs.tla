-------------------------- MODULE GraphChanges_proofs --------------------------
(***************************************************************************)
(* Proofs about GraphChanges and the patches of GraphPatches: the shape of *)
(* the state, that pages which get their patches show the snapshot, and    *)
(* that changes the detector asks for are not missed.                      *)
(***************************************************************************)
EXTENDS GraphChanges, FiniteSetTheorems, SequenceTheorems, TLAPS

-----------------------------------------------------------------------------
(* What is cut from a section.                                              *)

\* A finite set has a part of every size up to its own.
LEMMA PartOfSize ==
    ASSUME NEW S, IsFiniteSet(S), NEW k \in Nat, k <= Cardinality(S)
    PROVE  \E T \in SUBSET S : T \in kSubset(k, S)
<1>1. Cardinality(S) \in Nat /\ ExistsBijection(1..Cardinality(S), S)
  BY FS_CardinalityType
<1>2. PICK f : f \in Bijection(1..Cardinality(S), S)
  BY <1>1 DEF ExistsBijection
<1> DEFINE g == [n \in 1..k |-> f[n]]
           T == {g[n] : n \in 1..k}
<1>3. 1..k \subseteq 1..Cardinality(S)
  BY <1>1
<1>4. f \in [1..Cardinality(S) -> S] /\ IsInjective(f)
  BY <1>2 DEF Bijection, Injection
<1>5. \A m, n \in 1..k : g[m] = g[n] => m = n
  BY <1>3, <1>4 DEF IsInjective
<1>6. g \in [1..k -> T]
  OBVIOUS
<1>7. g \in Injection(1..k, T)
  BY <1>5, <1>6 DEF Injection, IsInjective
<1>8. g \in Surjection(1..k, T)
  BY <1>6 DEF Surjection
<1>9. Cardinality(T) = k
  <2>1. ExistsBijection(1..k, T)
    BY <1>7, <1>8 DEF Bijection, ExistsBijection
  <2> HIDE DEF T
  <2> QED  BY <2>1, FS_CountingElements
<1>10. T \subseteq S
  BY <1>3, <1>4
<1> QED  BY <1>9, <1>10 DEF kSubset

\* trimSection keeps no more changes than fit, and only such as were there.
LEMMA SomeFit ==
    ASSUME NEW S, IsFiniteSet(S), NEW k \in Nat
    PROVE  /\ Some(S, k) \subseteq S
           /\ Cardinality(Some(S, k)) \in 0..k
<1>1. Cardinality(S) \in Nat
  BY FS_CardinalityType
<1>2. CASE Cardinality(S) <= k
  BY <1>1, <1>2 DEF Some
<1>3. CASE ~(Cardinality(S) <= k)
  <2>1. \E T : T \in kSubset(k, S)
    BY <1>1, <1>3, PartOfSize
  <2>2. Some(S, k) \in kSubset(k, S)
    BY <1>3, <2>1 DEF Some
  <2> QED  BY <2>2 DEF kSubset
<1> QED  BY <1>2, <1>3

\* A trimmed section holds changes of that section.
LEMMA TrimKeeps ==
    ASSUME NEW p, NEW section, IsFiniteSet(section), NEW limit \in Nat
    PROVE  /\ Trim(p, section, limit).added \subseteq {i \in section : p.added[i] # 0}
           /\ Trim(p, section, limit).updated \subseteq {i \in section : p.updated[i] # 0}
           /\ Trim(p, section, limit).removed \subseteq section \cap p.removed
           /\ Changes(Trim(p, section, limit)) \in Nat
<1> DEFINE A == {i \in section : p.added[i] # 0}
           U == {i \in section : p.updated[i] # 0}
           R == section \cap p.removed
           added == Some(A, limit)
           updated == Some(U, limit - Cardinality(added))
           room == limit - Cardinality(added) - Cardinality(updated)
           removed == Some(R, room)
<1>1. IsFiniteSet(A) /\ IsFiniteSet(U) /\ IsFiniteSet(R)
  BY FS_Subset
<1>2. Trim(p, section, limit) = [added |-> added, updated |-> updated, removed |-> removed]
  BY DEF Trim
<1> HIDE DEF A, U, R
<1>3. added \subseteq A /\ Cardinality(added) \in 0..limit
  BY <1>1, SomeFit
<1> HIDE DEF added
<1>4. limit - Cardinality(added) \in Nat
  BY <1>3
<1>5. updated \subseteq U /\ Cardinality(updated) \in 0..(limit - Cardinality(added))
  BY <1>1, <1>4, SomeFit
<1> HIDE DEF updated
<1>6. room \in Nat
  BY <1>3, <1>5
<1> HIDE DEF room
<1>7. removed \subseteq R /\ Cardinality(removed) \in 0..room
  BY <1>1, <1>6, SomeFit
<1> HIDE DEF removed
<1>8. Changes(Trim(p, section, limit)) \in Nat
  BY <1>2, <1>3, <1>5, <1>6, <1>7 DEF Changes
<1> QED  BY <1>2, <1>3, <1>5, <1>7, <1>8 DEF A, U, R

\* The larger of zero and a number.
LEMMA MaxWithZero == \A x \in Int : Max({0, x}) \in Nat /\ Max({0, x}) \in {0, x}
<1> SUFFICES ASSUME NEW x \in Int PROVE Max({0, x}) \in Nat /\ Max({0, x}) \in {0, x}
  OBVIOUS
<1>1. \E y \in {0, x} : \A z \in {0, x} : y >= z
  OBVIOUS
<1>2. Max({0, x}) \in {0, x} /\ \A z \in {0, x} : Max({0, x}) >= z
  BY <1>1 DEF Max
<1> QED  BY <1>2

\* The smaller of two numbers is a number.
LEMMA MinOfTwo == \A x, y \in Nat : Min({x, y}) \in Nat
<1> SUFFICES ASSUME NEW x \in Nat, NEW y \in Nat PROVE Min({x, y}) \in Nat
  OBVIOUS
<1>1. \E u \in {x, y} : \A z \in {x, y} : u =< z
  OBVIOUS
<1> QED  BY <1>1 DEF Min

\* applyPatchCaps takes changes away and makes none up; what it does not mark as
\* cut is the whole patch.
LEMMA CapCuts ==
    ASSUME NEW p \in Patches
    PROVE  /\ Cap(p) \in Patches
           /\ Cap(p).removed \subseteq p.removed
           /\ \A i \in Items : Cap(p).added[i] \in {0, p.added[i]}
           /\ \A i \in Items : Cap(p).updated[i] \in {0, p.updated[i]}
           /\ ~Cap(p).truncated => Cap(p) = [p EXCEPT !.truncated = FALSE]
<1> DEFINE nodes == Trim(p, Nodes, MaxNodes)
           room == Max({0, MaxTotal - Changes(nodes)})
           edges == Trim(p, Edges, Min({MaxEdges, room}))
           Kept(f, S) == [i \in Items |-> IF i \in S THEN f[i] ELSE 0]
           cut == [added |-> Kept(p.added, nodes.added \cup edges.added),
                   updated |-> Kept(p.updated, nodes.updated \cup edges.updated),
                   removed |-> nodes.removed \cup edges.removed,
                   truncated |-> FALSE]
<1>1. Cap(p) = [cut EXCEPT !.truncated = cut # [p EXCEPT !.truncated = FALSE]]
  BY DEF Cap
<1>2. /\ nodes.removed \subseteq p.removed
      /\ Changes(nodes) \in Nat
  BY FiniteAssumption, CapsAssumption, TrimKeeps
<1>3. edges.removed \subseteq p.removed
  <2>1. room \in Nat
    BY <1>2, CapsAssumption, MaxWithZero
  <2>2. Min({MaxEdges, room}) \in Nat
    BY <2>1, CapsAssumption, MinOfTwo
  <2> QED  BY <2>2, FiniteAssumption, TrimKeeps
<1> DEFINE A == nodes.added \cup edges.added
           U == nodes.updated \cup edges.updated
           R == nodes.removed \cup edges.removed
<1>4. R \subseteq p.removed
  BY <1>2, <1>3
<1>5. cut = [added |-> Kept(p.added, A), updated |-> Kept(p.updated, U), removed |-> R,
             truncated |-> FALSE]
  OBVIOUS
<1> HIDE DEF nodes, room, edges, A, U, R, cut
<1>6. p.added \in Graphs /\ p.updated \in Graphs /\ p.removed \subseteq Items /\ 0 \in Versions
  BY BoundAssumption DEF Patches, Versions
<1>7. Kept(p.added, A) \in Graphs /\ Kept(p.updated, U) \in Graphs
  BY <1>6 DEF Graphs
<1>8. cut \in Patches
  BY <1>4, <1>5, <1>6, <1>7 DEF Patches
<1>9. Cap(p) \in Patches
  BY <1>1, <1>8 DEF Patches
<1>10. Cap(p).added = Kept(p.added, A) /\ Cap(p).updated = Kept(p.updated, U) /\ Cap(p).removed = R
  BY <1>1, <1>5
<1>11. ~Cap(p).truncated => Cap(p) = [p EXCEPT !.truncated = FALSE]
  <2>1. Cap(p).truncated = (cut # [p EXCEPT !.truncated = FALSE])
    BY <1>1, <1>5
  <2>2. SUFFICES ASSUME cut = [p EXCEPT !.truncated = FALSE]
                 PROVE  Cap(p) = [p EXCEPT !.truncated = FALSE]
    BY <2>1
  <2>3. Cap(p) = [cut EXCEPT !.truncated = FALSE]
    BY <1>1, <2>2
  <2>4. [cut EXCEPT !.truncated = FALSE] = cut
    <3>1. cut.truncated = FALSE
      BY <1>5
    <3> QED  BY <1>8, <3>1 DEF Patches
  <2> QED  BY <2>2, <2>3, <2>4
<1> QED  BY <1>4, <1>9, <1>10, <1>11

-----------------------------------------------------------------------------
(* What a page makes of a patch, item by item.                              *)

\* The items a page takes away first: what is removed, and the edges of nodes.
Gone(p) == p.removed \cup Attached(p.removed \cap Nodes)

\* What an item is after a patch, from what it was.
After(was, p, i) ==
    LET left == IF i \in Gone(p) THEN 0 ELSE was
        more == IF left = 0 THEN p.added[i] ELSE left
    IN  IF more # 0 /\ p.updated[i] # 0 THEN p.updated[i] ELSE more

\* A patch is applied item by item.
LEMMA AppliedItem ==
    ASSUME NEW view, NEW p, NEW i \in Items
    PROVE  Apply(view, p)[i] = After(view[i], p, i)
  BY DEF Apply, After, Gone

\* A page that applies a patch shows a graph.
LEMMA AppliedGraph ==
    ASSUME NEW view \in Graphs, NEW p \in Patches
    PROVE  Apply(view, p) \in Graphs
<1> DEFINE left == [i \in Items |-> IF i \in p.removed \cup Attached(p.removed \cap Nodes)
                                    THEN 0 ELSE view[i]]
           more == [i \in Items |-> IF left[i] = 0 THEN p.added[i] ELSE left[i]]
<1>1. p.added \in Graphs /\ p.updated \in Graphs /\ 0 \in Versions
  BY BoundAssumption DEF Patches, Versions
<1>2. left \in Graphs
  BY <1>1 DEF Graphs
<1> HIDE DEF left
<1>3. more \in Graphs
  BY <1>1, <1>2 DEF Graphs
<1>4. Apply(view, p) = [i \in Items |-> IF more[i] # 0 /\ p.updated[i] # 0
                                        THEN p.updated[i] ELSE more[i]]
  BY DEF Apply, left
<1> HIDE DEF more
<1> QED  BY <1>1, <1>3, <1>4 DEF Graphs

\* Nothing is a patch, and a graph.
LEMMA EmptyIsPatch == NoPatch \in Patches /\ Empty \in Graphs
  BY BoundAssumption DEF NoPatch, Empty, Patches, Graphs, Versions

\* A patch does nothing to what it does not touch.
LEMMA UntouchedStays ==
    ASSUME NEW p \in Patches, NEW i \in Items \ Touched(p), NEW was \in Nat
    PROVE  /\ After(was, p, i) = was
           /\ p.added[i] = 0 /\ p.updated[i] = 0 /\ i \notin Gone(p)
<1>1. p.added[i] = 0 /\ p.updated[i] = 0 /\ i \notin Gone(p)
  BY DEF Touched, Gone
<1> QED  BY <1>1 DEF After

\* The empty patch bears on nothing.
LEMMA NoPatchTouchesNothing == Touched(NoPatch) = {}
  BY EndsAssumption DEF Touched, NoPatch, Attached, Empty

\* Joining patches keeps every item either of them bears on.
LEMMA JoinedPatch ==
    ASSUME NEW p \in Patches, NEW c \in Patches
    PROVE  /\ Join(p, c) \in Patches
           /\ Gone(Join(p, c)) = Gone(p) \cup Gone(c)
           /\ \A i \in Items :
                 /\ Join(p, c).added[i] = IF c.added[i] # 0 THEN c.added[i] ELSE p.added[i]
                 /\ Join(p, c).updated[i] = IF c.updated[i] # 0 THEN c.updated[i] ELSE p.updated[i]
           /\ Touched(Join(p, c)) \subseteq Touched(p) \cup Touched(c)
           /\ Jumbled(p) \subseteq Jumbled(Join(p, c))
<1>1. /\ p.added \in Graphs /\ p.updated \in Graphs /\ p.removed \subseteq Items
      /\ c.added \in Graphs /\ c.updated \in Graphs /\ c.removed \subseteq Items
  BY DEF Patches
<1>2. LastOf(p.added, c.added) \in Graphs /\ LastOf(p.updated, c.updated) \in Graphs
  BY <1>1 DEF LastOf, Graphs
<1>3. p.removed \cup c.removed \subseteq Items
  BY <1>1
<1>4. /\ Join(p, c) \in Patches
      /\ Join(p, c).added = LastOf(p.added, c.added)
      /\ Join(p, c).updated = LastOf(p.updated, c.updated)
      /\ Join(p, c).removed = p.removed \cup c.removed
  <2> DEFINE f == LastOf(p.added, c.added)
             g == LastOf(p.updated, c.updated)
             h == p.removed \cup c.removed
  <2>1. Join(p, c) = [NoPatch EXCEPT !.added = f, !.updated = g, !.removed = h]
    BY DEF Join
  <2>2. f \in Graphs /\ g \in Graphs /\ h \in SUBSET Items
    BY <1>2, <1>3
  <2> HIDE DEF f, g, h
  <2>3. Join(p, c) \in Patches /\ Join(p, c).added = f /\ Join(p, c).updated = g /\ Join(p, c).removed = h
    BY <2>1, <2>2, EmptyIsPatch DEF Patches
  <2> QED  BY <2>3 DEF f, g, h
<1>5. Gone(Join(p, c)) = Gone(p) \cup Gone(c)
  BY <1>4 DEF Gone, Attached
<1>6. \A i \in Items :
         /\ Join(p, c).added[i] = IF c.added[i] # 0 THEN c.added[i] ELSE p.added[i]
         /\ Join(p, c).updated[i] = IF c.updated[i] # 0 THEN c.updated[i] ELSE p.updated[i]
  BY <1>4 DEF LastOf
<1>7. Touched(Join(p, c)) \subseteq Touched(p) \cup Touched(c)
  <2>1. \A i \in Touched(Join(p, c)) : i \in Touched(p) \cup Touched(c)
    BY <1>5, <1>6 DEF Touched, Gone
  <2> QED  BY <2>1
<1>8. Jumbled(p) \subseteq Jumbled(Join(p, c))
  <2>1. \A i \in Jumbled(p) : i \in Items /\ p.added[i] # 0 /\ i \in Gone(p)
    BY <1>1 DEF Jumbled, Gone, Items, Attached
  <2>2. \A i \in Jumbled(p) : i \in Gone(Join(p, c)) /\ Join(p, c).added[i] # 0
    BY <1>5, <1>6, <2>1
  <2> QED  BY <2>2 DEF Jumbled, Gone
<1> QED  BY <1>4, <1>5, <1>6, <1>7, <1>8

\* A patch brings an item from one version to another.
Carries(c, i, old, new) ==
    \/ i \notin Touched(c) /\ new = old
    \/ i \in Gone(c) /\ new = 0 /\ c.added[i] = 0
    \/ i \notin Gone(c) /\ old = 0 /\ c.added[i] = new /\ new # 0 /\ c.updated[i] = 0
    \/ i \notin Gone(c) /\ old # 0 /\ c.added[i] = 0 /\ c.updated[i] = new /\ new # 0

\* An update that waits is of an item the page has or will be given with it.
Backed(was, p, i) == p.updated[i] # 0 /\ i \notin Gone(p) => was # 0 \/ p.added[i] # 0

\* Joining a patch to those that wait does to an item what applying it after them
\* does, unless the item is removed and added.
LEMMA JoinCarries ==
    ASSUME NEW p \in Patches, NEW c \in Patches, NEW i \in Items \ Jumbled(Join(p, c)),
           NEW was \in Nat, NEW new \in Nat,
           Backed(was, p, i),
           Carries(c, i, After(was, p, i), new)
    PROVE  After(was, Join(p, c), i) = new /\ Backed(was, Join(p, c), i)
<1> DEFINE j == Join(p, c)
<1>1. /\ i \in Gone(j) <=> i \in Gone(p) \/ i \in Gone(c)
      /\ j.added[i] = IF c.added[i] # 0 THEN c.added[i] ELSE p.added[i]
      /\ j.updated[i] = IF c.updated[i] # 0 THEN c.updated[i] ELSE p.updated[i]
  BY JoinedPatch
<1>2. i \in Gone(j) => j.added[i] = 0
  BY DEF Jumbled, Gone
<1>3. /\ p.added[i] \in Nat /\ p.updated[i] \in Nat
      /\ c.added[i] \in Nat /\ c.updated[i] \in Nat
  BY BoundAssumption DEF Patches, Graphs, Versions
<1> HIDE DEF j
<1>4. SUFFICES After(was, j, i) = new /\ Backed(was, j, i)
  BY DEF j
<1>5. CASE i \notin Touched(c) /\ new = After(was, p, i)
  <2>1. c.added[i] = 0 /\ c.updated[i] = 0 /\ i \notin Gone(c)
    BY <1>5, UntouchedStays
  <2> QED  BY <1>1, <1>5, <2>1 DEF After, Backed
<1>6. CASE i \in Gone(c) /\ new = 0 /\ c.added[i] = 0
  BY <1>1, <1>2, <1>6 DEF After, Backed
<1>7. CASE /\ i \notin Gone(c) /\ After(was, p, i) = 0 /\ c.added[i] = new /\ new # 0
           /\ c.updated[i] = 0
  BY <1>1, <1>2, <1>7 DEF After, Backed
<1>8. CASE /\ i \notin Gone(c) /\ After(was, p, i) # 0 /\ c.added[i] = 0
           /\ c.updated[i] = new /\ new # 0
  BY <1>1, <1>2, <1>8 DEF After, Backed
<1> QED  BY <1>5, <1>6, <1>7, <1>8 DEF Carries

\* No edge without its two nodes.
Whole(g) == \A e \in Edges : g[e] # 0 => g[Source[e]] # 0 /\ g[Target[e]] # 0

\* What is left of a patch bears on nothing else.
LEMMA CutTouches ==
    ASSUME NEW p \in Patches
    PROVE  Touched(Cap(p)) \subseteq Touched(p) /\ Gone(Cap(p)) \subseteq Gone(p)
<1>1. /\ Cap(p).removed \subseteq p.removed
      /\ \A i \in Items : Cap(p).added[i] \in {0, p.added[i]} /\ Cap(p).updated[i] \in {0, p.updated[i]}
  BY CapCuts
<1>2. Gone(Cap(p)) \subseteq Gone(p)
  BY <1>1 DEF Gone, Attached
<1>3. \A i \in Touched(Cap(p)) : i \in Touched(p)
  BY <1>1, <1>2 DEF Touched, Gone
<1> QED  BY <1>2, <1>3

\* A full poll's patch is a patch.
LEMMA DiffShape ==
    ASSUME NEW old \in Graphs, NEW new \in Graphs
    PROVE  /\ Diff(old, new) \in Patches
           /\ Diff(old, new).added = [i \in Items |-> IF old[i] = 0 THEN new[i] ELSE 0]
           /\ Diff(old, new).updated = [i \in Items |-> IF old[i] \notin {0, new[i]} THEN new[i] ELSE 0]
           /\ Diff(old, new).removed = {i \in Items : old[i] # 0 /\ new[i] = 0}
<1> DEFINE d == Diff(old, new)
<1>1. old \in [Items -> Versions] /\ new \in [Items -> Versions] /\ 0 \in Versions /\ Versions \subseteq Nat
  BY BoundAssumption DEF Graphs, Versions
<1>2. /\ [i \in Items |-> IF old[i] = 0 THEN new[i] ELSE 0] \in Graphs
      /\ [i \in Items |-> IF old[i] \notin {0, new[i]} THEN new[i] ELSE 0] \in Graphs
      /\ {i \in Items : old[i] # 0 /\ new[i] = 0} \subseteq Items
  BY <1>1 DEF Graphs
<1>3. /\ d \in Patches
      /\ d.added = [i \in Items |-> IF old[i] = 0 THEN new[i] ELSE 0]
      /\ d.updated = [i \in Items |-> IF old[i] \notin {0, new[i]} THEN new[i] ELSE 0]
      /\ d.removed = {i \in Items : old[i] # 0 /\ new[i] = 0}
  <2> DEFINE f == [i \in Items |-> IF old[i] = 0 THEN new[i] ELSE 0]
             g == [i \in Items |-> IF old[i] \notin {0, new[i]} THEN new[i] ELSE 0]
             h == {i \in Items : old[i] # 0 /\ new[i] = 0}
  <2>1. d = [NoPatch EXCEPT !.added = f, !.updated = g, !.removed = h]
    BY DEF Diff
  <2>2. f \in Graphs /\ g \in Graphs /\ h \in SUBSET Items
    BY <1>2
  <2> HIDE DEF d, f, g, h
  <2>3. d \in Patches /\ d.added = f /\ d.updated = g /\ d.removed = h
    BY <2>1, <2>2, EmptyIsPatch DEF Patches
  <2> QED  BY <2>3 DEF f, g, h
<1> QED  BY <1>3

\* A full poll's patch brings what it found at its start to its answer, in all
\* items but those that were cut.
LEMMA DiffCarries ==
    ASSUME NEW old \in Graphs, NEW new \in Graphs, Whole(new)
    PROVE  LET c == Cap(Diff(old, new)) IN
           \A i \in Items \ (Touched(Diff(old, new)) \ Touched(c)) : Carries(c, i, old[i], new[i])
<1> DEFINE d == Diff(old, new)
           c == Cap(d)
<1>1. old \in [Items -> Versions] /\ new \in [Items -> Versions] /\ Versions \subseteq Nat
  BY BoundAssumption DEF Graphs, Versions
<1>3. /\ d \in Patches
      /\ d.added = [i \in Items |-> IF old[i] = 0 THEN new[i] ELSE 0]
      /\ d.updated = [i \in Items |-> IF old[i] \notin {0, new[i]} THEN new[i] ELSE 0]
      /\ d.removed = {i \in Items : old[i] # 0 /\ new[i] = 0}
  BY DiffShape
<1>4. \A i \in Items :
         /\ d.added[i] = IF old[i] = 0 THEN new[i] ELSE 0
         /\ d.updated[i] = IF old[i] \notin {0, new[i]} THEN new[i] ELSE 0
         /\ i \in d.removed <=> old[i] # 0 /\ new[i] = 0
  BY <1>3
<1> HIDE DEF d
<1>5. /\ c.removed \subseteq d.removed
      /\ \A i \in Items : c.added[i] \in {0, d.added[i]} /\ c.updated[i] \in {0, d.updated[i]}
      /\ c \in Patches /\ Gone(c) \subseteq Gone(d)
  BY <1>3, CapCuts, CutTouches
<1>6. \A i \in Gone(d) : i \in Items => new[i] = 0
  <2>1. \A n \in d.removed : n \in Items /\ new[n] = 0
    BY <1>3, <1>4 DEF Patches
  <2> QED  BY <2>1 DEF Gone, Attached, Whole
<1> HIDE DEF c
<1>7. ASSUME NEW i \in Items \ (Touched(d) \ Touched(c)) PROVE Carries(c, i, old[i], new[i])
  <2>1. old[i] \in Nat /\ new[i] \in Nat
    BY <1>1
  <2>2. CASE i \notin Touched(c)
    <3>1. d.added[i] = 0 /\ d.updated[i] = 0 /\ i \notin d.removed
      BY <1>7, <2>2 DEF Touched
    <3>2. new[i] = old[i]
      BY <1>4, <2>1, <3>1
    <3> QED  BY <2>2, <3>2 DEF Carries
  <2>3. CASE i \in Gone(c)
    <3>1. new[i] = 0
      BY <1>5, <1>6, <2>3
    <3>2. c.added[i] = 0
      BY <1>4, <1>5, <3>1
    <3> QED  BY <2>3, <3>1, <3>2 DEF Carries
  <2>4. CASE i \in Touched(c) /\ i \notin Gone(c)
    <3>1. c.added[i] # 0 \/ c.updated[i] # 0
      BY <2>4 DEF Touched, Gone
    <3>2. c.added[i] \in {0, d.added[i]} /\ c.updated[i] \in {0, d.updated[i]}
      BY <1>5
    <3>3. /\ d.added[i] = IF old[i] = 0 THEN new[i] ELSE 0
          /\ d.updated[i] = IF old[i] \notin {0, new[i]} THEN new[i] ELSE 0
      BY <1>4
    <3> QED  BY <2>4, <3>1, <3>2, <3>3 DEF Carries
  <2> QED  BY <2>2, <2>3, <2>4
<1> QED  BY <1>7 DEF c, d

\* A timestamp poll's patch brings the snapshot to what the answer makes of it.
LEMMA RecentCarries ==
    ASSUME NEW new \in Graphs, NEW base \in Graphs
    PROVE  /\ RecentDiff(new, base) \in Patches
           /\ LastOf(base, new) \in Graphs
           /\ LET c == Cap(RecentDiff(new, base)) IN
              \A i \in Items \ (Touched(RecentDiff(new, base)) \ Touched(c)) :
                 Carries(c, i, base[i], LastOf(base, new)[i])
<1> DEFINE d == RecentDiff(new, base)
           c == Cap(d)
           last == LastOf(base, new)
<1>1. base \in [Items -> Versions] /\ new \in [Items -> Versions] /\ 0 \in Versions /\ Versions \subseteq Nat
  BY BoundAssumption DEF Graphs, Versions
<1>2. /\ [i \in Items |-> IF base[i] = 0 THEN new[i] ELSE 0] \in Graphs
      /\ [i \in Items |-> IF base[i] # 0 THEN new[i] ELSE 0] \in Graphs
  BY <1>1 DEF Graphs
<1>3. /\ d \in Patches
      /\ d.added = [i \in Items |-> IF base[i] = 0 THEN new[i] ELSE 0]
      /\ d.updated = [i \in Items |-> IF base[i] # 0 THEN new[i] ELSE 0]
      /\ d.removed = {}
  <2>1. d = [NoPatch EXCEPT !.added = [i \in Items |-> IF base[i] = 0 THEN new[i] ELSE 0],
                            !.updated = [i \in Items |-> IF base[i] # 0 THEN new[i] ELSE 0]]
    BY DEF RecentDiff
  <2> QED  BY <1>2, <2>1, EmptyIsPatch DEF NoPatch, Patches
<1>4. last \in Graphs /\ \A i \in Items : last[i] = IF new[i] # 0 THEN new[i] ELSE base[i]
  BY <1>1 DEF LastOf, Graphs
<1>5. \A i \in Items :
         /\ d.added[i] = IF base[i] = 0 THEN new[i] ELSE 0
         /\ d.updated[i] = IF base[i] # 0 THEN new[i] ELSE 0
  BY <1>3
<1>6. Gone(d) = {}
  BY <1>3, EndsAssumption DEF Gone, Attached
<1> HIDE DEF d, last
<1>7. /\ \A i \in Items : c.added[i] \in {0, d.added[i]} /\ c.updated[i] \in {0, d.updated[i]}
      /\ c \in Patches /\ Gone(c) = {}
  BY <1>3, <1>6, CapCuts, CutTouches
<1> HIDE DEF c
<1>8. ASSUME NEW i \in Items \ (Touched(d) \ Touched(c)) PROVE Carries(c, i, base[i], last[i])
  <2>1. base[i] \in Nat /\ new[i] \in Nat /\ last[i] = IF new[i] # 0 THEN new[i] ELSE base[i]
    BY <1>1, <1>4
  <2>2. /\ d.added[i] = IF base[i] = 0 THEN new[i] ELSE 0
        /\ d.updated[i] = IF base[i] # 0 THEN new[i] ELSE 0
    BY <1>5
  <2>3. CASE i \notin Touched(c)
    <3>1. d.added[i] = 0 /\ d.updated[i] = 0
      BY <1>8, <2>3 DEF Touched
    <3> QED  BY <2>1, <2>2, <2>3, <3>1 DEF Carries
  <2>4. CASE i \in Touched(c)
    <3>1. c.added[i] # 0 \/ c.updated[i] # 0
      BY <1>7, <2>4 DEF Touched, Gone
    <3>2. c.added[i] \in {0, d.added[i]} /\ c.updated[i] \in {0, d.updated[i]} /\ i \notin Gone(c)
      BY <1>7
    <3> QED  BY <2>1, <2>2, <3>1, <3>2 DEF Carries
  <2> QED  BY <2>3, <2>4
<1> QED  BY <1>3, <1>4, <1>8 DEF c, d, last

-----------------------------------------------------------------------------
(* The pages that listen.                                                   *)

\* A page that leaves leaves the others where they were.
LEMMA ListenerRemoved ==
    ASSUME NEW s \in Seq(Viewers), IsInjective(s), NEW k \in DOMAIN s
    PROVE  /\ RemoveAt(s, k) \in Seq(Viewers)
           /\ IsInjective(RemoveAt(s, k))
           /\ ToSet(RemoveAt(s, k)) = ToSet(s) \ {s[k]}
<1> DEFINE n == Len(s)
           l == SubSeq(s, 1, k - 1)
           r == SubSeq(s, k + 1, n)
           t == RemoveAt(s, k)
<1>1. n \in Nat /\ k \in 1..n /\ DOMAIN s = 1..n /\ \A i \in 1..n : s[i] \in Viewers
  BY LenProperties, ElementOfSeq
<1>2. /\ l \in Seq(Viewers) /\ Len(l) = k - 1
      /\ \A i \in 1..(k - 1) : l[i] = s[i]
  <2>1. \A i \in 1..(k - 1) : s[i] \in Viewers
    BY <1>1
  <2>2. /\ l \in Seq(Viewers)
        /\ Len(l) = IF 1 <= k - 1 THEN k - 1 - 1 + 1 ELSE 0
        /\ \A i \in 1..(k - 1 - 1 + 1) : l[i] = s[1 + i - 1]
    BY <1>1, <2>1, SubSeqProperties
  <2> HIDE DEF l
  <2> QED  BY <1>1, <2>2
<1>3. /\ r \in Seq(Viewers) /\ Len(r) = n - k
      /\ \A i \in 1..(n - k) : r[i] = s[k + i]
  <2>1. \A i \in (k + 1)..n : s[i] \in Viewers
    BY <1>1
  <2>2. /\ r \in Seq(Viewers)
        /\ Len(r) = IF k + 1 <= n THEN n - (k + 1) + 1 ELSE 0
        /\ \A i \in 1..(n - (k + 1) + 1) : r[i] = s[(k + 1) + i - 1]
    BY <1>1, <2>1, SubSeqProperties
  <2> HIDE DEF r, n
  <2>3. n - (k + 1) + 1 = n - k /\ (k + 1 <= n \/ n - k = 0)
    BY <1>1
  <2>4. \A i \in 1..(n - k) : (k + 1) + i - 1 = k + i
    BY <1>1
  <2>5. Len(r) = n - k
    BY <2>2, <2>3
  <2>6. \A i \in 1..(n - k) : r[i] = s[k + i]
    BY <2>2, <2>3, <2>4
  <2> QED  BY <2>2, <2>5, <2>6
<1>4. t = l \o r
  BY DEF RemoveAt
<1> HIDE DEF t, l, r, n
<1>5. /\ t \in Seq(Viewers) /\ Len(t) = n - 1
      /\ \A i \in 1..(n - 1) : t[i] = IF i <= k - 1 THEN l[i] ELSE r[i - (k - 1)]
  <2>1. /\ t \in Seq(Viewers)
        /\ Len(t) = (k - 1) + (n - k)
        /\ \A i \in 1..((k - 1) + (n - k)) : t[i] = IF i <= k - 1 THEN l[i] ELSE r[i - (k - 1)]
    BY <1>2, <1>3, <1>4, ConcatProperties
  <2>2. (k - 1) + (n - k) = n - 1
    BY <1>1
  <2> QED  BY <2>1, <2>2
<1>6. \A i \in 1..(n - 1) : t[i] = IF i < k THEN s[i] ELSE s[i + 1]
  <2> TAKE i \in 1..(n - 1)
  <2>1. CASE i < k
    <3>1. i \in 1..(k - 1) /\ i <= k - 1
      BY <1>1, <2>1
    <3> QED  BY <1>2, <1>5, <2>1, <3>1
  <2>2. CASE ~(i < k)
    <3>1. i - (k - 1) \in 1..(n - k) /\ ~(i <= k - 1) /\ k + (i - (k - 1)) = i + 1
      BY <1>1, <2>2
    <3> QED  BY <1>3, <1>5, <2>2, <3>1
  <2> QED  BY <2>1, <2>2
<1>7. DOMAIN t = 1..(n - 1)
  BY <1>1, <1>5, LenProperties
<1>8. \A i, j \in 1..n : s[i] = s[j] => i = j
  BY <1>1 DEF IsInjective
<1>9. IsInjective(t)
  <2>1. SUFFICES ASSUME NEW i \in 1..(n - 1), NEW j \in 1..(n - 1), t[i] = t[j] PROVE i = j
    BY <1>7 DEF IsInjective
  <2> DEFINE a == IF i < k THEN i ELSE i + 1
             b == IF j < k THEN j ELSE j + 1
  <2>2. a \in 1..n /\ b \in 1..n /\ (a = b => i = j)
    BY <1>1
  <2>3. t[i] = s[a] /\ t[j] = s[b]
    BY <1>6
  <2> QED  BY ONLY <1>8, <2>1, <2>2, <2>3
<1>10. ToSet(t) = ToSet(s) \ {s[k]}
  <2>1. \A i \in 1..(n - 1) : \E j \in 1..n : t[i] = s[j] /\ j # k
    <3> TAKE i \in 1..(n - 1)
    <3>1. CASE i < k
      BY <1>1, <1>6, <3>1
    <3>2. CASE ~(i < k)
      <4>1. i + 1 \in 1..n /\ i + 1 # k
        BY <1>1, <3>2
      <4> QED  BY <1>6, <3>2, <4>1
    <3> QED  BY <3>1, <3>2
  <2>2. \A j \in 1..n : j # k => \E i \in 1..(n - 1) : t[i] = s[j]
    <3> SUFFICES ASSUME NEW j \in 1..n, j # k PROVE \E i \in 1..(n - 1) : t[i] = s[j]
      OBVIOUS
    <3>1. CASE j < k
      BY <1>1, <1>6, <3>1
    <3>2. CASE ~(j < k)
      <4>1. j - 1 \in 1..(n - 1) /\ ~(j - 1 < k) /\ (j - 1) + 1 = j
        BY <1>1, <3>2
      <4> QED  BY <1>6, <4>1
    <3> QED  BY <3>1, <3>2
  <2>3. ToSet(t) = {t[i] : i \in 1..(n - 1)} /\ ToSet(s) = {s[i] : i \in 1..n}
    BY <1>1, <1>7 DEF ToSet
  <2>4. \A j \in 1..n : s[j] = s[k] => j = k
    BY <1>1, <1>8
  <2> QED  BY ONLY SMTT(30), <2>1, <2>2, <2>3, <2>4
<1> QED  BY <1>5, <1>9, <1>10 DEF t

\* A page that comes is the last of them.
LEMMA ListenerAdded ==
    ASSUME NEW s \in Seq(Viewers), IsInjective(s), NEW v \in Viewers, v \notin ToSet(s)
    PROVE  /\ Append(s, v) \in Seq(Viewers)
           /\ IsInjective(Append(s, v))
           /\ ToSet(Append(s, v)) = ToSet(s) \cup {v}
<1> DEFINE n == Len(s)
           t == Append(s, v)
<1>1. n \in Nat /\ DOMAIN s = 1..n
  BY LenProperties
<1>2. /\ t \in Seq(Viewers) /\ Len(t) = n + 1
      /\ \A i \in 1..n : t[i] = s[i]
      /\ t[n + 1] = v
  BY AppendProperties
<1>3. DOMAIN t = 1..(n + 1)
  BY <1>1, <1>2, LenProperties
<1> HIDE DEF t, n
<1>4. \A i \in 1..n : s[i] # v
  BY <1>1 DEF ToSet
<1>5. IsInjective(t)
  BY <1>1, <1>2, <1>3, <1>4 DEF IsInjective
<1>6. ToSet(t) = ToSet(s) \cup {v}
  <2>1. \A i \in 1..(n + 1) : i \in 1..n \/ i = n + 1
    BY <1>1
  <2>2. n + 1 \in 1..(n + 1) /\ 1..n \subseteq 1..(n + 1)
    BY <1>1
  <2> QED  BY <1>1, <1>2, <1>3, <2>1, <2>2 DEF ToSet
<1> QED  BY <1>2, <1>5, <1>6 DEF t

-----------------------------------------------------------------------------
(* The shape of the state.                                                  *)

\* A poll that puts its answer into the snapshot in place has one.
Owned == \A p \in Polls : poll[p].own => poll[p].kind = "recent" /\ snapshot # None

Shape == TypeOK /\ Owned

\* What a poll may be.
PollStates ==
    [stage : {"idle", "asked", "ran"}, kind : {"init", "full", "recent"}, since : 0..MaxWrites + 1,
     held : Graphs, own : BOOLEAN, result : Graphs, seen : Versions]

\* Versions are numbers, and no graph is None.
LEMMA VersionFacts == 0 \in Versions /\ Versions \subseteq Nat /\ None \notin Graphs /\ Empty \in Graphs
<1>1. 0 \in Versions /\ Versions \subseteq Nat
  BY BoundAssumption DEF Versions
<1>2. Empty \in Graphs
  BY <1>1 DEF Empty, Graphs
<1>3. None \notin Graphs
  <2>1. SUFFICES ASSUME None \in Graphs PROVE FALSE
    OBVIOUS
  <2>2. None \in [Items -> Nat]
    BY <1>1, <2>1 DEF Graphs
  <2> QED  BY <2>2, NoneAssumption
<1> QED  BY <1>1, <1>2, <1>3

\* What TypeOK says of a poll.
LEMMA PollShape == TypeOK => poll \in [Polls -> PollStates]
  BY DEF TypeOK, PollStates

\* A poll that is not under way.
LEMMA IdleShape == Idle \in PollStates
<1>1. Empty \in Graphs /\ 0 \in Versions /\ 0 \in 0..MaxWrites + 1
  BY VersionFacts, BoundAssumption
<1> QED  BY <1>1 DEF Idle, PollStates

\* A poll that asks.
LEMMA AskedShape ==
    ASSUME TypeOK, NEW kind \in {"init", "full", "recent"}, kind = "full" => snapshot # None
    PROVE  /\ Asked(kind) \in PollStates
           /\ Asked(kind).stage = "asked" /\ Asked(kind).kind = kind
           /\ Asked(kind).own = (kind = "recent")
           /\ Asked(kind).since = IF kind = "recent" THEN lastPoll ELSE 0
           /\ Asked(kind).held = IF kind = "full" THEN snapshot ELSE Empty
           /\ Asked(kind).seen = 0 /\ Asked(kind).result = Empty
<1>1. /\ (IF kind = "recent" THEN lastPoll ELSE 0) \in 0..MaxWrites + 1
      /\ (IF kind = "full" THEN snapshot ELSE Empty) \in Graphs
      /\ (kind = "recent") \in BOOLEAN /\ Empty \in Graphs /\ 0 \in Versions
  BY VersionFacts, BoundAssumption DEF TypeOK
<1>2. /\ Asked(kind) \in PollStates
      /\ Asked(kind).stage = "asked" /\ Asked(kind).kind = kind
      /\ Asked(kind).own = (kind = "recent")
      /\ Asked(kind).since = IF kind = "recent" THEN lastPoll ELSE 0
      /\ Asked(kind).held = IF kind = "full" THEN snapshot ELSE Empty
  BY <1>1, IdleShape DEF Asked, PollStates
<1>3. Asked(kind).seen = 0 /\ Asked(kind).result = Empty
  BY DEF Asked, Idle
<1> QED  BY <1>2, <1>3

\* A poll whose snapshot is replaced keeps the one it had.
LEMMA DisownShape ==
    ASSUME NEW q \in PollStates, q.own => snapshot \in Graphs
    PROVE  /\ Disown(q) \in PollStates
           /\ ~Disown(q).own
           /\ Disown(q).stage = q.stage /\ Disown(q).kind = q.kind /\ Disown(q).since = q.since
           /\ Disown(q).result = q.result /\ Disown(q).seen = q.seen
  BY DEF Disown, PollStates

\* The answer to a timestamp query is a graph.
LEMMA SinceShape == ASSUME TypeOK, NEW time \in Nat PROVE Since(time) \in Graphs
  BY VersionFacts DEF TypeOK, Since, Graphs

-----------------------------------------------------------------------------
(* What pages are shown, and the patches that wait.                         *)

\* Pages show graphs, or nothing yet.
LEMMA DeliverShape ==
    ASSUME TypeOK, NEW p \in Patches, NEW shown \in [Viewers -> Graphs \cup {None}],
           NEW off \in SUBSET Items, Deliver(p, shown, off)
    PROVE  /\ told' \in [Viewers -> Graphs \cup {None}]
           /\ astray' \in [Viewers -> SUBSET Items]
           /\ recent' \in BOOLEAN
<1> DEFINE gets == {v \in Listening : Passes(v, p) /\ shown[v] # None}
           lost == [v \in Viewers |-> off \cup (IF v \in gets THEN {} ELSE Touched(p))]
<1>1. /\ told' = [v \in Viewers |-> IF v \in gets THEN Apply(shown[v], p) ELSE shown[v]]
      /\ astray' = [v \in Viewers |-> IF v \in Listening THEN astray[v] \cup lost[v] ELSE {}]
      /\ recent' = (recent \/ (listeners # <<>> /\ ~p.truncated))
  BY DEF Deliver, Show
<1>2. \A v \in gets : shown[v] # None
  OBVIOUS
<1>3. Touched(p) \subseteq Items
  BY DEF Touched, Attached, Patches, Items
<1>4. lost \in [Viewers -> SUBSET Items]
  BY <1>3
<1> HIDE DEF gets, lost
<1>5. told' \in [Viewers -> Graphs \cup {None}]
  <2>1. \A v \in Viewers : v \in gets => Apply(shown[v], p) \in Graphs
    BY <1>2, AppliedGraph
  <2> QED  BY <1>1, <2>1
<1>6. astray' \in [Viewers -> SUBSET Items]
  BY <1>1, <1>4 DEF TypeOK
<1>7. recent' \in BOOLEAN
  BY <1>1 DEF TypeOK
<1> QED  BY <1>5, <1>6, <1>7

\* A page shows what it loaded.
LEMMA LoadedShape ==
    ASSUME TypeOK, NEW new \in Graphs \cup {None}
    PROVE  Loaded(new) \in [Viewers -> Graphs \cup {None}]
  BY DEF Loaded, TypeOK

\* Pages show what there is, and more may be astray.
LEMMA ShowShape ==
    ASSUME TypeOK, NEW off \in SUBSET Items, NEW new \in Graphs \cup {None},
           Show(Loaded(new), [v \in Viewers |-> off])
    PROVE  told' \in [Viewers -> Graphs \cup {None}] /\ astray' \in [Viewers -> SUBSET Items]
  BY LoadedShape DEF Show, TypeOK

\* A patch bears on items of the graph.
LEMMA TouchedItems == \A p \in Patches : Touched(p) \subseteq Items
  BY DEF Touched, Attached, Patches, Items

\* What is published is shown or waits, in shape.
LEMMA PublishShape ==
    ASSUME TypeOK, NEW patch \in Patches, NEW new \in Graphs \cup {None}, NEW off \in SUBSET Items,
           Publish(patch, new, off)
    PROVE  /\ told' \in [Viewers -> Graphs \cup {None}]
           /\ astray' \in [Viewers -> SUBSET Items]
           /\ batch' \in Patches
           /\ recent' \in BOOLEAN
<1> DEFINE cut == Cap(patch)
           strays == off \cup (Touched(patch) \ Touched(cut))
                         \cup (IF snapshot = None THEN Touched(batch) ELSE {})
<1>1. cut \in Patches /\ batch \in Patches
  BY CapCuts DEF TypeOK
<1>2. strays \subseteq Items
  BY <1>1, TouchedItems
<1>3. \/ /\ batch' = Join(batch, cut)
         /\ Show(Loaded(new), [v \in Viewers |-> strays])
         /\ recent' = recent
      \/ Deliver(cut, Loaded(new), strays) /\ batch' = batch
  BY DEF Publish
<1> HIDE DEF cut, strays
<1>4. CASE batch' = Join(batch, cut) /\ Show(Loaded(new), [v \in Viewers |-> strays]) /\ recent' = recent
  BY <1>1, <1>2, <1>4, JoinedPatch, ShowShape DEF TypeOK
<1>5. CASE Deliver(cut, Loaded(new), strays) /\ batch' = batch
  BY <1>1, <1>2, <1>5, LoadedShape, DeliverShape
<1> QED  BY <1>3, <1>4, <1>5

\* Answers, and what polls remember of the snapshot.
LEMMA RunShape ==
    ASSUME TypeOK, NEW p \in Polls, Run(p)
    PROVE  \E q \in PollStates, ok \in BOOLEAN :
              /\ poll' = [poll EXCEPT ![p] = q]
              /\ poll[p].stage = "asked" /\ q.stage = "ran"
              /\ q.kind = poll[p].kind /\ q.since = poll[p].since /\ q.own = poll[p].own
              /\ q.seen = IF ~config.timestamps THEN 0
                          ELSE IF ok THEN clock ELSE Max({0, poll[p].since - 1})
              /\ q.result = IF ~ok THEN Empty
                            ELSE IF poll[p].kind = "recent" THEN Since(poll[p].since) ELSE graph
              /\ ~ok => errors < config.failures
              /\ errors' = IF ok THEN errors ELSE errors + 1
<1>1. PICK ok \in BOOLEAN :
         /\ ~ok => errors < config.failures
         /\ errors' = IF ok THEN errors ELSE errors + 1
         /\ poll' = [poll EXCEPT
                ![p].stage = "ran",
                ![p].seen = IF ~config.timestamps THEN 0
                            ELSE IF ok THEN clock ELSE Max({0, poll[p].since - 1}),
                ![p].result = IF ~ok THEN Empty
                              ELSE IF poll[p].kind = "recent" THEN Since(poll[p].since)
                              ELSE graph]
  BY DEF Run
<1> DEFINE seen == IF ~config.timestamps THEN 0
                   ELSE IF ok THEN clock ELSE Max({0, poll[p].since - 1})
           result == IF ~ok THEN Empty
                     ELSE IF poll[p].kind = "recent" THEN Since(poll[p].since) ELSE graph
           q == [poll[p] EXCEPT !.stage = "ran", !.seen = seen, !.result = result]
<1>2. poll[p] \in PollStates /\ poll \in [Polls -> PollStates]
  BY PollShape
<1>3. seen \in Versions
  <2>1. poll[p].since \in 0..MaxWrites + 1
    BY <1>2 DEF PollStates
  <2>2. Max({0, poll[p].since - 1}) \in 0..MaxWrites
    <3>1. poll[p].since - 1 \in Int /\ (poll[p].since - 1 <= MaxWrites)
      BY <2>1, BoundAssumption
    <3> QED  BY <3>1, MaxWithZero, BoundAssumption
  <2> QED  BY <2>2, BoundAssumption DEF Versions, TypeOK
<1>4. result \in Graphs
  <2>1. poll[p].since \in Nat
    BY <1>2, BoundAssumption DEF PollStates
  <2>2. Since(poll[p].since) \in Graphs
    BY <2>1, SinceShape
  <2> QED  BY <2>2, VersionFacts DEF TypeOK
<1>5. poll' = [poll EXCEPT ![p] = q]
  BY <1>1
<1> HIDE DEF seen, result
<1>6. q \in PollStates
  BY <1>2, <1>3, <1>4 DEF PollStates
<1>7. /\ q.stage = "ran" /\ q.kind = poll[p].kind /\ q.since = poll[p].since /\ q.own = poll[p].own
      /\ q.seen = seen /\ q.result = result
  BY <1>2 DEF PollStates
<1>8. poll[p].stage = "asked"
  BY DEF Run
<1> HIDE DEF q
<1> QED  BY <1>1, <1>5, <1>6, <1>7, <1>8 DEF seen, result

\* Every operation keeps the shape.
LEMMA ShapeKept == Shape /\ [Next]_vars => Shape'
<1> SUFFICES ASSUME Shape, [Next]_vars PROVE Shape'
  OBVIOUS
<1>0. TypeOK /\ Owned
  BY DEF Shape
<1> USE <1>0
<1>1. CASE UNCHANGED vars
  BY <1>1 DEF vars, detector, history, Shape, TypeOK, Owned, Listening, Versions, Graphs, Patches
<1>2. ASSUME NEW n \in Nodes, NEW stamped \in BOOLEAN, Put(n, stamped) PROVE Shape'
  <2>1. Now \in Versions /\ n \in Items
    BY <1>2, BoundAssumption DEF Put, Now, TypeOK, Versions, Items
  <2>2. graph' \in Graphs /\ clock' \in Versions
    BY <1>2, <2>1 DEF Put, TypeOK, Graphs
  <2>3. stamp' \in [Nodes -> Versions]
    BY <1>2, <2>1 DEF Put, TypeOK
  <2>4. UNCHANGED <<config, errors, detector, history>>
    BY <1>2 DEF Put
  <2> QED  BY <2>2, <2>3, <2>4 DEF detector, history, Shape, TypeOK, Owned, Listening
<1>3. ASSUME NEW e \in Edges, Link(e) PROVE Shape'
  <2>1. Now \in Versions /\ e \in Items
    BY <1>3, BoundAssumption DEF Link, Now, TypeOK, Versions, Items
  <2>2. graph' \in Graphs /\ clock' \in Versions
    BY <1>3, <2>1 DEF Link, TypeOK, Graphs
  <2>3. UNCHANGED <<config, stamp, errors, detector, history>>
    BY <1>3 DEF Link
  <2> QED  BY <2>2, <2>3 DEF detector, history, Shape, TypeOK, Owned, Listening
<1>4. ASSUME NEW i \in Items, Delete(i) PROVE Shape'
  <2>1. Now \in Versions /\ 0 \in Versions
    BY <1>4, BoundAssumption DEF Delete, Now, TypeOK, Versions
  <2>2. graph' \in Graphs /\ clock' \in Versions
    BY <1>4, <2>1 DEF Delete, TypeOK, Graphs
  <2>3. stamp' \in [Nodes -> Versions]
    BY <1>4, <2>1 DEF Delete, TypeOK
  <2>4. UNCHANGED <<config, errors, detector, history>>
    BY <1>4 DEF Delete
  <2> QED  BY <2>2, <2>3, <2>4 DEF detector, history, Shape, TypeOK, Owned, Listening
<1>5. ASSUME NEW v \in Viewers, Subscribe(v) PROVE Shape'
  <2>1. listeners' \in Seq(Viewers) /\ IsInjective(listeners')
    BY <1>5, ListenerAdded DEF Subscribe, TypeOK, Listening
  <2>2. /\ told' \in [Viewers -> Graphs \cup {None}]
        /\ astray' \in [Viewers -> SUBSET Items]
    BY <1>5, TouchedItems DEF Subscribe, TypeOK
  <2>3. /\ poll' \in [Polls -> PollStates]
        /\ \A p \in Polls : poll'[p].own => poll[p].own
    <3>1. CASE UNCHANGED poll
      BY <3>1, PollShape
    <3>2. ASSUME NEW p \in Polls, poll' = [poll EXCEPT ![p] = Asked("init")]
          PROVE  /\ poll' \in [Polls -> PollStates]
                 /\ \A r \in Polls : poll'[r].own => poll[r].own
      BY <3>2, AskedShape, PollShape
    <3> QED  BY <1>5, <3>1, <3>2 DEF Subscribe
  <2>4. UNCHANGED <<config, graph, stamp, clock, errors, snapshot, lastPoll, batch, recent, missed>>
    BY <1>5 DEF Subscribe
  <2>5. Owned'
    BY <2>3, <2>4, <1>5, AskedShape, PollShape DEF Owned, Subscribe
  <2> QED  BY <2>1, <2>2, <2>3, <2>4, <2>5 DEF Shape, TypeOK, PollStates
<1>6. ASSUME NEW v \in Viewers, Unsubscribe(v) PROVE Shape'
  <2>1. listeners' \in Seq(Viewers) /\ IsInjective(listeners')
    BY <1>6, ListenerRemoved DEF Unsubscribe, TypeOK
  <2>2. /\ told' \in [Viewers -> Graphs \cup {None}]
        /\ astray' \in [Viewers -> SUBSET Items]
    BY <1>6 DEF Unsubscribe, TypeOK
  <2>3. \A p \in Polls : /\ Disown(poll[p]) \in PollStates /\ ~Disown(poll[p]).own
    <3> TAKE p \in Polls
    <3>1. poll[p] \in PollStates /\ (poll[p].own => snapshot \in Graphs)
      BY PollShape DEF TypeOK, Owned
    <3> QED  BY <3>1, DisownShape
  <2>4. UNCHANGED <<config, graph, stamp, clock, errors, lastPoll, batch, recent, missed>>
    BY <1>6 DEF Unsubscribe
  <2>5. poll' \in [Polls -> PollStates] /\ snapshot' \in Graphs \cup {None} /\ Owned'
    <3>1. CASE UNCHANGED <<snapshot, poll>>
      BY <3>1, PollShape DEF Owned, TypeOK
    <3>2. CASE snapshot' = None /\ poll' = [p \in Polls |-> Disown(poll[p])]
      BY <2>3, <3>2 DEF Owned
    <3> QED  BY <1>6, <3>1, <3>2 DEF Unsubscribe
  <2> QED  BY <2>1, <2>2, <2>4, <2>5 DEF Shape, TypeOK, PollStates
<1>7. ASSUME NEW p \in Polls, Start(p) PROVE Shape'
  <2>1. Kind \in {"init", "full", "recent"} /\ (Kind # "init" => snapshot # None)
    BY DEF Kind
  <2>2. Asked(Kind) \in PollStates /\ Asked(Kind).kind = Kind /\ Asked(Kind).own = (Kind = "recent")
    BY <2>1, AskedShape
  <2>3. poll' = [poll EXCEPT ![p] = Asked(Kind)]
    BY <1>7 DEF Start
  <2>4. UNCHANGED <<config, graph, stamp, clock, errors, snapshot, lastPoll, batch, listeners,
                    recent, history>>
    BY <1>7 DEF Start
  <2>5. poll' \in [Polls -> PollStates] /\ Owned'
    BY <2>1, <2>2, <2>3, <2>4, PollShape DEF Owned
  <2> QED  BY <2>4, <2>5 DEF Shape, TypeOK, PollStates, Listening, history
<1>8. ASSUME NEW p \in Polls, Run(p) PROVE Shape'
  <2>1. PICK q \in PollStates, ok \in BOOLEAN :
           /\ poll' = [poll EXCEPT ![p] = q]
           /\ q.kind = poll[p].kind /\ q.own = poll[p].own
           /\ ~ok => errors < config.failures
           /\ errors' = IF ok THEN errors ELSE errors + 1
    BY <1>8, RunShape
  <2>2. UNCHANGED <<config, graph, stamp, clock, snapshot, lastPoll, batch, listeners, recent, history>>
    BY <1>8 DEF Run
  <2>3. poll' \in [Polls -> PollStates] /\ Owned'
    BY <2>1, <2>2, PollShape DEF Owned
  <2>4. errors' \in 0..config.failures
    BY <2>1, ConfigsAssumption DEF TypeOK
  <2> QED  BY <2>2, <2>3, <2>4 DEF Shape, TypeOK, PollStates, Listening, history
<1> DEFINE Noted == lastPoll' \in 0..MaxWrites + 1 /\ missed' \in SUBSET Nodes
<1>9. ASSUME NEW q, NEW new, Note(q, new) PROVE Noted
  <2>1. Now \in 0..MaxWrites + 1
    BY BoundAssumption DEF Now, TypeOK, Versions
  <2>2. Overlooked(q) \subseteq Nodes
    BY DEF Overlooked
  <2>3. lastPoll' = Now
    BY <1>9 DEF Note
  <2>4. missed' = {n \in missed \cup Overlooked(q) : new[n] # graph[n]} \/ missed' = missed
    BY <1>9 DEF Note
  <2> QED  BY <2>1, <2>2, <2>3, <2>4 DEF TypeOK
<1>10. ASSUME NEW p \in Polls, FinishInit(p) PROVE Shape'
  <2> DEFINE q == poll[p]
             strays == IF snapshot = None THEN Touched(batch)
                       ELSE {i \in Items : snapshot[i] # q.result[i]}
  <2>1. q \in PollStates /\ q.result \in Graphs
    BY PollShape DEF PollStates
  <2>2. strays \subseteq Items
    BY TouchedItems DEF TypeOK
  <2>3. /\ snapshot' = q.result
        /\ Show(Loaded(q.result), [v \in Viewers |-> strays])
        /\ Note(q, q.result)
        /\ poll' = [r \in Polls |-> IF r = p THEN Idle ELSE Disown(poll[r])]
        /\ UNCHANGED <<config, graph, stamp, clock, errors, batch, listeners, recent>>
    BY <1>10 DEF FinishInit
  <2> HIDE DEF q, strays
  <2>4. told' \in [Viewers -> Graphs \cup {None}] /\ astray' \in [Viewers -> SUBSET Items]
    BY <2>1, <2>2, <2>3, ShowShape
  <2>5. \A r \in Polls : Disown(poll[r]) \in PollStates /\ ~Disown(poll[r]).own
    <3> TAKE r \in Polls
    <3>1. poll[r] \in PollStates /\ (poll[r].own => snapshot \in Graphs)
      BY PollShape DEF TypeOK, Owned
    <3> QED  BY <3>1, DisownShape
  <2>6. Idle \in PollStates /\ ~Idle.own
    BY IdleShape DEF Idle
  <2>7. poll' \in [Polls -> PollStates] /\ Owned'
    BY <2>3, <2>5, <2>6 DEF Owned
  <2>8. Noted
    BY <1>9, <2>3
  <2> QED  BY <2>1, <2>3, <2>4, <2>7, <2>8 DEF Shape, TypeOK, PollStates, Listening
<1>11. ASSUME NEW p \in Polls, FinishRecent(p) PROVE Shape'
  <2> DEFINE q == poll[p]
             base == IF q.own THEN snapshot ELSE q.held
             patch == RecentDiff(q.result, base)
             off == IF q.own THEN {} ELSE Touched(patch)
  <2>1. q \in PollStates /\ q.result \in Graphs /\ q.held \in Graphs
    BY PollShape DEF PollStates
  <2>2. base \in Graphs
    BY <2>1 DEF Owned, TypeOK
  <2>3. /\ snapshot' = IF q.own THEN LastOf(base, q.result) ELSE snapshot
        /\ Publish(patch, snapshot', off)
        /\ Note(q, snapshot')
        /\ poll' = [poll EXCEPT ![p] = Idle]
        /\ UNCHANGED <<config, graph, stamp, clock, errors, listeners>>
    BY <1>11 DEF FinishRecent
  <2> HIDE DEF q, base
  <2>4. patch \in Patches /\ LastOf(base, q.result) \in Graphs
    BY <2>1, <2>2, RecentCarries
  <2> HIDE DEF patch
  <2>5. off \subseteq Items
    BY <2>4, TouchedItems
  <2>6. snapshot' \in Graphs \cup {None} /\ (snapshot # None => snapshot' # None)
    BY <2>3, <2>4, VersionFacts DEF TypeOK
  <2> HIDE DEF off
  <2>7. /\ told' \in [Viewers -> Graphs \cup {None}] /\ astray' \in [Viewers -> SUBSET Items]
        /\ batch' \in Patches /\ recent' \in BOOLEAN
    BY <2>3, <2>4, <2>5, <2>6, PublishShape
  <2>8. Idle \in PollStates /\ ~Idle.own
    BY IdleShape DEF Idle
  <2>9. poll' \in [Polls -> PollStates] /\ Owned'
    BY <2>3, <2>6, <2>8, PollShape DEF Owned
  <2>10. Noted
    BY <1>9, <2>3
  <2> QED  BY <2>3, <2>6, <2>7, <2>9, <2>10 DEF Shape, TypeOK, PollStates, Listening
<1>12. ASSUME NEW p \in Polls, FinishFull(p) PROVE Shape'
  <2> DEFINE q == poll[p]
             patch == Diff(q.held, q.result)
             off == IF snapshot = None THEN {} ELSE {i \in Items : snapshot[i] # q.held[i]}
  <2>1. q \in PollStates /\ q.result \in Graphs /\ q.held \in Graphs
    BY PollShape DEF PollStates
  <2>2. /\ snapshot' = q.result
        /\ Publish(patch, q.result, off)
        /\ poll' = [poll EXCEPT ![p] = Idle]
        /\ UNCHANGED <<config, graph, stamp, clock, errors, listeners, lastPoll, missed>>
    BY <1>12 DEF FinishFull
  <2> HIDE DEF q
  <2>3. patch \in Patches
    BY <2>1, DiffShape
  <2>4. off \subseteq Items
    OBVIOUS
  <2> HIDE DEF patch, off
  <2>5. /\ told' \in [Viewers -> Graphs \cup {None}] /\ astray' \in [Viewers -> SUBSET Items]
        /\ batch' \in Patches /\ recent' \in BOOLEAN
    BY <2>1, <2>2, <2>3, <2>4, PublishShape
  <2>6. Idle \in PollStates /\ ~Idle.own
    BY IdleShape DEF Idle
  <2>7. snapshot' # None
    BY <2>1, <2>2, VersionFacts
  <2>8. poll' \in [Polls -> PollStates] /\ Owned'
    BY <2>2, <2>6, <2>7, PollShape DEF Owned
  <2> QED  BY <2>1, <2>2, <2>5, <2>8 DEF Shape, TypeOK, PollStates, Listening
<1>13. CASE Emit
  <2> DEFINE cut == Cap(batch)
             off == Jumbled(batch) \cup (Touched(batch) \ Touched(cut))
  <2>1. /\ Deliver(cut, told, off)
        /\ batch' = NoPatch
        /\ UNCHANGED <<config, graph, stamp, clock, errors, snapshot, lastPoll, poll, listeners, missed>>
    BY <1>13 DEF Emit
  <2>2. cut \in Patches
    BY CapCuts DEF TypeOK
  <2>3. off \subseteq Items
    BY <2>2, TouchedItems DEF TypeOK, Jumbled, Patches, Attached, Items
  <2> HIDE DEF cut, off
  <2>4. /\ told' \in [Viewers -> Graphs \cup {None}] /\ astray' \in [Viewers -> SUBSET Items]
        /\ recent' \in BOOLEAN
    BY <2>1, <2>2, <2>3, DeliverShape DEF TypeOK
  <2> QED  BY <2>1, <2>4, EmptyIsPatch DEF Shape, TypeOK, Owned, Listening
<1>14. CASE Quiet
  BY <1>14 DEF Quiet, history, Shape, TypeOK, Owned, Listening
<1> QED  BY <1>1, <1>2, <1>3, <1>4, <1>5, <1>6, <1>7, <1>8, <1>10, <1>11, <1>12, <1>13, <1>14
         DEF Next

\* It starts in shape.
LEMMA ShapeInit == Init => Shape
<1> SUFFICES ASSUME Init PROVE Shape
  OBVIOUS
<1>1. 0 \in Versions /\ 1 \in Versions
  BY BoundAssumption DEF Versions
<1>2. graph \in Graphs
  BY <1>1 DEF Init, Graphs
<1>3. stamp \in [Nodes -> Versions]
  BY <1>1, <1>2 DEF Init, Graphs, Items
<1>4. listeners \in Seq(Viewers) /\ IsInjective(listeners)
  <2>1. listeners = <<>>
    BY DEF Init
  <2>2. <<>> \in Seq(Viewers) /\ Len(<<>>) = 0
    BY EmptySeq
  <2>3. DOMAIN <<>> = {}
    BY <2>2, LenProperties
  <2> QED  BY <2>1, <2>2, <2>3 DEF IsInjective
<1>5. poll \in [Polls -> PollStates] /\ Owned
  BY IdleShape DEF Init, Owned, Idle
<1>6. errors \in 0..config.failures
  BY ConfigsAssumption DEF Init
<1>7. /\ told \in [Viewers -> Graphs \cup {None}] /\ astray \in [Viewers -> SUBSET Items]
      /\ missed \subseteq Nodes /\ snapshot \in Graphs \cup {None}
  BY DEF Init
<1>8. config \in Configs /\ clock \in Versions /\ recent \in BOOLEAN /\ lastPoll \in 0..MaxWrites + 1
  <2>1. 0 \in 0..MaxWrites + 1
    BY BoundAssumption
  <2> QED  BY <1>1, <2>1 DEF Init
<1>9. batch \in Patches
  BY EmptyIsPatch DEF Init
<1> QED  BY <1>2, <1>3, <1>4, <1>5, <1>6, <1>7, <1>8, <1>9 DEF Shape, TypeOK, PollStates

\* The state keeps its shape (graphChangeDetector.ts: snapshots, the polls under
\* way, the pending batch and the subscribers).
THEOREM TypeCorrect == Spec => []TypeOK
<1>1. Spec => []Shape
  BY ShapeInit, ShapeKept, PTL DEF Spec
<1>2. Shape => TypeOK
  BY DEF Shape
<1> QED  BY <1>1, <1>2, PTL

-----------------------------------------------------------------------------
(* What the next timestamp query will ask for.                              *)

\* What an answer says of the nodes that were not stamped since it was given: it
\* has those that were asked for, and none in another version.
Answered(q) ==
    \A n \in Nodes :
        graph[n] # 0 /\ graph[n] = stamp[n] /\ stamp[n] <= q.seen =>
            /\ q.result[n] \in {0, graph[n]}
            /\ stamp[n] >= q.since => q.result[n] = graph[n]

\* Nothing is stamped, answered or noted in the future; a query asks for what was
\* stamped since a time that has been noted.
Clocked ==
    /\ lastPoll <= Now
    /\ \A n \in Nodes : stamp[n] <= clock
    /\ \A p \in Polls : poll[p].seen <= clock /\ poll[p].since <= lastPoll

Queried ==
    \A p \in Polls :
        /\ Answered(poll[p])
        /\ poll[p].kind = "full" => ~config.timestamps
        /\ poll[p].kind = "init" => poll[p].since = 0

Heeded == Clocked /\ Queried /\ NothingMissed

\* The numbers of the state.
LEMMA Numbers ==
    ASSUME TypeOK
    PROVE  /\ clock \in Nat /\ lastPoll \in Nat
           /\ \A n \in Nodes : graph[n] \in Nat /\ stamp[n] \in Nat
           /\ \A p \in Polls : /\ poll[p].seen \in Nat /\ poll[p].since \in Nat
                               /\ \A n \in Nodes : poll[p].result[n] \in Nat
           /\ snapshot # None => \A n \in Nodes : snapshot[n] \in Nat
<1>1. Versions \subseteq Nat /\ 0..MaxWrites + 1 \subseteq Nat /\ Nodes \subseteq Items
  BY BoundAssumption DEF Versions, Items
<1>2. \A g \in Graphs : \A n \in Nodes : g[n] \in Nat
  BY <1>1 DEF Graphs
<1>3. poll \in [Polls -> PollStates]
  BY PollShape
<1>4. \A p \in Polls : poll[p].seen \in Versions /\ poll[p].since \in 0..MaxWrites + 1
                       /\ poll[p].result \in Graphs
  BY <1>3 DEF PollStates
<1>5. \A p \in Polls : poll[p].seen \in Nat /\ poll[p].since \in Nat
  BY <1>1, <1>4
<1> QED  BY <1>1, <1>2, <1>4, <1>5 DEF TypeOK

\* A write stamps what it changes with the time, or leaves the stamp behind.
LEMMA WriteHeeded ==
    ASSUME TypeOK, Heeded, clock' = Now,
           UNCHANGED <<config, snapshot, lastPoll, poll, missed>>,
           \A n \in Nodes :
              \/ graph'[n] = graph[n] /\ stamp'[n] = stamp[n]
              \/ graph'[n] = 0 /\ stamp'[n] \in {stamp[n], 0}
              \/ graph'[n] = Now /\ stamp'[n] \in {stamp[n], Now}
    PROVE  Heeded'
<1>1. /\ clock \in Nat /\ lastPoll \in Nat /\ Now = clock + 1
      /\ \A n \in Nodes : graph[n] \in Nat /\ stamp[n] \in Nat /\ stamp[n] <= clock
      /\ lastPoll <= Now
      /\ \A p \in Polls : poll[p].seen \in Nat /\ poll[p].seen <= clock /\ poll[p].since <= lastPoll
  BY Numbers DEF Heeded, Clocked, Now
<1>2. Clocked'
  <2>1. \A n \in Nodes : stamp'[n] <= clock + 1
    BY <1>1
  <2>2. \A p \in Polls : poll[p].seen <= clock + 1
    BY <1>1
  <2>3. lastPoll <= (clock + 1) + 1
    BY <1>1
  <2> QED  BY <1>1, <2>1, <2>2, <2>3 DEF Clocked, Now
<1>3. \A n \in Nodes : graph'[n] # 0 /\ graph'[n] = stamp'[n] =>
         \/ graph'[n] = graph[n] /\ stamp'[n] = stamp[n]
         \/ stamp'[n] = clock + 1
  BY <1>1
<1>4. Queried'
  <2>1. ASSUME NEW p \in Polls PROVE Answered(poll[p])'
    <3>1. Answered(poll[p]) /\ poll'[p] = poll[p]
      BY DEF Heeded, Queried
    <3>2. poll[p].seen < clock + 1
      BY <1>1
    <3> QED  BY <1>1, <1>3, <3>1, <3>2 DEF Answered
  <2> QED  BY <2>1 DEF Heeded, Queried
<1>5. NothingMissed'
  BY <1>1, <1>3 DEF Heeded, NothingMissed
<1> QED  BY <1>2, <1>4, <1>5 DEF Heeded

\* Polls that ask, are idle or lose their snapshot have answered nothing new.
LEMMA PollsHeeded ==
    ASSUME TypeOK, TypeOK', Heeded,
           UNCHANGED <<config, graph, stamp, clock>>,
           lastPoll' >= lastPoll, lastPoll' <= Now,
           \A p \in Polls :
              \/ /\ poll'[p].seen = 0 /\ poll'[p].since <= lastPoll'
                 /\ poll'[p].kind = "full" => ~config.timestamps
                 /\ poll'[p].kind = "init" => poll'[p].since = 0
              \/ /\ poll'[p].seen = poll[p].seen /\ poll'[p].since = poll[p].since
                 /\ poll'[p].result = poll[p].result /\ poll'[p].kind = poll[p].kind
    PROVE  Clocked' /\ Queried'
<1>1. /\ clock \in Nat /\ lastPoll \in Nat /\ lastPoll' \in Nat
      /\ \A n \in Nodes : graph[n] \in Nat /\ stamp[n] \in Nat /\ stamp[n] <= clock
      /\ \A p \in Polls : /\ poll[p].since \in Nat /\ poll[p].since <= lastPoll
                          /\ poll[p].seen \in Nat /\ poll[p].seen <= clock
  BY Numbers DEF Heeded, Clocked, TypeOK
<1>2. ASSUME NEW p \in Polls
      PROVE  /\ poll'[p].seen <= clock /\ poll'[p].since <= lastPoll'
             /\ Answered(poll[p])'
             /\ poll'[p].kind = "full" => ~config.timestamps
             /\ poll'[p].kind = "init" => poll'[p].since = 0
  <2>0. /\ Answered(poll[p])
        /\ poll[p].kind = "full" => ~config.timestamps
        /\ poll[p].kind = "init" => poll[p].since = 0
    BY DEF Heeded, Queried
  <2>1. CASE /\ poll'[p].seen = 0 /\ poll'[p].since <= lastPoll'
             /\ poll'[p].kind = "full" => ~config.timestamps
             /\ poll'[p].kind = "init" => poll'[p].since = 0
    BY <1>1, <2>1 DEF Answered
  <2>2. CASE /\ poll'[p].seen = poll[p].seen /\ poll'[p].since = poll[p].since
             /\ poll'[p].result = poll[p].result /\ poll'[p].kind = poll[p].kind
    <3>1. poll[p].since <= lastPoll'
      BY <1>1
    <3>2. Answered(poll[p])'
      BY <2>0, <2>2 DEF Answered
    <3> QED  BY <1>1, <2>0, <2>2, <3>1, <3>2
  <2> QED  BY <2>1, <2>2
<1>3. Clocked'
  BY <1>1, <1>2 DEF Clocked, Now
<1> QED  BY <1>2, <1>3 DEF Queried

\* The answer a query gets.
LEMMA RunHeeded ==
    ASSUME TypeOK, Heeded, NEW p \in Polls, Run(p)
    PROVE  Heeded'
<1>1. PICK q \in PollStates, ok \in BOOLEAN :
         /\ poll' = [poll EXCEPT ![p] = q]
         /\ q.kind = poll[p].kind /\ q.since = poll[p].since
         /\ q.seen = IF ~config.timestamps THEN 0
                     ELSE IF ok THEN clock ELSE Max({0, poll[p].since - 1})
         /\ q.result = IF ~ok THEN Empty
                       ELSE IF poll[p].kind = "recent" THEN Since(poll[p].since) ELSE graph
  BY RunShape
<1>2. UNCHANGED <<config, graph, stamp, clock, snapshot, lastPoll, missed>>
  BY DEF Run, history
<1>3. /\ clock \in Nat /\ lastPoll \in Nat /\ lastPoll <= clock + 1
      /\ \A n \in Nodes : graph[n] \in Nat /\ stamp[n] \in Nat /\ stamp[n] <= clock
      /\ poll[p].since \in Nat /\ poll[p].since <= lastPoll
  BY Numbers DEF Heeded, Clocked, Now
<1> DEFINE cap == Max({0, poll[p].since - 1})
<1>4. cap \in Nat /\ cap \in {0, poll[p].since - 1}
  BY <1>3, MaxWithZero
<1> HIDE DEF cap
<1>5. q.seen <= clock
  BY <1>1, <1>3, <1>4 DEF cap
<1>6. \A n \in Nodes : n \in Items
  BY DEF Items
<1>7. Answered(q)
  <2>1. SUFFICES ASSUME NEW n \in Nodes, graph[n] # 0, graph[n] = stamp[n], stamp[n] <= q.seen
                 PROVE  /\ q.result[n] \in {0, graph[n]}
                        /\ stamp[n] >= q.since => q.result[n] = graph[n]
    BY DEF Answered
  <2>2. config.timestamps
    BY <1>1, <1>3, <2>1
  <2>3. CASE ~ok
    <3>1. q.result[n] = 0
      BY <1>1, <1>6, <2>3 DEF Empty
    <3>2. stamp[n] <= poll[p].since - 1
      BY <1>1, <1>3, <1>4, <2>1, <2>2, <2>3 DEF cap
    <3> QED  BY <1>1, <1>3, <3>1, <3>2
  <2>4. CASE ok /\ poll[p].kind = "recent"
    <3>1. q.result = Since(poll[p].since)
      BY <1>1, <2>4
    <3>2. q.result[n] \in {0, graph[n]}
      BY <1>6, <3>1 DEF Since
    <3>3. stamp[n] >= poll[p].since => q.result[n] = graph[n]
      BY <1>6, <2>1, <3>1 DEF Since
    <3> QED  BY <1>1, <3>2, <3>3
  <2>5. CASE ok /\ poll[p].kind # "recent"
    BY <1>1, <2>5
  <2> QED  BY <2>3, <2>4, <2>5
<1>8. \A r \in Polls : poll'[r] = IF r = p THEN q ELSE poll[r]
  BY <1>1, PollShape
<1>9. Clocked'
  BY <1>1, <1>2, <1>5, <1>8 DEF Heeded, Clocked, Now
<1>10. Queried'
  <2>1. ASSUME NEW r \in Polls PROVE Answered(poll[r])'
    <3>1. Answered(poll[r])
      BY DEF Heeded, Queried
    <3> QED  BY <1>2, <1>7, <1>8, <3>1 DEF Answered
  <2> QED  BY <1>1, <1>2, <1>8, <2>1 DEF Heeded, Queried
<1>11. NothingMissed'
  BY <1>2 DEF Heeded, NothingMissed
<1> QED  BY <1>9, <1>10, <1>11 DEF Heeded

\* What an answer that goes into the snapshot leaves out is overlooked or missed.
LEMMA RecentMisses ==
    ASSUME TypeOK, Heeded, NEW p \in Polls, poll[p].kind = "recent", poll[p].own,
           config.timestamps, snapshot # None,
           NEW n \in Nodes, graph[n] # 0, graph[n] = stamp[n],
           graph[n] # LastOf(snapshot, poll[p].result)[n]
    PROVE  n \in missed \cup Overlooked(poll[p])
<1> DEFINE q == poll[p]
<1>1. /\ graph[n] \in Nat /\ stamp[n] \in Nat /\ q.seen \in Nat /\ q.since \in Nat /\ lastPoll \in Nat
      /\ q.result[n] \in Nat /\ q.since <= lastPoll
  BY Numbers DEF Heeded, Clocked
<1>2. LastOf(snapshot, q.result)[n] = IF q.result[n] # 0 THEN q.result[n] ELSE snapshot[n]
  BY DEF LastOf, Items
<1>3. CASE stamp[n] > q.seen
  BY <1>3 DEF Overlooked
<1>4. CASE ~(stamp[n] > q.seen)
  <2>1. /\ q.result[n] \in {0, graph[n]}
        /\ stamp[n] >= q.since => q.result[n] = graph[n]
    BY <1>1, <1>4 DEF Heeded, Queried, Answered
  <2>2. q.result[n] = 0 /\ graph[n] # snapshot[n]
    BY <1>2, <2>1
  <2>3. stamp[n] < q.since
    BY <1>1, <2>1, <2>2
  <2>4. stamp[n] >= lastPoll \/ n \in missed
    BY <2>2 DEF Heeded, NothingMissed
  <2> QED  BY <1>1, <2>3, <2>4
<1> QED  BY <1>3, <1>4

\* What the answer to a first query leaves out is overlooked.
LEMMA InitMisses ==
    ASSUME TypeOK, Heeded, NEW p \in Polls, poll[p].kind = "init",
           NEW n \in Nodes, graph[n] # 0, graph[n] = stamp[n], graph[n] # poll[p].result[n]
    PROVE  n \in Overlooked(poll[p])
<1>1. stamp[n] \in Nat /\ poll[p].seen \in Nat /\ poll[p].since = 0
  BY Numbers DEF Heeded, Queried
<1>2. stamp[n] > poll[p].seen
  BY <1>1 DEF Heeded, Queried, Answered
<1> QED  BY <1>2 DEF Overlooked

\* The polls that go on when one is through.
LEMMA FinishPolls ==
    ASSUME Shape, Shape', Heeded, NEW p \in Polls,
           UNCHANGED <<config, graph, stamp, clock>>, lastPoll' \in {lastPoll, Now},
           \/ poll' = [poll EXCEPT ![p] = Idle]
           \/ poll' = [r \in Polls |-> IF r = p THEN Idle ELSE Disown(poll[r])]
    PROVE  Clocked' /\ Queried'
<1>1. /\ TypeOK /\ TypeOK' /\ poll \in [Polls -> PollStates]
      /\ lastPoll \in Nat /\ lastPoll <= Now /\ Now \in Nat
  BY PollShape, Numbers DEF Shape, Heeded, Clocked, Now
<1>2. \A r \in Polls :
         /\ Disown(poll[r]).seen = poll[r].seen /\ Disown(poll[r]).since = poll[r].since
         /\ Disown(poll[r]).result = poll[r].result /\ Disown(poll[r]).kind = poll[r].kind
  <2> TAKE r \in Polls
  <2>1. poll[r] \in PollStates /\ (poll[r].own => snapshot \in Graphs)
    BY <1>1 DEF Shape, TypeOK, Owned
  <2> QED  BY <2>1, DisownShape
<1>3. Idle.seen = 0 /\ Idle.since = 0 /\ Idle.kind = "init"
  BY DEF Idle
<1>4. lastPoll' >= lastPoll /\ lastPoll' <= Now /\ 0 <= lastPoll'
  BY <1>1
<1>5. \A r \in Polls :
         \/ /\ poll'[r].seen = 0 /\ poll'[r].since <= lastPoll'
            /\ poll'[r].kind = "full" => ~config.timestamps
            /\ poll'[r].kind = "init" => poll'[r].since = 0
         \/ /\ poll'[r].seen = poll[r].seen /\ poll'[r].since = poll[r].since
            /\ poll'[r].result = poll[r].result /\ poll'[r].kind = poll[r].kind
  BY <1>1, <1>2, <1>3, <1>4
<1> QED  BY <1>1, <1>4, <1>5, PollsHeeded

\* Every operation keeps what is heeded.
LEMMA HeededKept == Shape /\ Heeded /\ [Next]_vars => Heeded'
<1> SUFFICES ASSUME Shape, Heeded, [Next]_vars PROVE Heeded'
  OBVIOUS
<1>0. TypeOK /\ Owned /\ Shape' /\ TypeOK'
  BY ShapeKept DEF Shape
<1> USE <1>0
<1>1. ASSUME UNCHANGED <<config, graph, stamp, clock, snapshot, lastPoll, poll, missed>> PROVE Heeded'
  BY <1>1 DEF Heeded, Clocked, Queried, Answered, NothingMissed, Now
<1>2. ASSUME NEW n \in Nodes, NEW stamped \in BOOLEAN, Put(n, stamped) PROVE Heeded'
  <2>1. /\ clock' = Now
        /\ UNCHANGED <<config, snapshot, lastPoll, poll, missed>>
        /\ graph' = [graph EXCEPT ![n] = Now]
        /\ stamp' = stamp \/ stamp' = [stamp EXCEPT ![n] = Now]
    BY <1>2 DEF Put, detector, history
  <2>2. \A m \in Nodes :
           \/ graph'[m] = graph[m] /\ stamp'[m] = stamp[m]
           \/ graph'[m] = Now /\ stamp'[m] \in {stamp[m], Now}
    BY <2>1 DEF TypeOK, Graphs, Items
  <2> QED  BY <2>1, <2>2, WriteHeeded
<1>3. ASSUME NEW e \in Edges, Link(e) PROVE Heeded'
  <2>1. /\ clock' = Now
        /\ UNCHANGED <<config, stamp, snapshot, lastPoll, poll, missed>>
        /\ graph' = [graph EXCEPT ![e] = Now]
    BY <1>3 DEF Link, detector, history
  <2>2. \A m \in Nodes : graph'[m] = graph[m] /\ stamp'[m] = stamp[m]
    BY <2>1, EndsAssumption DEF TypeOK, Graphs, Items
  <2> QED  BY <2>1, <2>2, WriteHeeded
<1>4. ASSUME NEW i \in Items, Delete(i) PROVE Heeded'
  <2>1. /\ clock' = Now
        /\ UNCHANGED <<config, snapshot, lastPoll, poll, missed>>
        /\ graph' = [j \in Items |-> IF j = i \/ j \in Attached({i} \cap Nodes) THEN 0 ELSE graph[j]]
        /\ stamp' = [n \in Nodes |-> IF n = i THEN 0 ELSE stamp[n]]
    BY <1>4 DEF Delete, detector, history
  <2>2. \A m \in Nodes : m \in Items /\ m \notin Attached({i} \cap Nodes)
    BY EndsAssumption DEF Items, Attached
  <2>3. \A m \in Nodes :
           \/ graph'[m] = graph[m] /\ stamp'[m] = stamp[m]
           \/ graph'[m] = 0 /\ stamp'[m] \in {stamp[m], 0}
    BY <2>1, <2>2
  <2> QED  BY <2>1, <2>3, WriteHeeded
<1>5. ASSUME UNCHANGED <<config, graph, stamp, clock, snapshot, lastPoll, missed>>,
             NEW p \in Polls, NEW kind \in {"init", "full", "recent"},
             poll' = [poll EXCEPT ![p] = Asked(kind)],
             kind = "full" => snapshot # None /\ ~config.timestamps
      PROVE  Heeded'
  <2>1. /\ Asked(kind).seen = 0 /\ Asked(kind).kind = kind
        /\ Asked(kind).since = IF kind = "recent" THEN lastPoll ELSE 0
    BY <1>5, AskedShape
  <2>2. lastPoll \in Nat /\ lastPoll <= Now
    BY Numbers DEF Heeded, Clocked
  <2>3. \A r \in Polls : poll'[r] = IF r = p THEN Asked(kind) ELSE poll[r]
    BY <1>5, PollShape
  <2>4. Asked(kind).since <= lastPoll
    BY <2>1, <2>2
  <2>5. \A r \in Polls :
           \/ /\ poll'[r].seen = 0 /\ poll'[r].since <= lastPoll'
              /\ poll'[r].kind = "full" => ~config.timestamps
              /\ poll'[r].kind = "init" => poll'[r].since = 0
           \/ /\ poll'[r].seen = poll[r].seen /\ poll'[r].since = poll[r].since
              /\ poll'[r].result = poll[r].result /\ poll'[r].kind = poll[r].kind
    BY <1>5, <2>1, <2>3, <2>4
  <2>6. lastPoll' >= lastPoll /\ lastPoll' <= Now
    BY <1>5, <2>2
  <2>7. Clocked' /\ Queried'
    BY <1>5, <2>5, <2>6, PollsHeeded
  <2> QED  BY <1>5, <2>7 DEF Heeded, NothingMissed
<1>6. ASSUME NEW v \in Viewers, Subscribe(v) PROVE Heeded'
  <2>1. UNCHANGED <<config, graph, stamp, clock, snapshot, lastPoll, missed>>
    BY <1>6 DEF Subscribe
  <2>2. CASE UNCHANGED poll
    BY <1>1, <2>1, <2>2
  <2>3. CASE \E p \in Polls : poll' = [poll EXCEPT ![p] = Asked("init")]
    BY <1>5, <2>1, <2>3
  <2> QED  BY <1>6, <2>2, <2>3 DEF Subscribe
<1>7. ASSUME NEW v \in Viewers, Unsubscribe(v) PROVE Heeded'
  <2>1. UNCHANGED <<config, graph, stamp, clock, lastPoll, missed>>
    BY <1>7 DEF Unsubscribe
  <2>2. CASE UNCHANGED <<snapshot, poll>>
    BY <1>1, <2>1, <2>2
  <2>3. CASE snapshot' = None /\ poll' = [r \in Polls |-> Disown(poll[r])]
    <3>1. \A r \in Polls :
             /\ poll'[r].seen = poll[r].seen /\ poll'[r].since = poll[r].since
             /\ poll'[r].result = poll[r].result /\ poll'[r].kind = poll[r].kind
      <4> TAKE r \in Polls
      <4>1. poll[r] \in PollStates /\ (poll[r].own => snapshot \in Graphs)
        BY PollShape DEF TypeOK, Owned
      <4> QED  BY <2>3, <4>1, DisownShape
    <3>2. lastPoll' >= lastPoll /\ lastPoll' <= Now
      BY <2>1, Numbers DEF Heeded, Clocked
    <3>3. Clocked' /\ Queried'
      BY <2>1, <3>1, <3>2, PollsHeeded
    <3> QED  BY <2>3, <3>3 DEF Heeded, NothingMissed
  <2> QED  BY <1>7, <2>2, <2>3 DEF Unsubscribe
<1>8. ASSUME NEW p \in Polls, Start(p) PROVE Heeded'
  <2>1. /\ UNCHANGED <<config, graph, stamp, clock, snapshot, lastPoll, missed>>
        /\ poll' = [poll EXCEPT ![p] = Asked(Kind)]
    BY <1>8 DEF Start, history
  <2>2. /\ Kind \in {"init", "full", "recent"}
        /\ Kind = "full" => snapshot # None /\ ~config.timestamps
    BY DEF Kind
  <2> HIDE DEF Kind
  <2> QED  BY <1>5, <2>1, <2>2
<1>9. ASSUME NEW p \in Polls, Run(p) PROVE Heeded'
  BY <1>9, RunHeeded
<1>10. ASSUME NEW p \in Polls, FinishInit(p) PROVE Heeded'
  <2>1. /\ poll[p].kind = "init" /\ snapshot' = poll[p].result
        /\ Note(poll[p], poll[p].result)
        /\ poll' = [r \in Polls |-> IF r = p THEN Idle ELSE Disown(poll[r])]
        /\ UNCHANGED <<config, graph, stamp, clock>>
    BY <1>10 DEF FinishInit
  <2>2. lastPoll' = Now
    BY <2>1 DEF Note
  <2>3. Clocked' /\ Queried'
    BY <2>1, <2>2, FinishPolls
  <2>4. NothingMissed'
    <3>1. SUFFICES ASSUME config.timestamps, NEW n \in Nodes, graph[n] # snapshot'[n], graph[n] # 0,
                          graph[n] = stamp[n]
                   PROVE  n \in missed'
      BY <2>1 DEF NothingMissed
    <3>2. poll[p].result # None
      BY PollShape, VersionFacts DEF PollStates
    <3>3. n \in Overlooked(poll[p])
      BY <2>1, <3>1, InitMisses
    <3> QED  BY <2>1, <3>1, <3>2, <3>3 DEF Note
  <2> QED  BY <2>3, <2>4 DEF Heeded
<1>11. ASSUME NEW p \in Polls, FinishRecent(p) PROVE Heeded'
  <2>1. /\ poll[p].kind = "recent"
        /\ snapshot' = IF poll[p].own THEN LastOf(snapshot, poll[p].result) ELSE snapshot
        /\ Note(poll[p], snapshot')
        /\ poll' = [poll EXCEPT ![p] = Idle]
        /\ UNCHANGED <<config, graph, stamp, clock>>
    BY <1>11 DEF FinishRecent
  <2>2. lastPoll' = Now
    BY <2>1 DEF Note
  <2>3. Clocked' /\ Queried'
    BY <2>1, <2>2, FinishPolls
  <2>4. NothingMissed'
    <3>1. SUFFICES ASSUME config.timestamps, snapshot' # None, NEW n \in Nodes,
                          graph[n] # snapshot'[n], graph[n] # 0, graph[n] = stamp[n]
                   PROVE  n \in missed'
      BY <2>1 DEF NothingMissed
    <3>2. n \in missed \cup Overlooked(poll[p])
      <4>1. CASE poll[p].own
        <5>1. snapshot # None
          BY <4>1 DEF Owned
        <5> QED  BY <2>1, <3>1, <4>1, <5>1, RecentMisses
      <4>2. CASE ~poll[p].own
        <5>1. stamp[n] >= lastPoll \/ n \in missed
          BY <2>1, <3>1, <4>2 DEF Heeded, NothingMissed
        <5>2. /\ poll[p].since <= lastPoll /\ poll[p].since \in Nat /\ lastPoll \in Nat
              /\ stamp[n] \in Nat
          BY Numbers DEF Heeded, Clocked
        <5>3. stamp[n] >= lastPoll => stamp[n] >= poll[p].since
          BY <5>2
        <5> QED  BY <2>1, <4>2, <5>1, <5>3 DEF Overlooked
      <4> QED  BY <4>1, <4>2
    <3> QED  BY <2>1, <3>1, <3>2 DEF Note
  <2> QED  BY <2>3, <2>4 DEF Heeded
<1>12. ASSUME NEW p \in Polls, FinishFull(p) PROVE Heeded'
  <2>1. /\ poll[p].kind = "full" /\ poll' = [poll EXCEPT ![p] = Idle]
        /\ UNCHANGED <<config, graph, stamp, clock, lastPoll, missed>>
    BY <1>12 DEF FinishFull
  <2>2. Clocked' /\ Queried'
    BY <2>1, FinishPolls
  <2>3. ~config.timestamps
    BY <2>1 DEF Heeded, Queried
  <2> QED  BY <2>1, <2>2, <2>3 DEF Heeded, NothingMissed
<1>13. CASE Emit \/ Quiet \/ UNCHANGED vars
  <2>1. UNCHANGED <<config, graph, stamp, clock, snapshot, lastPoll, poll, missed>>
    BY <1>13 DEF Emit, Quiet, vars, detector, history
  <2> QED  BY <1>1, <2>1
<1> QED  BY <1>2, <1>3, <1>4, <1>6, <1>7, <1>8, <1>9, <1>10, <1>11, <1>12, <1>13 DEF Next

\* At first nothing has been asked.
LEMMA HeededInit == Init => Heeded
<1> SUFFICES ASSUME Init PROVE Heeded
  OBVIOUS
<1>1. \A n \in Nodes : n \in Items /\ stamp[n] = graph[n] /\ graph[n] \in {0, 1}
  BY DEF Init, Items
<1>2. Clocked
  <2>1. \A n \in Nodes : stamp[n] <= clock
    BY <1>1 DEF Init
  <2> QED  BY <2>1 DEF Init, Clocked, Now, Idle
<1>3. Queried
  BY <1>1 DEF Init, Queried, Answered, Idle
<1>4. NothingMissed
  BY DEF Init, NothingMissed
<1> QED  BY <1>2, <1>3, <1>4 DEF Heeded

\* A change with a timestamp that is not in the snapshot will be asked for by the
\* next poll, but for the known gaps (graphChangeDetector.ts: lastPollTimestamps
\* is noted after the answer, queryFn turns errors into empty graphs).
THEOREM ChangesAreAskedFor == Spec => []NothingMissed
<1>1. Init => Shape /\ Heeded
  BY ShapeInit, HeededInit
<1>2. Shape /\ Heeded /\ [Next]_vars => (Shape /\ Heeded)'
  BY ShapeKept, HeededKept
<1>3. Spec => [](Shape /\ Heeded)
  BY <1>1, <1>2, PTL DEF Spec
<1>4. Shape /\ Heeded => NothingMissed
  BY DEF Heeded
<1> QED  BY <1>3, <1>4, PTL

-----------------------------------------------------------------------------
(* What a page shows, and the patches that wait, add up.                    *)

\* A view is in step with a snapshot: where it is not astray, applying the patches
\* that wait makes it the snapshot, and their updates are of items it has by then.
InStep(view, strays, b, snap) ==
    \A i \in Items \ (strays \cup Jumbled(b)) :
        Backed(view[i], b, i) /\ After(view[i], b, i) = snap[i]

\* Joining a patch to those that wait keeps a view in step.
LEMMA InStepJoin ==
    ASSUME NEW b \in Patches, NEW c \in Patches, NEW view \in Graphs, NEW old \in Graphs,
           NEW new \in Graphs, NEW strays, NEW off,
           InStep(view, strays, b, old),
           \A i \in Items \ off : Carries(c, i, old[i], new[i])
    PROVE  InStep(view, strays \cup off, Join(b, c), new)
<1>1. SUFFICES ASSUME NEW i \in Items \ (strays \cup off \cup Jumbled(Join(b, c)))
               PROVE  Backed(view[i], Join(b, c), i) /\ After(view[i], Join(b, c), i) = new[i]
  BY DEF InStep
<1>2. view[i] \in Nat /\ new[i] \in Nat
  BY VersionFacts DEF Graphs
<1>3. i \notin Jumbled(b)
  BY JoinedPatch
<1>4. Backed(view[i], b, i) /\ After(view[i], b, i) = old[i]
  BY <1>3 DEF InStep
<1> QED  BY <1>2, <1>4, JoinCarries

\* A patch leaves alone what already is as it brings it.
Settles(c, i, new) ==
    \/ i \notin Touched(c)
    \/ i \in Gone(c) /\ new = 0 /\ c.added[i] = 0
    \/ i \notin Gone(c) /\ new # 0 /\ c.added[i] \in {0, new} /\ c.updated[i] \in {0, new}

\* What a patch brings about, it leaves alone afterwards.
LEMMA CarriesSettles == \A c, i, old, new : Carries(c, i, old, new) => Settles(c, i, new)
  BY DEF Carries, Settles

\* A patch brings a page from the old version to the new one.
LEMMA CarriesApplied ==
    ASSUME NEW c \in Patches, NEW i \in Items, NEW old \in Nat, NEW new \in Nat,
           Carries(c, i, old, new)
    PROVE  After(old, c, i) = new /\ (i \notin Touched(c) => new = old)
<1>1. /\ i \notin Touched(c) => c.added[i] = 0 /\ c.updated[i] = 0 /\ i \notin Gone(c)
      /\ c.added[i] \in Nat /\ c.updated[i] \in Nat
  BY UntouchedStays, VersionFacts DEF Patches, Graphs
<1>2. i \notin Touched(c) => new = old
  BY <1>1 DEF Carries
<1>3. CASE i \notin Touched(c)
  BY <1>2, <1>3, UntouchedStays
<1>4. CASE i \in Touched(c)
  BY <1>1, <1>4 DEF Carries, After
<1> QED  BY <1>2, <1>3, <1>4

\* Applying a patch to what is settled changes nothing.
LEMMA SettledApplied ==
    ASSUME NEW c \in Patches, NEW i \in Items, NEW new \in Nat, Settles(c, i, new)
    PROVE  After(new, c, i) = new
<1>1. CASE i \notin Touched(c)
  BY <1>1, UntouchedStays
<1>2. CASE i \in Touched(c)
  <2>1. c.added[i] \in Nat /\ c.updated[i] \in Nat
    BY VersionFacts DEF Patches, Graphs
  <2> QED  BY <1>2, <2>1 DEF Settles, After
<1> QED  BY <1>1, <1>2

\* A page that has just loaded the snapshot is in step, but for what waits from
\* before.
LEMMA InStepFresh ==
    ASSUME NEW b \in Patches, NEW view \in Graphs, NEW strays, Touched(b) \subseteq strays
    PROVE  InStep(view, strays, b, view)
<1>1. SUFFICES ASSUME NEW i \in Items \ strays
               PROVE  Backed(view[i], b, i) /\ After(view[i], b, i) = view[i]
  BY DEF InStep
<1>2. view[i] \in Nat /\ i \in Items \ Touched(b)
  BY VersionFacts DEF Graphs
<1> QED  BY <1>2, UntouchedStays DEF Backed

\* So it is once the patch it already contains waits too.
LEMMA InStepFreshJoin ==
    ASSUME NEW b \in Patches, NEW c \in Patches, NEW new \in Graphs, NEW strays,
           Touched(b) \subseteq strays, \A i \in Items \ strays : Settles(c, i, new[i])
    PROVE  InStep(new, strays, Join(b, c), new)
<1>1. SUFFICES ASSUME NEW i \in Items \ (strays \cup Jumbled(Join(b, c)))
               PROVE  Backed(new[i], Join(b, c), i) /\ After(new[i], Join(b, c), i) = new[i]
  BY DEF InStep
<1>2. new[i] \in Nat /\ i \in Items \ Touched(b)
  BY VersionFacts DEF Graphs
<1>3. b.added[i] = 0 /\ b.updated[i] = 0 /\ i \notin Gone(b)
  BY <1>2, UntouchedStays
<1>4. /\ i \in Gone(Join(b, c)) <=> i \in Gone(c)
      /\ Join(b, c).added[i] = c.added[i] /\ Join(b, c).updated[i] = c.updated[i]
  BY <1>3, JoinedPatch
<1>5. After(new[i], Join(b, c), i) = After(new[i], c, i)
  BY <1>4 DEF After
<1>6. After(new[i], c, i) = new[i]
  BY <1>2, SettledApplied
<1>7. Backed(new[i], Join(b, c), i)
  <2>1. Settles(c, i, new[i])
    OBVIOUS
  <2>2. CASE i \notin Touched(c)
    BY <1>4, <2>2, UntouchedStays, <1>2 DEF Backed
  <2>3. CASE i \in Touched(c)
    BY <1>4, <2>1, <2>3 DEF Settles, Backed
  <2> QED  BY <2>2, <2>3
<1> QED  BY <1>5, <1>6, <1>7

\* When nothing waits, being in step is showing the snapshot.
LEMMA InStepBare ==
    ASSUME NEW b \in Patches, Touched(b) = {}, NEW view \in Graphs, NEW strays, NEW snap
    PROVE  InStep(view, strays, b, snap) <=> \A i \in Items \ strays : view[i] = snap[i]
<1>1. Jumbled(b) = {}
  BY DEF Jumbled, Touched, Patches, Attached, Items
<1>2. \A i \in Items : view[i] \in Nat /\ Backed(view[i], b, i) /\ After(view[i], b, i) = view[i]
  <2> TAKE i \in Items
  <2>1. view[i] \in Nat
    BY VersionFacts DEF Graphs
  <2> QED  BY <2>1, UntouchedStays DEF Backed
<1> QED  BY <1>1, <1>2 DEF InStep

\* What is in step stays so where only the snapshot changed, and where more is astray.
LEMMA InStepElsewhere ==
    ASSUME NEW b, NEW view, NEW strays, NEW more, NEW old, NEW new,
           InStep(view, strays, b, old), \A i \in Items \ more : new[i] = old[i]
    PROVE  InStep(view, strays \cup more, b, new)
  BY DEF InStep

\* The graph and the answers to full queries are whole.
Entire == Whole(graph) /\ \A p \in Polls : poll[p].kind = "full" => Whole(poll[p].result)

\* Pages wait for the first snapshot, and are in step from then on; patches wait
\* only where they are collected.
Served ==
    /\ snapshot = None => \A v \in Listening : told[v] = None
    /\ snapshot # None =>
          \A v \in Listening : told[v] # None /\ InStep(told[v], astray[v], batch, snapshot)
    /\ ~config.batching => Touched(batch) = {}

\* The graph has no edge without its nodes, and no more have the answers.
LEMMA EntireKept == Shape /\ Entire /\ [Next]_vars => Entire'
<1> SUFFICES ASSUME Shape, Entire, [Next]_vars PROVE Entire'
  OBVIOUS
<1>0. /\ TypeOK /\ poll \in [Polls -> PollStates]
      /\ \A e \in Edges : Source[e] \in Nodes /\ Target[e] \in Nodes /\ e \in Items /\ e \notin Nodes
      /\ Nodes \subseteq Items
  BY PollShape, EndsAssumption DEF Shape, Items
<1>1. ASSUME UNCHANGED <<graph, poll>> PROVE Entire'
  BY <1>1 DEF Entire, Whole
<1>2. ASSUME Whole(graph'), UNCHANGED poll PROVE Entire'
  BY <1>2 DEF Entire
<1>3. ASSUME UNCHANGED graph,
             \A p \in Polls : poll'[p].kind = "full" =>
                \/ poll'[p].result = Empty \/ poll'[p].result = graph
                \/ poll[p].kind = "full" /\ poll'[p].result = poll[p].result
      PROVE  Entire'
  <2>1. Whole(Empty)
    BY <1>0 DEF Whole, Empty
  <2>2. Whole(graph)
    BY DEF Entire
  <2>3. \A p \in Polls : poll'[p].kind = "full" => Whole(poll'[p].result)
    BY <1>3, <2>1, <2>2 DEF Entire
  <2> QED  BY <1>3, <2>2, <2>3 DEF Entire
<1>4. ASSUME NEW n \in Nodes, NEW stamped \in BOOLEAN, Put(n, stamped) PROVE Entire'
  <2>1. graph' = [graph EXCEPT ![n] = Now] /\ UNCHANGED poll
    BY <1>4 DEF Put, detector
  <2>2. Now # 0 /\ \A i \in Items : graph'[i] = IF i = n THEN Now ELSE graph[i]
    BY <1>0, <2>1, Numbers DEF TypeOK, Graphs, Now
  <2>3. Whole(graph')
    BY <1>0, <2>2 DEF Entire, Whole
  <2> QED  BY <1>2, <2>1, <2>3
<1>5. ASSUME NEW e \in Edges, Link(e) PROVE Entire'
  <2>1. graph' = [graph EXCEPT ![e] = Now] /\ UNCHANGED poll /\ graph[Source[e]] # 0 /\ graph[Target[e]] # 0
    BY <1>5 DEF Link, detector
  <2>2. \A i \in Items : graph'[i] = IF i = e THEN Now ELSE graph[i]
    BY <2>1 DEF TypeOK, Graphs, Shape
  <2>3. Whole(graph')
    BY <1>0, <2>1, <2>2 DEF Entire, Whole
  <2> QED  BY <1>2, <2>1, <2>3
<1>6. ASSUME NEW i \in Items, Delete(i) PROVE Entire'
  <2>1. /\ graph' = [j \in Items |-> IF j = i \/ j \in Attached({i} \cap Nodes) THEN 0 ELSE graph[j]]
        /\ UNCHANGED poll
    BY <1>6 DEF Delete, detector
  <2>2. Whole(graph')
    <3>1. SUFFICES ASSUME NEW e \in Edges, graph'[e] # 0
                   PROVE  graph'[Source[e]] # 0 /\ graph'[Target[e]] # 0
      BY DEF Whole
    <3>2. e # i /\ e \notin Attached({i} \cap Nodes) /\ graph[e] # 0
      BY <1>0, <2>1, <3>1
    <3>3. Source[e] # i /\ Target[e] # i
      BY <1>0, <3>2 DEF Attached
    <3>4. graph[Source[e]] # 0 /\ graph[Target[e]] # 0
      BY <3>2 DEF Entire, Whole
    <3> QED  BY <1>0, <2>1, <3>3, <3>4 DEF Attached
  <2> QED  BY <1>2, <2>1, <2>2
<1>7. ASSUME NEW p \in Polls, NEW kind \in {"init", "full", "recent"},
             kind = "full" => snapshot # None, poll' = [poll EXCEPT ![p] = Asked(kind)], UNCHANGED graph
      PROVE  Entire'
  <2>1. Asked(kind).result = Empty
    BY <1>0, <1>7, AskedShape
  <2> QED  BY <1>0, <1>3, <1>7, <2>1
<1>8. ASSUME NEW v \in Viewers, Subscribe(v) PROVE Entire'
  <2>1. UNCHANGED graph /\ (UNCHANGED poll \/ \E p \in Polls : poll' = [poll EXCEPT ![p] = Asked("init")])
    BY <1>8 DEF Subscribe
  <2> QED  BY <1>1, <1>7, <2>1
<1>9. \A r \in Polls : Disown(poll[r]).kind = poll[r].kind /\ Disown(poll[r]).result = poll[r].result
  <2> TAKE r \in Polls
  <2>1. poll[r] \in PollStates /\ (poll[r].own => snapshot \in Graphs)
    BY <1>0 DEF Shape, TypeOK, Owned
  <2> QED  BY <2>1, DisownShape
<1>10. Idle.kind = "init"
  BY DEF Idle
<1>11. ASSUME NEW v \in Viewers, Unsubscribe(v) PROVE Entire'
  <2>1. UNCHANGED graph /\ (UNCHANGED poll \/ poll' = [r \in Polls |-> Disown(poll[r])])
    BY <1>11 DEF Unsubscribe
  <2> QED  BY <1>1, <1>3, <1>9, <2>1
<1>12. ASSUME NEW p \in Polls, Start(p) PROVE Entire'
  <2>1. UNCHANGED graph /\ poll' = [poll EXCEPT ![p] = Asked(Kind)]
    BY <1>12 DEF Start
  <2>2. Kind \in {"init", "full", "recent"} /\ (Kind = "full" => snapshot # None)
    BY DEF Kind
  <2> HIDE DEF Kind
  <2> QED  BY <1>7, <2>1, <2>2
<1>13. ASSUME NEW p \in Polls, Run(p) PROVE Entire'
  <2>1. UNCHANGED graph
    BY <1>13 DEF Run
  <2>2. PICK q \in PollStates, ok \in BOOLEAN :
           /\ poll' = [poll EXCEPT ![p] = q]
           /\ q.kind = poll[p].kind
           /\ q.result = IF ~ok THEN Empty
                         ELSE IF poll[p].kind = "recent" THEN Since(poll[p].since) ELSE graph
    <3>1. TypeOK
      BY <1>0
    <3> QED  BY ONLY <3>1, <1>13, RunShape, p \in Polls
  <2>3. q.kind = "full" => q.result \in {Empty, graph}
    BY <2>2
  <2>4. \A r \in Polls : poll'[r] = IF r = p THEN q ELSE poll[r]
    BY <1>0, <2>2
  <2> QED  BY <1>3, <2>1, <2>3, <2>4
<1>14. ASSUME NEW p \in Polls, FinishInit(p) PROVE Entire'
  <2>1. UNCHANGED graph /\ poll' = [r \in Polls |-> IF r = p THEN Idle ELSE Disown(poll[r])]
    BY <1>14 DEF FinishInit
  <2> QED  BY <1>3, <1>9, <1>10, <2>1
<1>15. ASSUME NEW p \in Polls, FinishRecent(p) \/ FinishFull(p) PROVE Entire'
  <2>1. UNCHANGED graph /\ poll' = [poll EXCEPT ![p] = Idle]
    BY <1>15 DEF FinishRecent, FinishFull
  <2>2. \A r \in Polls : poll'[r] = IF r = p THEN Idle ELSE poll[r]
    BY <1>0, <2>1
  <2> QED  BY <1>3, <1>10, <2>1, <2>2
<1>16. CASE Emit \/ Quiet \/ UNCHANGED vars
  BY <1>1, <1>16 DEF Emit, Quiet, vars, detector
<1> QED  BY <1>4, <1>5, <1>6, <1>8, <1>11, <1>12, <1>13, <1>14, <1>15, <1>16 DEF Next

\* What pages show once a patch is published (emitPatchWithBatching): whatever they
\* are not misled about by it is brought from the old snapshot to the new one.
LEMMA PublishServed ==
    ASSUME Shape, Served, NEW patch \in Patches, NEW old \in Graphs, NEW new \in Graphs,
           NEW off \in SUBSET Items,
           Publish(patch, new, off),
           snapshot' = new, UNCHANGED <<config, listeners>>,
           snapshot # None => \A i \in Items \ off : snapshot[i] = old[i],
           \A i \in Items \ (off \cup (Touched(patch) \ Touched(Cap(patch)))) :
              Carries(Cap(patch), i, old[i], new[i])
    PROVE  Served'
<1> DEFINE cut == Cap(patch)
           strays == off \cup (Touched(patch) \ Touched(cut))
                         \cup (IF snapshot = None THEN Touched(batch) ELSE {})
           shown == Loaded(new)
<1>1. /\ cut \in Patches /\ batch \in Patches /\ new # None
      /\ Touched(cut) \subseteq Touched(patch)
      /\ told \in [Viewers -> Graphs \cup {None}] /\ Listening \subseteq Viewers
  <2>1. Listening \subseteq Viewers
    BY ElementOfSeq, LenProperties DEF Shape, TypeOK, Listening, ToSet
  <2> QED  BY <2>1, CapCuts, CutTouches, VersionFacts DEF Shape, TypeOK
<1>2. \/ /\ Touched(patch) = {} \/ config.batching
         /\ batch' = Join(batch, cut)
         /\ Show(shown, [v \in Viewers |-> strays])
      \/ /\ ~config.batching /\ batch' = batch /\ Deliver(cut, shown, strays)
  BY DEF Publish
<1>3. \A i \in Items \ strays : Carries(cut, i, old[i], new[i]) /\ Settles(cut, i, new[i])
  BY CarriesSettles
<1>4. snapshot = None => Touched(batch) \subseteq strays
  OBVIOUS
<1>5. snapshot # None => \A i \in Items \ strays : snapshot[i] = old[i]
  OBVIOUS
<1>6. \A v \in Listening : shown[v] = IF snapshot = None THEN new ELSE told[v]
  BY <1>1 DEF Served, Loaded
<1>7. Listening' = Listening
  BY DEF Listening
<1> HIDE DEF cut, strays, shown
<1>8. SUFFICES /\ \A v \in Listening : told'[v] # None /\ InStep(told'[v], astray'[v], batch', new)
               /\ ~config.batching => Touched(batch') = {}
  BY <1>1, <1>7 DEF Served
<1>9. \A v \in Listening : shown[v] \in Graphs
  <2>1. ASSUME NEW v \in Listening PROVE shown[v] \in Graphs
    <3>1. CASE snapshot = None
      BY <1>6, <3>1
    <3>2. CASE snapshot # None
      BY <1>1, <1>6, <3>2 DEF Served
    <3> QED  BY <3>1, <3>2
  <2> QED  BY <2>1
<1>10. CASE /\ Touched(patch) = {} \/ config.batching
            /\ batch' = Join(batch, cut)
            /\ Show(shown, [v \in Viewers |-> strays])
  <2>1. ASSUME NEW v \in Listening
        PROVE  told'[v] # None /\ InStep(told'[v], astray'[v], batch', new)
    <3>1. v \in Viewers /\ told'[v] = shown[v] /\ astray'[v] = astray[v] \cup strays
      BY <1>1, <1>10 DEF Show
    <3>2. CASE snapshot = None
      <4>1. /\ Touched(batch) \subseteq astray[v] \cup strays
            /\ \A i \in Items \ (astray[v] \cup strays) : Settles(cut, i, new[i])
        BY <1>3, <1>4, <3>2
      <4> QED  BY <1>1, <1>6, <1>10, <3>1, <3>2, <4>1, InStepFreshJoin
    <3>3. CASE snapshot # None
      <4>1. InStep(told[v], astray[v], batch, snapshot) /\ told[v] \in Graphs /\ shown[v] = told[v]
        BY <1>6, <1>9, <3>3 DEF Served
      <4>2. snapshot \in Graphs
        BY <3>3 DEF Shape, TypeOK
      <4>3. \A i \in Items \ strays : Carries(cut, i, snapshot[i], new[i])
        BY <1>3, <1>5, <3>3
      <4>4. InStep(told[v], astray[v] \cup strays, Join(batch, cut), new)
        BY <1>1, <4>1, <4>2, <4>3, InStepJoin
      <4> QED  BY <1>9, <1>10, <3>1, <4>1, <4>4, VersionFacts
    <3> QED  BY <3>2, <3>3
  <2>2. ~config.batching => Touched(batch') = {}
    <3>1. SUFFICES ASSUME ~config.batching PROVE Touched(batch') = {}
      OBVIOUS
    <3>2. Touched(batch) = {} /\ Touched(cut) = {}
      BY <1>1, <1>10, <3>1 DEF Served
    <3> QED  BY <1>1, <1>10, <3>2, JoinedPatch
  <2> QED  BY <2>1, <2>2
<1>11. CASE ~config.batching /\ batch' = batch /\ Deliver(cut, shown, strays)
  <2>1. Touched(batch) = {}
    BY <1>11 DEF Served
  <2> DEFINE gets == {v \in Listening : Passes(v, cut) /\ shown[v] # None}
  <2>2. ASSUME NEW v \in Listening
        PROVE  told'[v] # None /\ InStep(told'[v], astray'[v], batch', new)
    <3>1. /\ v \in Viewers
          /\ told'[v] = IF v \in gets THEN Apply(shown[v], cut) ELSE shown[v]
          /\ astray'[v] = astray[v] \cup (strays \cup (IF v \in gets THEN {} ELSE Touched(cut)))
      BY <1>1, <1>11 DEF Deliver, Show
    <3> HIDE DEF gets
    <3>2. told'[v] \in Graphs
      BY <1>1, <1>9, <3>1, AppliedGraph
    <3>3. ASSUME NEW i \in Items \ astray'[v] PROVE told'[v][i] = new[i]
      <4>1. i \in Items \ strays /\ i \notin astray[v] /\ (v \notin gets => i \notin Touched(cut))
        BY <3>1, <3>3
      <4>2. old[i] \in Nat /\ new[i] \in Nat
        BY VersionFacts DEF Graphs
      <4>3. After(old[i], cut, i) = new[i] /\ (i \notin Touched(cut) => new[i] = old[i])
        BY <1>1, <1>3, <4>1, <4>2, CarriesApplied
      <4>4. After(new[i], cut, i) = new[i]
        BY <1>1, <1>3, <4>1, <4>2, SettledApplied
      <4>5. shown[v][i] \in {old[i], new[i]} /\ (snapshot # None => shown[v][i] = old[i])
            /\ (snapshot = None => shown[v][i] = new[i])
        <5>1. CASE snapshot = None
          BY <1>6, <5>1
        <5>2. CASE snapshot # None
          <6>1. InStep(told[v], astray[v], batch, snapshot) /\ told[v] = shown[v] /\ told[v] \in Graphs
            BY <1>6, <1>9, <5>2 DEF Served
          <6>2. told[v][i] = snapshot[i]
            BY <1>1, <2>1, <4>1, <6>1, InStepBare
          <6> QED  BY <1>5, <4>1, <5>2, <6>1, <6>2
        <5> QED  BY <5>1, <5>2
      <4>6. CASE v \in gets
        <5>1. told'[v][i] = After(shown[v][i], cut, i)
          BY <3>1, <4>6, AppliedItem
        <5> QED  BY <4>3, <4>4, <4>5, <5>1
      <4>7. CASE v \notin gets
        BY <3>1, <4>1, <4>3, <4>5, <4>7
      <4> QED  BY <4>6, <4>7
    <3>4. InStep(told'[v], astray'[v], batch', new)
      BY <1>1, <1>11, <2>1, <3>2, <3>3, InStepBare
    <3> QED  BY <3>2, <3>4, VersionFacts
  <2> QED  BY <1>11, <2>1, <2>2
<1> QED  BY <1>2, <1>10, <1>11

\* The batch timer hands out all that waits, or nothing of it.
LEMMA EmitServed == ASSUME Shape, Served, Emit PROVE Served'
<1> DEFINE cut == Cap(batch)
           off == Jumbled(batch) \cup (Touched(batch) \ Touched(cut))
           gets == {v \in Listening : Passes(v, cut) /\ told[v] # None}
<1>1. /\ Deliver(cut, told, off)
      /\ batch' = NoPatch
      /\ UNCHANGED <<config, snapshot, listeners>>
  BY DEF Emit
<1>2. /\ batch \in Patches /\ cut \in Patches
      /\ told \in [Viewers -> Graphs \cup {None}] /\ Listening \subseteq Viewers
  <2>1. Listening \subseteq Viewers
    BY ElementOfSeq, LenProperties DEF Shape, TypeOK, Listening, ToSet
  <2> QED  BY <2>1, CapCuts DEF Shape, TypeOK
<1>3. ~cut.truncated => Gone(cut) = Gone(batch) /\ cut.added = batch.added /\ cut.updated = batch.updated
  <2>1. SUFFICES ASSUME ~cut.truncated
                 PROVE  Gone(cut) = Gone(batch) /\ cut.added = batch.added /\ cut.updated = batch.updated
    OBVIOUS
  <2>2. cut = [batch EXCEPT !.truncated = FALSE]
    BY <1>2, <2>1, CapCuts
  <2>3. cut.added = batch.added /\ cut.updated = batch.updated /\ cut.removed = batch.removed
    BY <1>2, <2>2 DEF Patches
  <2> QED  BY <2>3 DEF Gone
<1>4. \A v \in Listening :
         /\ told'[v] = IF v \in gets THEN Apply(told[v], cut) ELSE told[v]
         /\ astray'[v] = astray[v] \cup (off \cup (IF v \in gets THEN {} ELSE Touched(cut)))
  BY <1>1, <1>2 DEF Deliver, Show
<1>5. \A v \in gets : v \in Listening /\ ~cut.truncated /\ told[v] # None
  BY DEF Passes
<1>6. Listening' = Listening
  BY <1>1 DEF Listening
<1>7. Jumbled(batch) \subseteq off /\ Touched(batch) \subseteq off \cup Touched(cut)
  OBVIOUS
<1> HIDE DEF cut, off
<1>8. CASE snapshot = None
  <2>1. \A v \in Listening : told[v] = None
    BY <1>8 DEF Served
  <2>2. \A v \in Listening : told'[v] = None
    BY <1>4, <2>1
  <2> QED  BY <1>1, <1>6, <1>8, <2>2, NoPatchTouchesNothing DEF Served
<1>9. CASE snapshot # None
  <2>1. ASSUME NEW v \in Listening
        PROVE  told'[v] # None /\ InStep(told'[v], astray'[v], NoPatch, snapshot)
    <3>1. told[v] \in Graphs /\ InStep(told[v], astray[v], batch, snapshot)
      BY <1>2, <1>9 DEF Served
    <3>2. told'[v] \in Graphs
      BY <1>2, <1>4, <3>1, AppliedGraph
    <3>3. ASSUME NEW i \in Items \ astray'[v] PROVE told'[v][i] = snapshot[i]
      <4>1. i \notin astray[v] /\ i \notin off /\ (v \notin gets => i \notin Touched(cut))
        BY <1>4, <3>3
      <4>2. After(told[v][i], batch, i) = snapshot[i]
        BY <1>7, <3>1, <4>1 DEF InStep
      <4>3. CASE v \in gets
        <5>1. told'[v][i] = After(told[v][i], cut, i)
          BY <1>4, <4>3, AppliedItem
        <5>2. After(told[v][i], cut, i) = After(told[v][i], batch, i)
          BY <1>3, <1>5, <4>3 DEF After
        <5> QED  BY <4>2, <5>1, <5>2
      <4>4. CASE v \notin gets
        <5>1. i \in Items \ Touched(batch)
          BY <1>7, <4>1, <4>4
        <5>2. told[v][i] \in Nat
          BY <3>1, VersionFacts DEF Graphs
        <5>3. After(told[v][i], batch, i) = told[v][i]
          BY <1>2, <5>1, <5>2, UntouchedStays
        <5> QED  BY <1>4, <4>2, <4>4, <5>3
      <4> QED  BY <4>3, <4>4
    <3>4. InStep(told'[v], astray'[v], NoPatch, snapshot)
      BY <3>2, <3>3, NoPatchTouchesNothing, EmptyIsPatch, InStepBare
    <3> QED  BY <3>2, <3>4, VersionFacts
  <2> QED  BY <1>1, <1>6, <1>9, <2>1, NoPatchTouchesNothing DEF Served
<1> QED  BY <1>8, <1>9

\* Every operation keeps the pages in step.
LEMMA ServedKept == Shape /\ Entire /\ Served /\ [Next]_vars => Served'
<1> SUFFICES ASSUME Shape, Entire, Served, [Next]_vars PROVE Served'
  OBVIOUS
<1>0. /\ TypeOK /\ TypeOK' /\ Owned /\ batch \in Patches
      /\ Listening \subseteq Viewers /\ told \in [Viewers -> Graphs \cup {None}]
      /\ astray \in [Viewers -> SUBSET Items]
  <2>1. Listening \subseteq Viewers
    BY ElementOfSeq, LenProperties DEF Shape, TypeOK, Listening, ToSet
  <2> QED  BY <2>1, ShapeKept DEF Shape, TypeOK
<1>1. ASSUME UNCHANGED <<config, snapshot, batch, listeners, told, astray>> PROVE Served'
  BY <1>1 DEF Served, Listening
<1>2. CASE UNCHANGED vars \/ Quiet
           \/ (\E n \in Nodes, stamped \in BOOLEAN : Put(n, stamped))
           \/ (\E e \in Edges : Link(e)) \/ (\E i \in Items : Delete(i))
           \/ (\E p \in Polls : Start(p) \/ Run(p))
  <2>1. UNCHANGED <<config, snapshot, batch, listeners, told, astray>>
    BY <1>2 DEF vars, detector, history, Quiet, Put, Link, Delete, Start, Run
  <2> QED  BY <1>1, <2>1
<1>3. ASSUME NEW v \in Viewers, Subscribe(v) PROVE Served'
  <2>1. /\ v \notin Listening /\ listeners' = Append(listeners, v)
        /\ told' = [told EXCEPT ![v] = snapshot]
        /\ astray' = [astray EXCEPT ![v] = IF snapshot = None THEN {} ELSE Touched(batch)]
        /\ UNCHANGED <<config, snapshot, batch>>
    BY <1>3 DEF Subscribe
  <2>2. Listening' = Listening \cup {v}
    BY <1>0, <2>1, ListenerAdded DEF Listening, TypeOK
  <2>3. \A w \in Listening : told'[w] = told[w] /\ astray'[w] = astray[w]
    BY <1>0, <2>1
  <2>4. told'[v] = snapshot /\ (snapshot # None => astray'[v] = Touched(batch))
    BY <1>0, <2>1
  <2>5. snapshot # None => InStep(snapshot, Touched(batch), batch, snapshot)
    BY <1>0, InStepFresh DEF TypeOK
  <2>6. snapshot # None =>
           \A w \in Listening' : told'[w] # None /\ InStep(told'[w], astray'[w], batch, snapshot)
    BY <2>2, <2>3, <2>4, <2>5 DEF Served
  <2>7. snapshot = None => \A w \in Listening' : told'[w] = None
    BY <2>2, <2>3, <2>4 DEF Served
  <2> QED  BY <2>1, <2>6, <2>7 DEF Served
<1>4. ASSUME NEW v \in Viewers, Unsubscribe(v) PROVE Served'
  <2>1. /\ told' = [told EXCEPT ![v] = None] /\ astray' = [astray EXCEPT ![v] = {}]
        /\ UNCHANGED <<config, batch>>
        /\ \/ snapshot' = snapshot
           \/ Listening = {v} /\ snapshot' = None
    BY <1>4 DEF Unsubscribe
  <2>2. PICK k \in DOMAIN listeners : listeners[k] = v /\ listeners' = RemoveAt(listeners, k)
    BY <1>4 DEF Unsubscribe
  <2>3. Listening' = Listening \ {v}
    BY <1>0, <2>2, ListenerRemoved DEF Listening, TypeOK
  <2>4. \A w \in Listening' : w \in Listening /\ told'[w] = told[w] /\ astray'[w] = astray[w]
    BY <1>0, <2>1, <2>3
  <2>5. CASE snapshot' = snapshot
    BY <2>1, <2>4, <2>5 DEF Served
  <2>6. CASE Listening = {v} /\ snapshot' = None
    <3>1. Listening' = {}
      BY <2>3, <2>6
    <3> QED  BY <2>1, <2>6, <3>1 DEF Served
  <2> QED  BY <2>1, <2>5, <2>6
<1>5. ASSUME NEW p \in Polls, FinishInit(p) PROVE Served'
  <2> DEFINE new == poll[p].result
             strays == IF snapshot = None THEN Touched(batch)
                       ELSE {i \in Items : snapshot[i] # new[i]}
  <2>1. /\ snapshot' = new
        /\ Show(Loaded(new), [v \in Viewers |-> strays])
        /\ UNCHANGED <<config, batch, listeners>>
    BY <1>5 DEF FinishInit
  <2>2. new \in Graphs /\ new # None
    BY <1>0, PollShape, VersionFacts DEF PollStates
  <2>3. Listening' = Listening
    BY <2>1 DEF Listening
  <2>4. /\ snapshot = None => strays = Touched(batch)
        /\ snapshot # None => \A i \in Items \ strays : new[i] = snapshot[i]
    OBVIOUS
  <2> HIDE DEF new, strays
  <2>5. ASSUME NEW v \in Listening
        PROVE  told'[v] # None /\ InStep(told'[v], astray'[v], batch, new)
    <3>1. /\ told'[v] = IF told[v] = None THEN new ELSE told[v]
          /\ astray'[v] = astray[v] \cup strays
      BY <1>0, <2>1 DEF Show, Loaded
    <3>2. CASE snapshot = None
      <4>1. told'[v] = new
        BY <3>1, <3>2 DEF Served
      <4>2. Touched(batch) \subseteq astray'[v]
        BY <2>4, <3>1, <3>2
      <4> QED  BY <1>0, <2>2, <4>1, <4>2, InStepFresh
    <3>3. CASE snapshot # None
      <4>1. told[v] # None /\ InStep(told[v], astray[v], batch, snapshot)
        BY <3>3 DEF Served
      <4>2. InStep(told[v], astray[v] \cup strays, batch, new)
        BY <2>4, <3>3, <4>1, InStepElsewhere
      <4> QED  BY <3>1, <4>1, <4>2
    <3> QED  BY <3>2, <3>3
  <2> QED  BY <2>1, <2>2, <2>3, <2>5 DEF Served
<1>6. ASSUME NEW p \in Polls, FinishFull(p) PROVE Served'
  <2> DEFINE held == poll[p].held
             new == poll[p].result
             patch == Diff(held, new)
             off == IF snapshot = None THEN {} ELSE {i \in Items : snapshot[i] # held[i]}
  <2>1. /\ snapshot' = new /\ poll[p].kind = "full"
        /\ Publish(patch, new, off)
        /\ UNCHANGED <<config, listeners>>
    BY <1>6 DEF FinishFull
  <2>2. held \in Graphs /\ new \in Graphs /\ Whole(new)
    BY <1>0, <2>1, PollShape DEF PollStates, Entire
  <2>3. off \subseteq Items /\ (snapshot # None => \A i \in Items \ off : snapshot[i] = held[i])
    OBVIOUS
  <2> HIDE DEF held, new, off
  <2>4. /\ patch \in Patches
        /\ \A i \in Items \ (Touched(patch) \ Touched(Cap(patch))) :
              Carries(Cap(patch), i, held[i], new[i])
    BY <2>2, DiffShape, DiffCarries
  <2> HIDE DEF patch
  <2> QED  BY <2>1, <2>2, <2>3, <2>4, PublishServed
<1>7. ASSUME NEW p \in Polls, FinishRecent(p) PROVE Served'
  <2> DEFINE q == poll[p]
             base == IF q.own THEN snapshot ELSE q.held
             patch == RecentDiff(q.result, base)
             new == IF q.own THEN LastOf(base, q.result) ELSE snapshot
             off == IF q.own THEN {} ELSE Touched(patch)
  <2>1. /\ snapshot' = new
        /\ Publish(patch, snapshot', off)
        /\ UNCHANGED <<config, listeners>>
    BY <1>7 DEF FinishRecent
  <2>2. q.result \in Graphs /\ q.held \in Graphs
    BY <1>0, PollShape DEF PollStates
  <2>3. base \in Graphs
    BY <1>0, <2>2 DEF Owned, TypeOK
  <2>4. /\ patch \in Patches /\ LastOf(base, q.result) \in Graphs
        /\ \A i \in Items \ (Touched(patch) \ Touched(Cap(patch))) :
              Carries(Cap(patch), i, base[i], LastOf(base, q.result)[i])
    <3> HIDE DEF base, q
    <3> QED  BY <2>2, <2>3, RecentCarries
  <2>5. off \subseteq Items
    BY <2>4, TouchedItems
  <2>6. CASE q.own
    <3>1. /\ base = snapshot /\ new = LastOf(base, q.result) /\ off = {}
      BY <2>6
    <3> HIDE DEF base, new, off, patch, q
    <3>2. \A i \in Items \ (off \cup (Touched(patch) \ Touched(Cap(patch)))) :
             Carries(Cap(patch), i, base[i], new[i])
      BY <2>4, <3>1
    <3> QED  BY <2>1, <2>3, <2>4, <2>5, <3>1, <3>2, PublishServed
  <2>7. CASE ~q.own /\ snapshot # None
    <3>1. new = snapshot /\ off = Touched(patch) /\ new \in Graphs
      BY <1>0, <2>7 DEF TypeOK
    <3>2. Touched(Cap(patch)) \subseteq Touched(patch)
      <4> HIDE DEF patch
      <4> QED  BY <2>4, CutTouches
    <3> HIDE DEF base, new, off, patch, q
    <3>3. \A i \in Items \ (off \cup (Touched(patch) \ Touched(Cap(patch)))) :
             Carries(Cap(patch), i, snapshot[i], new[i])
      BY <3>1, <3>2 DEF Carries
    <3> QED  BY <2>1, <2>4, <2>5, <3>1, <3>3, PublishServed
  <2>8. CASE ~q.own /\ snapshot = None
    <3>1. snapshot' = None
      BY <2>1, <2>8
    <3>2. \A v \in Listening : Loaded(None)[v] = None
      BY <1>0, <2>8 DEF Loaded, Served
    <3> DEFINE cut == Cap(patch)
    <3>3. cut \in Patches /\ Touched(cut) \subseteq Touched(patch)
      <4> HIDE DEF patch
      <4> QED  BY <2>4, CapCuts, CutTouches
    <3>4. \E strays :
             \/ /\ Touched(patch) = {} \/ config.batching
                /\ batch' = Join(batch, cut)
                /\ Show(Loaded(None), [v \in Viewers |-> strays])
             \/ /\ ~config.batching /\ batch' = batch /\ Deliver(cut, Loaded(None), strays)
      BY <2>1, <3>1 DEF Publish
    <3> HIDE DEF base, new, off, patch, q, cut
    <3>5. \A v \in Listening : told'[v] = None
      BY <1>0, <3>2, <3>4 DEF Deliver, Show
    <3>6. ~config.batching => Touched(batch') = {}
      <4>1. SUFFICES ASSUME ~config.batching PROVE Touched(batch') = {}
        OBVIOUS
      <4>2. Touched(batch) = {}
        BY <4>1 DEF Served
      <4>3. CASE batch' = batch
        BY <4>2, <4>3
      <4>4. CASE Touched(patch) = {} /\ batch' = Join(batch, cut)
        BY <1>0, <3>3, <4>2, <4>4, JoinedPatch
      <4> QED  BY <3>4, <4>1, <4>3, <4>4
    <3>7. Listening' = Listening
      BY <2>1 DEF Listening
    <3> QED  BY <2>1, <3>1, <3>5, <3>6, <3>7 DEF Served
  <2> QED  BY <2>6, <2>7, <2>8
<1>8. CASE Emit
  BY <1>8, EmitServed
<1> QED  BY <1>2, <1>3, <1>4, <1>5, <1>6, <1>7, <1>8 DEF Next

\* At first nobody listens and nothing waits.
LEMMA ServedInit == Init => Entire /\ Served
<1> SUFFICES ASSUME Init PROVE Entire /\ Served
  OBVIOUS
<1>1. Entire
  <2>1. \A e \in Edges : Source[e] \in Nodes /\ Target[e] \in Nodes /\ e \in Items
    BY EndsAssumption DEF Items
  <2>2. Nodes \subseteq Items
    BY DEF Items
  <2>3. Whole(graph)
    BY <2>1, <2>2, InitialAssumption DEF Init, Whole
  <2> QED  BY <2>3 DEF Init, Entire, Idle
<1>2. Listening = {}
  <2>1. Len(<<>>) = 0 /\ DOMAIN <<>> = {}
    BY EmptySeq, LenProperties
  <2> QED  BY <2>1 DEF Init, Listening, ToSet
<1> QED  BY <1>1, <1>2, NoPatchTouchesNothing DEF Init, Served

\* What a page shows, with the patches that wait, is the snapshot of the detector,
\* but for what it was misled about (graphChangeDetector.ts: computeDiff,
\* mergePatchBatch and applyPatchCaps; GraphVisualization.tsx: applyPatch).
THEOREM PagesShowSnapshot == Spec => []PatchesAddUp
<1> DEFINE Inv == Shape /\ Entire /\ Served
<1>1. Init => Inv
  BY ShapeInit, ServedInit
<1>2. Inv /\ [Next]_vars => Inv'
  BY ShapeKept, EntireKept, ServedKept
<1>3. Inv => PatchesAddUp
  BY AppliedItem DEF Served, InStep, PatchesAddUp
<1> HIDE DEF Inv
<1>4. Spec => []Inv
  BY <1>1, <1>2, PTL DEF Spec
<1> QED  BY <1>3, <1>4, PTL

=============================================================================
