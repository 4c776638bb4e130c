-------------------------- MODULE SubpresentProofs --------------------------
(***************************************************************************)
(* The invariants of Subpresent for any number of toplevels and             *)
(* subsurfaces, any geometry and any failure to create an X window.         *)
(*                                                                         *)
(* NeverLost and BoxesFollow speak of mapped surfaces only.  They become    *)
(* inductive with two facts that hold of unmapped ones as well: a hidden    *)
(* node has its X window (HiddenHasWindow), and sp->sx is the position the  *)
(* toplevel committed (OffsetsCurrent).                                     *)
(***************************************************************************)
EXTENDS Subpresent, TLAPS

HiddenHasWindow ==
    \A s \in Surfaces :
       ~node[s].enabled =>
          sub[s].added /\ present[s].shown /\ present[s].parent = sub[s].parent
OffsetsCurrent ==
    \A s \in Surfaces :
       sub[s].added /\ present[s].parent = sub[s].parent /\ sub[s].parent # None
         => present[s].offset = sub[s].pos

AddedHaveParents == \A s \in Surfaces : sub[s].added => sub[s].parent # None

SInv == /\ TypeOK /\ OwnersMapped /\ HiddenHasWindow /\ OffsetsCurrent
        /\ AddedHaveParents /\ PaintedOnce /\ BoxesFollow

\* What Place returns: the same subpresent, with an X window over its toplevel
\* unless that could not be created.
LEMMA PlaceFacts ==
    ASSUME NEW p \in Present, NEW width \in Widths, NEW origin \in Origins, NEW ok \in BOOLEAN
    PROVE  LET q == Place(p, width, origin, ok) IN
           /\ q \in Present
           /\ q.parent = p.parent /\ q.offset = p.offset
           /\ q.shown <=> p.shown \/ ok
           /\ q.shown => q.left = origin + p.offset - Shadow /\ q.width = width
<1>1. width \in Nat /\ origin \in Int /\ Shadow \in Int /\ p.offset \in Int
  BY SizesAssumption DEF Present
<1>2. origin + p.offset - Shadow \in Int
  BY <1>1
<1> DEFINE left == origin + p.offset - Shadow
           q == [p EXCEPT !.shown = TRUE, !.width = width, !.left = left]
<1>3. left \in Int
  BY <1>2
<1> HIDE DEF left
<1>4. /\ q \in Present
      /\ q.parent = p.parent /\ q.offset = p.offset
      /\ q.shown = TRUE /\ q.left = left /\ q.width = width
  BY <1>1, <1>3 DEF Present
<1>5. CASE p.shown \/ ok
  BY <1>4, <1>5 DEF Place, left
<1>6. CASE ~(p.shown \/ ok)
  BY <1>6 DEF Place
<1> QED
  BY <1>5, <1>6

LEMMA NoPresentTyped == NoPresent \in Present /\ NoPresent.parent = None /\ ~NoPresent.shown
BY DEF NoPresent, Present

\* HideFor hides the node exactly when there is an X window over the toplevel
\* whose scene holds it.
LEMMA HideForFacts ==
    ASSUME NEW n \in Node, NEW r \in Sub, NEW p \in Present
    PROVE  LET m == HideFor(n, r, p) IN
           /\ m \in Node /\ m.late = n.late
           /\ p.shown /\ r.added /\ r.parent = p.parent => ~m.enabled
           /\ ~(p.shown /\ r.added /\ r.parent = p.parent) => m = n
BY DEF HideFor, SetEnabled, InScene, Node, Sub, Present

LEMMA EnableFacts ==
    ASSUME NEW n \in Node, NEW r \in Sub, NEW w
    PROVE  LET m == SetEnabled(n, r, w, TRUE) IN
           /\ m \in Node /\ m.late = n.late
           /\ r.added /\ r.parent = w => m.enabled
           /\ ~(r.added /\ r.parent = w) => m = n
BY DEF SetEnabled, InScene, Node, Sub

THEOREM InitEstablishes == Init => SInv
<1> SUFFICES ASSUME Init PROVE SInv
  OBVIOUS
<1>1. \A s \in Surfaces : /\ sub[s] \in Sub /\ sub[s].parent = None /\ ~sub[s].added
                          /\ present[s] = NoPresent /\ node[s] = FreshNode
  BY DEF Init
<1>2. FreshNode \in Node /\ FreshNode.enabled
  BY DEF FreshNode, Node
<1>3. TypeOK
  <2>1. top \in [Windows -> Top] /\ sub \in [Surfaces -> Sub]
    BY DEF Init
  <2> QED
    BY <2>1, <1>1, <1>2, NoPresentTyped DEF Init, TypeOK
<1> QED
  BY <1>1, <1>2, <1>3, NoPresentTyped
     DEF SInv, OwnersMapped, HiddenHasWindow, OffsetsCurrent, AddedHaveParents, PaintedOnce,
         BoxesFollow, SurfaceMapped

(***************************************************************************)
(* A toplevel's commit.  SyncFacts says what it leaves of each subsurface.  *)
(***************************************************************************)
Wanted(w, root, r) == r.parent = w /\ r.buffer /\ Overflows(r, root)

\* Every subsurface of the toplevel is Wanted, and then has a subpresent here at
\* its position, or it has none here; the others are left alone.
LEMMA SyncFacts ==
    ASSUME NEW w \in Windows, NEW root \in Roots, NEW ok \in BOOLEAN,
           NEW surf \in [Surfaces -> Sub],
           NEW n \in [Surfaces -> Node], NEW p \in [Surfaces -> Present],
           top'[w].origin \in Origins, Sync(w, root, surf, n, p, ok),
           NEW s \in Surfaces
    PROVE  LET q == present'[s] IN LET m == node'[s] IN
           /\ q \in Present /\ m \in Node
           /\ Wanted(w, root, surf[s]) =>
                /\ q.parent = w /\ q.offset = surf[s].pos
                /\ q.shown => q.left = top'[w].origin + q.offset - Shadow
                               /\ q.width = surf[s].width
                /\ q.shown /\ surf[s].added => ~m.enabled
                /\ ~m.enabled => (q.shown /\ surf[s].added) \/ ~n[s].enabled
                /\ p[s].shown => q.shown
           /\ ~Wanted(w, root, surf[s]) /\ p[s].parent = w =>
                /\ q = NoPresent
                /\ surf[s].added /\ surf[s].parent = w => m.enabled
                /\ ~(surf[s].added /\ surf[s].parent = w) => m = n[s]
           /\ ~Wanted(w, root, surf[s]) /\ p[s].parent # w => q = p[s] /\ m = n[s]
<1> DEFINE r == surf[s]
           g == GetOrCreate(p[s], w, r.pos)
           placed == Place(g, r.width, top'[w].origin, ok)
           listening == IF p[s].parent = None THEN [n[s] EXCEPT !.late = FALSE] ELSE n[s]
<1>1. r \in Sub /\ p[s] \in Present /\ n[s] \in Node /\ w # None
  BY NoneAssumption
<1>2. r.pos \in Int /\ r.width \in Widths
  BY <1>1, SizesAssumption DEF Sub
<1>3. /\ g \in Present /\ g.parent = w /\ g.offset = r.pos /\ g.shown = p[s].shown
  BY <1>1, <1>2 DEF GetOrCreate, Present
<1>4. /\ placed \in Present /\ placed.parent = w /\ placed.offset = r.pos
      /\ placed.shown <=> g.shown \/ ok
      /\ placed.shown => placed.left = top'[w].origin + r.pos - Shadow
                         /\ placed.width = r.width
  <2> HIDE DEF g
  <2> QED
    BY <1>2, <1>3, PlaceFacts
<1>5. listening \in Node /\ listening.enabled = n[s].enabled
  BY <1>1 DEF Node
<1>6. present'[s] = CASE Wanted(w, root, r) -> placed
                      [] ~Wanted(w, root, r) /\ p[s].parent = w -> Destroy(p[s])
                      [] OTHER -> p[s]
  BY DEF Sync, Wanted
<1>7. node'[s] = CASE Wanted(w, root, r) -> HideFor(listening, r, placed)
                   [] ~Wanted(w, root, r) /\ p[s].parent = w -> SetEnabled(n[s], r, w, TRUE)
                   [] OTHER -> n[s]
  BY DEF Sync, Wanted
<1> HIDE DEF g, placed, listening, r
<1>8. CASE Wanted(w, root, r)
  <2>1. r.parent = w
    BY <1>8 DEF Wanted
  <2>2. present'[s] = placed /\ node'[s] = HideFor(listening, r, placed)
    BY <1>6, <1>7, <1>8
  <2>3. LET m == HideFor(listening, r, placed) IN
        /\ m \in Node
        /\ placed.shown /\ r.added => ~m.enabled
        /\ ~(placed.shown /\ r.added) => m = listening
    BY <1>1, <1>4, <1>5, <2>1, HideForFacts
  <2> QED
    BY <1>3, <1>4, <1>5, <1>8, <2>2, <2>3 DEF r
<1>9. CASE ~Wanted(w, root, r) /\ p[s].parent = w
  <2>1. present'[s] = NoPresent /\ node'[s] = SetEnabled(n[s], r, w, TRUE)
    BY <1>6, <1>7, <1>9 DEF Destroy
  <2>2. LET m == SetEnabled(n[s], r, w, TRUE) IN
        /\ m \in Node /\ m.late = n[s].late
        /\ r.added /\ r.parent = w => m.enabled
        /\ ~(r.added /\ r.parent = w) => m = n[s]
    BY <1>1, EnableFacts
  <2> QED
    BY <1>9, <2>1, <2>2, NoPresentTyped DEF r
<1>10. CASE ~Wanted(w, root, r) /\ p[s].parent # w
  <2>1. present'[s] = p[s] /\ node'[s] = n[s]
    BY <1>6, <1>7, <1>10
  <2> QED
    BY <1>1, <1>10, <2>1 DEF r
<1> QED
  BY <1>8, <1>9, <1>10

\* Positions apply and new subsurfaces get a node before the sync.
LEMMA PositionedFacts ==
    ASSUME TypeOK, NEW w \in Windows, NEW pos \in [Children(w) -> Offsets]
    PROVE  /\ Positioned(w, pos) \in [Surfaces -> Sub]
           /\ \A s \in Surfaces : LET r == Positioned(w, pos)[s] IN
              /\ r.parent = sub[s].parent /\ r.buffer = sub[s].buffer /\ r.width = sub[s].width
              /\ sub[s].parent = w => r.added
              /\ sub[s].parent # w => r = sub[s]
<1>1. \A x \in Surfaces : sub[x].parent = w => pos[x] \in Offsets
  BY DEF Children
<1>2. \A x \in Surfaces : sub[x] \in Sub
  BY DEF TypeOK
<1>3. \A x \in Surfaces : Positioned(w, pos)[x] \in Sub
  BY <1>1, <1>2 DEF Positioned, Sub
<1> QED
  BY <1>2, <1>3 DEF Positioned, Sub

LEMMA NewNodesFacts ==
    ASSUME TypeOK, NEW w \in Windows, NEW s \in Surfaces
    PROVE  /\ NewNodes(w) \in [Surfaces -> Node]
           /\ Added(s, w) => NewNodes(w)[s].enabled
           /\ ~Added(s, w) => NewNodes(w)[s] = node[s]
<1>1. \A x \in Surfaces : node[x] \in Node
  BY DEF TypeOK
<1>2. \A x \in Surfaces : [FreshNode EXCEPT !.late = present[x].parent \notin {None, w}] \in Node
  BY DEF FreshNode, Node
<1> QED
  BY <1>1, <1>2 DEF NewNodes, FreshNode

LEMMA KeptFacts ==
    ASSUME TypeOK, NEW w \in Windows, NEW s \in Surfaces
    PROVE  /\ Kept(w) \in [Surfaces -> Present]
           /\ Kept(w)[s] = IF Added(s, w) /\ present[s].parent = w THEN NoPresent ELSE present[s]
BY NoPresentTyped DEF TypeOK, Kept, Destroy

LEMMA CommitToplevelKeeps ==
    ASSUME SInv, NEW w \in Windows, CommitToplevel(w)
    PROVE  /\ SInv'
           /\ \A s \in Surfaces :
                 present'[s].parent = w <=> /\ sub'[s].parent = w /\ sub'[s].buffer
                                            /\ Overflows(sub'[s], top'[w].width)
<1> USE DEF SInv
<1>1. PICK root \in Roots, origin \in Origins, pos \in [Children(w) -> Offsets], ok \in Creates :
         /\ Mapped(w) => origin = top[w].origin
         /\ top' = [top EXCEPT ![w] = [life |-> "mapped", width |-> root, origin |-> origin]]
         /\ sub' = Positioned(w, pos)
         /\ Sync(w, root, sub', NewNodes(w), Kept(w), ok)
  BY DEF CommitToplevel
<1>2. moved' = moved /\ ok \in BOOLEAN /\ w # None
  BY SizesAssumption, NoneAssumption DEF CommitToplevel
<1>3. /\ top' \in [Windows -> Top]
      /\ top'[w].life = "mapped" /\ top'[w].width = root /\ top'[w].origin = origin
      /\ \A x \in Windows \ {w} : top'[x] = top[x]
      /\ Mapped(w) => top'[w].origin = top[w].origin
  BY <1>1 DEF TypeOK, Top
<1>4. \A x \in Windows : Mapped(x) => top'[x].life = "mapped"
  BY <1>2, <1>3 DEF Mapped
<1>5. sub' \in [Surfaces -> Sub]
  BY <1>1, PositionedFacts DEF TypeOK
<1>6. ASSUME NEW s \in Surfaces
      PROVE  /\ present'[s] \in Present /\ node'[s] \in Node
             /\ present'[s].parent = None => present'[s] = NoPresent
             /\ present'[s].parent # None => top'[present'[s].parent].life = "mapped"
             /\ ~node'[s].enabled =>
                   /\ sub'[s].added /\ present'[s].shown
                   /\ present'[s].parent = sub'[s].parent
             /\ sub'[s].added /\ present'[s].parent = sub'[s].parent /\ sub'[s].parent # None
                   => present'[s].offset = sub'[s].pos
             /\ SurfaceMapped(sub[s])' /\ present'[s].shown /\ present'[s].parent = sub'[s].parent
                   => ~node'[s].enabled \/ node'[s].late
             /\ SurfaceMapped(sub[s])' /\ present'[s].shown /\ present'[s].parent = sub'[s].parent
                  /\ sub'[s].parent \notin moved'
                   => /\ present'[s].left = top'[sub'[s].parent].origin + sub'[s].pos - Shadow
                      /\ present'[s].width = sub'[s].width
             /\ present'[s].parent = w <=> Wanted(w, root, sub'[s])
             /\ sub'[s].added => sub'[s].parent # None
  <2> DEFINE n == NewNodes(w)[s]
             p == Kept(w)[s]
  <2>1. /\ sub'[s].parent = sub[s].parent /\ sub'[s].buffer = sub[s].buffer
        /\ sub'[s].width = sub[s].width
        /\ sub[s].parent = w => sub'[s].added
        /\ sub[s].parent # w => sub'[s] = sub[s]
    BY <1>1, PositionedFacts
  <2>2. /\ n \in Node /\ p \in Present
        /\ NewNodes(w) \in [Surfaces -> Node] /\ Kept(w) \in [Surfaces -> Present]
        /\ Added(s, w) => n.enabled
        /\ ~Added(s, w) => n = node[s]
        /\ p = IF Added(s, w) /\ present[s].parent = w THEN NoPresent ELSE present[s]
    BY NewNodesFacts, KeptFacts
  <2> HIDE DEF n, p
  <2>3. top'[w].origin \in Origins
    BY <1>3 DEF Top
  <2>4. LET q == present'[s] IN LET m == node'[s] IN LET r == sub'[s] IN
        /\ q \in Present /\ m \in Node
        /\ Wanted(w, root, r) =>
             /\ q.parent = w /\ q.offset = r.pos
             /\ q.shown => q.left = top'[w].origin + q.offset - Shadow /\ q.width = r.width
             /\ q.shown /\ r.added => ~m.enabled
             /\ ~m.enabled => (q.shown /\ r.added) \/ ~n.enabled
             /\ p.shown => q.shown
        /\ ~Wanted(w, root, r) /\ p.parent = w =>
             /\ q = NoPresent
             /\ r.added /\ r.parent = w => m.enabled
             /\ ~(r.added /\ r.parent = w) => m = n
        /\ ~Wanted(w, root, r) /\ p.parent # w => q = p /\ m = n
    BY <1>1, <1>2, <1>5, <2>2, <2>3, SyncFacts DEF n, p
  <2>5. /\ present[s] \in Present /\ node[s] \in Node /\ sub[s] \in Sub
        /\ present[s].parent = None => present[s] = NoPresent
        /\ present[s].parent # None => Mapped(present[s].parent)
        /\ present[s].parent \in Windows \cup {None}
    BY DEF TypeOK, OwnersMapped, Present
  <2>6. /\ sub[s].added => sub[s].parent # None
        /\ ~node[s].enabled =>
              sub[s].added /\ present[s].shown /\ present[s].parent = sub[s].parent
        /\ sub[s].added /\ present[s].parent = sub[s].parent /\ sub[s].parent # None
              => present[s].offset = sub[s].pos
        /\ SurfaceMapped(sub[s]) /\ present[s].shown /\ present[s].parent = sub[s].parent
              => ~node[s].enabled \/ node[s].late
        /\ SurfaceMapped(sub[s]) /\ present[s].shown /\ present[s].parent = sub[s].parent
             /\ sub[s].parent \notin moved
              => /\ present[s].left = top[sub[s].parent].origin + sub[s].pos - Shadow
                 /\ present[s].width = sub[s].width
    BY DEF HiddenHasWindow, OffsetsCurrent, AddedHaveParents, PaintedOnce, BoxesFollow
  <2>7. CASE Wanted(w, root, sub'[s])
    <3>1. sub[s].parent = w /\ sub'[s].parent = w /\ sub'[s].added
      BY <2>1, <2>7 DEF Wanted
    <3>2. ~n.enabled => p.shown
      BY <2>2, <2>6, <3>1 DEF Added
    <3>3. /\ present'[s] \in Present /\ node'[s] \in Node
          /\ present'[s].parent = w /\ present'[s].offset = sub'[s].pos
          /\ present'[s].shown => /\ present'[s].left = top'[w].origin + sub'[s].pos - Shadow
                                  /\ present'[s].width = sub'[s].width
                                  /\ ~node'[s].enabled
          /\ ~node'[s].enabled => present'[s].shown
      BY <2>4, <2>7, <3>1, <3>2
    <3> QED
      BY <1>2, <1>3, <2>7, <3>1, <3>3
  <2>8. CASE ~Wanted(w, root, sub'[s]) /\ p.parent = w
    <3>1. present'[s] = NoPresent
      BY <2>4, <2>8
    <3>2. node'[s].enabled
      <4>1. CASE sub[s].parent = w
        BY <2>1, <2>4, <2>8, <4>1
      <4>2. CASE sub[s].parent # w
        <5>1. ~Added(s, w) /\ p = present[s] /\ n = node[s]
          BY <2>2, <4>2 DEF Added
        <5> QED
          BY <2>1, <2>4, <2>6, <2>8, <4>2, <5>1
      <4> QED
        BY <4>1, <4>2
    <3>3. present'[s].parent # sub'[s].parent \/ sub'[s].parent = None
      BY <3>1, NoPresentTyped
    <3>4. sub'[s].added => sub'[s].parent # None
      BY <1>2, <2>1, <2>6
    <3>5. present'[s] \in Present /\ node'[s] \in Node
      BY <2>4
    <3>6. present'[s].parent # w
      BY <1>2, <3>1, NoPresentTyped
    <3> QED
      BY <2>8, <3>1, <3>2, <3>3, <3>4, <3>5, <3>6, NoPresentTyped
  <2>9. CASE ~Wanted(w, root, sub'[s]) /\ p.parent # w
    <3>1. present'[s] = p /\ node'[s] = n
      BY <2>4, <2>9
    <3>2. CASE sub[s].parent = w
      <4>1. p.parent = None => p = NoPresent
        BY <2>2, <2>5
      <4>2. n.enabled
        BY <2>2, <2>6, <2>9, <3>2, NoPresentTyped
      <4>3. p.parent # None => top'[p.parent].life = "mapped"
        BY <1>4, <2>2, <2>5, NoPresentTyped
      <4> QED
        BY <1>2, <2>1, <2>2, <2>9, <3>1, <3>2, <4>1, <4>2, <4>3
    <3>3. CASE sub[s].parent # w
      <4>1. p = present[s] /\ n = node[s] /\ sub'[s] = sub[s]
        BY <2>1, <2>2, <3>3 DEF Added
      <4>2. present[s].parent # None => top'[present[s].parent].life = "mapped"
        BY <1>4, <2>5
      <4>3. SurfaceMapped(sub[s])' => SurfaceMapped(sub[s])
        BY <1>3, <1>4, <3>3, <4>1, <2>5 DEF SurfaceMapped, Mapped, Sub
      <4>4. sub[s].parent # None => top'[sub[s].parent] = top[sub[s].parent]
        BY <1>3, <2>5, <3>3 DEF Sub
      <4>5. SurfaceMapped(sub[s]) => sub[s].parent # None
        BY DEF SurfaceMapped, Mapped
      <4> QED
        BY <1>2, <2>2, <2>5, <2>6, <2>9, <3>1, <4>1, <4>2, <4>3, <4>4, <4>5
    <3> QED
      BY <3>2, <3>3
  <2> QED
    BY <2>7, <2>8, <2>9
<1>7. present' \in [Surfaces -> Present] /\ node' \in [Surfaces -> Node]
  BY <1>1, <1>6 DEF Sync
<1>8. TypeOK'
  BY <1>2, <1>3, <1>5, <1>6, <1>7 DEF TypeOK
<1>9. OwnersMapped' /\ HiddenHasWindow' /\ OffsetsCurrent' /\ AddedHaveParents'
  BY <1>6 DEF OwnersMapped, HiddenHasWindow, OffsetsCurrent, AddedHaveParents, Mapped
<1>10. PaintedOnce'
  BY <1>6 DEF PaintedOnce
<1>11. BoxesFollow'
  BY <1>6 DEF BoxesFollow
<1> QED
  BY <1>3, <1>6, <1>8, <1>9, <1>10, <1>11 DEF Wanted

(***************************************************************************)
(* The other steps, subsurface by subsurface.                               *)
(***************************************************************************)
Fine(s) ==
    /\ sub[s].added => sub[s].parent # None
    /\ ~node[s].enabled =>
          sub[s].added /\ present[s].shown /\ present[s].parent = sub[s].parent
    /\ sub[s].added /\ present[s].parent = sub[s].parent /\ sub[s].parent # None
          => present[s].offset = sub[s].pos
    /\ SurfaceMapped(sub[s]) /\ present[s].shown /\ present[s].parent = sub[s].parent
          => ~node[s].enabled \/ node[s].late
    /\ SurfaceMapped(sub[s]) /\ present[s].shown /\ present[s].parent = sub[s].parent
         /\ sub[s].parent \notin moved
          => /\ present[s].left = top[sub[s].parent].origin + sub[s].pos - Shadow
             /\ present[s].width = sub[s].width

LEMMA FineParts == SInv <=> TypeOK /\ OwnersMapped /\ \A s \in Surfaces : Fine(s)
BY DEF SInv, HiddenHasWindow, OffsetsCurrent, AddedHaveParents, PaintedOnce, BoxesFollow, Fine

LEMMA FinePartsNext == TypeOK' /\ OwnersMapped' /\ (\A s \in Surfaces : Fine(s)') => SInv'
BY DEF SInv, HiddenHasWindow, OffsetsCurrent, AddedHaveParents, PaintedOnce, BoxesFollow, Fine

\* What the proofs of the steps use of one subsurface.
LEMMA SurfaceFacts ==
    ASSUME SInv, NEW s \in Surfaces
    PROVE  /\ sub[s] \in Sub /\ node[s] \in Node /\ present[s] \in Present
           /\ present[s].parent = None => present[s] = NoPresent
           /\ present[s].parent # None => Mapped(present[s].parent)
           /\ sub[s].parent \in Windows \cup {None}
           /\ present[s].parent \in Windows \cup {None}
           /\ Fine(s)
BY FineParts DEF TypeOK, OwnersMapped, Sub, Present

\* A commit without a buffer: the toplevel is not mapped, so none of its
\* subsurfaces is, and it has no subpresents.
LEMMA CommitUnmappedKeeps ==
    ASSUME SInv, NEW w \in Windows, CommitUnmapped(w)
    PROVE  SInv'
<1>1. PICK pos \in [Children(w) -> Offsets] : sub' = Positioned(w, pos)
  BY DEF CommitUnmapped
<1>2. /\ node' = NewNodes(w) /\ top' = top /\ moved' = moved /\ present' = present
      /\ ~Mapped(w) /\ w # None /\ TypeOK
  BY NoneAssumption DEF CommitUnmapped, Mapped, SInv
<1>3. sub' \in [Surfaces -> Sub]
  BY <1>1, <1>2, PositionedFacts
<1>4. \A s \in Surfaces : node'[s] \in Node
  BY <1>2, NewNodesFacts
<1>5. node' \in [Surfaces -> Node]
  BY <1>2, <1>4 DEF NewNodes
<1>6. TypeOK'
  BY <1>2, <1>3, <1>5 DEF TypeOK
<1>7. OwnersMapped'
  BY <1>2 DEF SInv, OwnersMapped, Mapped
<1>8. ASSUME NEW s \in Surfaces
      PROVE  Fine(s)'
  <2>1. /\ sub'[s].parent = sub[s].parent /\ sub'[s].buffer = sub[s].buffer
        /\ sub[s].parent # w => sub'[s] = sub[s]
    BY <1>1, <1>2, PositionedFacts
  <2>2. /\ Added(s, w) => node'[s].enabled
        /\ ~Added(s, w) => node'[s] = node[s]
    BY <1>2, NewNodesFacts
  <2>3. present[s].parent # w /\ Fine(s)
    BY <1>2, SurfaceFacts
  <2>4. CASE sub[s].parent = w
    <3>1. ~SurfaceMapped(sub[s])'
      BY <1>2, <2>1, <2>4 DEF SurfaceMapped, Mapped
    <3> QED
      BY <1>2, <2>1, <2>2, <2>3, <2>4, <3>1 DEF Fine, Added
  <2>5. CASE sub[s].parent # w
    BY <1>2, <2>1, <2>2, <2>3, <2>5 DEF Fine, Added, SurfaceMapped, Mapped
  <2> QED
    BY <2>4, <2>5
<1> QED
  BY <1>6, <1>7, <1>8, FinePartsNext

\* xdg_toplevel_unmap: the nodes of what was promoted here are shown again.
LEMMA UnmapToplevelKeeps ==
    ASSUME SInv, NEW w \in Windows, UnmapToplevel(w)
    PROVE  SInv'
<1>1. /\ top' = [top EXCEPT ![w].life = "live"] /\ moved' = moved \ {w} /\ sub' = sub
      /\ w # None /\ TypeOK
  BY NoneAssumption DEF UnmapToplevel, SInv
<1>2. /\ top' \in [Windows -> Top]
      /\ top'[w].life = "live"
      /\ \A x \in Windows \ {w} : top'[x] = top[x]
  BY <1>1 DEF TypeOK, Top
<1>3. ASSUME NEW s \in Surfaces
      PROVE  /\ present'[s] \in Present /\ node'[s] \in Node
             /\ present'[s].parent = None => present'[s] = NoPresent
             /\ present'[s].parent # None => top'[present'[s].parent].life = "mapped"
             /\ Fine(s)'
  <2>1. /\ present'[s] = IF present[s].parent = w THEN NoPresent ELSE present[s]
        /\ node'[s] = IF present[s].parent = w THEN SetEnabled(node[s], sub[s], w, TRUE)
                      ELSE node[s]
    BY DEF UnmapToplevel, DestroyAll, Destroy
  <2>2. /\ sub[s] \in Sub /\ node[s] \in Node /\ present[s] \in Present
        /\ present[s].parent = None => present[s] = NoPresent
        /\ present[s].parent # None => Mapped(present[s].parent)
        /\ sub[s].parent \in Windows \cup {None}
        /\ present[s].parent \in Windows \cup {None}
        /\ Fine(s)
    BY SurfaceFacts
  <2>3. CASE present[s].parent = w
    <3>1. /\ ~node[s].enabled => sub[s].added /\ sub[s].parent = w
          /\ sub[s].added => sub[s].parent # None
      BY <2>2, <2>3 DEF Fine
    <3>2. node'[s] = SetEnabled(node[s], sub[s], w, TRUE) /\ present'[s] = NoPresent
      BY <2>1, <2>3
    <3>3. node'[s] \in Node /\ node'[s].enabled
      BY <2>2, <3>1, <3>2, EnableFacts
    <3> QED
      BY <1>1, <3>1, <3>2, <3>3, NoPresentTyped DEF Fine
  <2>4. CASE present[s].parent # w
    <3>1. present'[s] = present[s] /\ node'[s] = node[s]
      BY <2>1, <2>4
    <3>2. present[s].parent # None => top'[present[s].parent].life = "mapped"
      BY <1>2, <2>2, <2>4 DEF Mapped
    <3>3. present[s].parent = sub[s].parent /\ SurfaceMapped(sub[s])'
            => /\ SurfaceMapped(sub[s]) /\ sub[s].parent \in Windows \ {w}
      BY <1>1, <1>2, <2>2, <2>4 DEF SurfaceMapped, Mapped
    <3> QED
      BY <1>1, <1>2, <2>2, <3>1, <3>2, <3>3 DEF Fine
  <2> QED
    BY <2>3, <2>4
<1>4. present' \in [Surfaces -> Present] /\ node' \in [Surfaces -> Node]
  BY <1>3 DEF UnmapToplevel, DestroyAll
<1>5. TypeOK'
  BY <1>1, <1>2, <1>3, <1>4 DEF TypeOK
<1>6. OwnersMapped'
  BY <1>3 DEF OwnersMapped, Mapped
<1> QED
  BY <1>3, <1>5, <1>6, FinePartsNext

\* xdg_toplevel_destroy: its subsurfaces lose their nodes and their role.
LEMMA DestroyToplevelKeeps ==
    ASSUME SInv, NEW w \in Windows, DestroyToplevel(w)
    PROVE  SInv'
<1>1. /\ top' = [top EXCEPT ![w].life = "gone"] /\ moved' = moved \ {w}
      /\ w # None /\ TypeOK
  BY NoneAssumption DEF DestroyToplevel, SInv
<1>2. /\ top' \in [Windows -> Top]
      /\ top'[w].life = "gone"
      /\ \A x \in Windows \ {w} : top'[x] = top[x]
  BY <1>1 DEF TypeOK, Top
<1>3. ASSUME NEW s \in Surfaces
      PROVE  /\ present'[s] \in Present /\ node'[s] \in Node /\ sub'[s] \in Sub
             /\ present'[s].parent = None => present'[s] = NoPresent
             /\ present'[s].parent # None => top'[present'[s].parent].life = "mapped"
             /\ Fine(s)'
  <2>1. /\ present'[s] = IF present[s].parent = w THEN NoPresent ELSE present[s]
        /\ node'[s] = IF sub[s].parent = w THEN FreshNode ELSE node[s]
        /\ sub'[s] = IF sub[s].parent = w THEN [sub[s] EXCEPT !.parent = None, !.added = FALSE]
                     ELSE sub[s]
    BY DEF DestroyToplevel, Destroy, Children
  <2>2. /\ sub[s] \in Sub /\ node[s] \in Node /\ present[s] \in Present
        /\ present[s].parent = None => present[s] = NoPresent
        /\ present[s].parent # None => Mapped(present[s].parent)
        /\ sub[s].parent \in Windows \cup {None}
        /\ present[s].parent \in Windows \cup {None}
        /\ Fine(s)
    BY SurfaceFacts
  <2>3. /\ present'[s] \in Present
        /\ present'[s].parent = None => present'[s] = NoPresent
        /\ present'[s].parent # None => top'[present'[s].parent].life = "mapped"
        /\ present'[s] = present[s] \/ present'[s] = NoPresent
    BY <1>2, <2>1, <2>2, NoPresentTyped DEF Mapped
  <2>4. CASE sub[s].parent = w
    <3>1. sub'[s] = [sub[s] EXCEPT !.parent = None, !.added = FALSE] /\ node'[s] = FreshNode
      BY <2>1, <2>4
    <3>2. sub'[s] \in Sub /\ ~sub'[s].added /\ sub'[s].parent = None
      BY <2>2, <3>1 DEF Sub
    <3>3. node'[s] \in Node /\ node'[s].enabled
      BY <3>1 DEF FreshNode, Node
    <3> QED
      BY <2>3, <3>2, <3>3 DEF Fine, SurfaceMapped
  <2>5. CASE sub[s].parent # w
    <3>1. sub'[s] = sub[s] /\ node'[s] = node[s]
      BY <2>1, <2>5
    <3>2. SurfaceMapped(sub[s])' => /\ SurfaceMapped(sub[s]) /\ sub[s].parent \in Windows \ {w}
      BY <1>2, <2>2, <2>5, <3>1 DEF SurfaceMapped, Mapped
    <3>3. CASE present[s].parent = w
      BY <2>1, <2>2, <2>3, <2>5, <3>1, <3>2, <3>3, NoPresentTyped DEF Fine, SurfaceMapped, Mapped
    <3>4. CASE present[s].parent # w
      <4>1. present'[s] = present[s]
        BY <2>1, <3>4
      <4> QED
        BY <1>1, <1>2, <2>2, <2>3, <3>1, <3>2, <4>1 DEF Fine
    <3> QED
      BY <3>3, <3>4
  <2> QED
    BY <2>4, <2>5
<1>4. /\ present' \in [Surfaces -> Present] /\ node' \in [Surfaces -> Node]
      /\ sub' \in [Surfaces -> Sub]
  BY <1>3 DEF DestroyToplevel
<1>5. TypeOK'
  BY <1>1, <1>2, <1>3, <1>4 DEF TypeOK
<1>6. OwnersMapped'
  BY <1>3 DEF OwnersMapped, Mapped
<1> QED
  BY <1>3, <1>5, <1>6, FinePartsNext

\* wl_subcompositor.get_subsurface: not added, hence not mapped.
LEMMA GetSubsurfaceKeeps ==
    ASSUME SInv, NEW t \in Surfaces, NEW w \in Windows, GetSubsurface(t, w)
    PROVE  SInv'
<1>1. /\ sub' = [sub EXCEPT ![t].parent = w] /\ sub[t].parent = None
      /\ top' = top /\ moved' = moved /\ node' = node /\ present' = present /\ TypeOK
  BY DEF GetSubsurface, SInv
<1>2. ASSUME NEW s \in Surfaces
      PROVE  sub'[s] \in Sub /\ Fine(s)'
  <2>1. sub[s] \in Sub /\ Fine(s)
    BY SurfaceFacts
  <2>2. CASE s # t
    BY <1>1, <2>1, <2>2 DEF TypeOK, Fine, SurfaceMapped, Mapped
  <2>3. CASE s = t
    <3>1. sub'[s] = [sub[s] EXCEPT !.parent = w]
      BY <1>1, <2>3 DEF TypeOK
    <3>2. sub'[s] \in Sub /\ sub'[s].added = sub[s].added
      BY <2>1, <3>1 DEF Sub
    <3>3. ~sub[s].added /\ w # None
      BY <1>1, <2>1, <2>3, NoneAssumption DEF Fine
    <3> QED
      BY <1>1, <2>1, <3>2, <3>3 DEF Fine, SurfaceMapped
  <2> QED
    BY <2>2, <2>3
<1>3. sub' \in [Surfaces -> Sub]
  BY <1>1, <1>2 DEF TypeOK
<1>4. TypeOK' /\ OwnersMapped'
  BY <1>1, <1>3 DEF TypeOK, SInv, OwnersMapped, Mapped
<1> QED
  BY <1>2, <1>4, FinePartsNext

\* A subsurface without role has no node; its subpresent may stay, unseen by
\* the scene.
LEMMA DestroySubsurfaceKeeps ==
    ASSUME SInv, NEW t \in Surfaces, DestroySubsurface(t) \/ DestroySurface(t)
    PROVE  SInv'
<1>1. /\ top' = top /\ moved' = moved /\ TypeOK
      /\ node' = [node EXCEPT ![t] = FreshNode]
      /\ present' = present \/ present' = [present EXCEPT ![t] = NoPresent]
      /\ \/ sub' = [sub EXCEPT ![t].parent = None, ![t].added = FALSE]
         \/ sub' = [sub EXCEPT ![t].parent = None, ![t].added = FALSE, ![t].buffer = FALSE]
  BY DEF DestroySubsurface, DestroySurface, Destroy, SInv
<1>2. ASSUME NEW s \in Surfaces
      PROVE  /\ present'[s] \in Present /\ node'[s] \in Node /\ sub'[s] \in Sub
             /\ present'[s].parent = None => present'[s] = NoPresent
             /\ present'[s].parent # None => Mapped(present[s].parent)'
             /\ Fine(s)'
  <2>1. /\ sub[s] \in Sub /\ node[s] \in Node /\ present[s] \in Present
        /\ present[s].parent = None => present[s] = NoPresent
        /\ present[s].parent # None => Mapped(present[s].parent)
        /\ Fine(s)
    BY SurfaceFacts
  <2>2. /\ present'[s] \in Present
        /\ present'[s].parent = None => present'[s] = NoPresent
        /\ present'[s].parent # None => Mapped(present[s].parent)'
        /\ s # t => present'[s] = present[s]
    BY <1>1, <2>1, NoPresentTyped DEF TypeOK, Mapped
  <2>3. CASE s # t
    <3>1. sub'[s] = sub[s] /\ node'[s] = node[s]
      BY <1>1, <2>3 DEF TypeOK
    <3> QED
      BY <1>1, <2>1, <2>2, <2>3, <3>1 DEF Fine, SurfaceMapped, Mapped
  <2>4. CASE s = t
    <3>1. node'[s] = FreshNode
      BY <1>1, <2>4 DEF TypeOK
    <3>2. \/ sub'[s] = [sub[s] EXCEPT !.parent = None, !.added = FALSE]
          \/ sub'[s] = [sub[s] EXCEPT !.parent = None, !.added = FALSE, !.buffer = FALSE]
      BY <1>1, <2>4 DEF TypeOK
    <3>3. sub'[s] \in Sub /\ ~sub'[s].added /\ sub'[s].parent = None
      BY <2>1, <3>2 DEF Sub
    <3>4. node'[s] \in Node /\ node'[s].enabled
      BY <3>1 DEF FreshNode, Node
    <3> QED
      BY <2>2, <3>3, <3>4 DEF Fine, SurfaceMapped
  <2> QED
    BY <2>3, <2>4
<1>3. /\ present' \in [Surfaces -> Present] /\ node' \in [Surfaces -> Node]
      /\ sub' \in [Surfaces -> Sub]
  BY <1>1, <1>2 DEF TypeOK
<1>4. TypeOK' /\ OwnersMapped'
  BY <1>1, <1>2, <1>3 DEF TypeOK, OwnersMapped
<1> QED
  BY <1>2, <1>4, FinePartsNext

\* The subsurface's own commit: its subpresent is placed anew if it is mapped,
\* and the scene's listener runs before or after.
LEMMA CommitSurfaceKeeps ==
    ASSUME SInv, NEW t \in Surfaces, NEW r \in Sub, CommitSurface(t, r),
           r.parent = sub[t].parent, r.added = sub[t].added, r.pos = sub[t].pos,
           r.buffer => r.width \in Widths
    PROVE  SInv'
<1>1. PICK ok \in Creates :
         LET listed == present[t].parent # None /\ SurfaceMapped(r)
             p == IF listed
                  THEN Place(present[t], r.width, top[present[t].parent].origin, ok)
                  ELSE present[t]
         IN /\ sub' = [sub EXCEPT ![t] = r]
            /\ present' = [present EXCEPT ![t] = p]
            /\ node' = [node EXCEPT ![t] = AfterCommit(t, r, node[t], p)]
            /\ UNCHANGED <<top, moved>>
  BY DEF CommitSurface
<1>2. /\ top' = top /\ moved' = moved /\ TypeOK /\ ok \in BOOLEAN
      /\ \A s \in Surfaces \ {t} : sub'[s] = sub[s] /\ present'[s] = present[s] /\ node'[s] = node[s]
  BY <1>1, SizesAssumption DEF SInv, TypeOK
<1>3. ASSUME NEW s \in Surfaces
      PROVE  /\ present'[s] \in Present /\ node'[s] \in Node /\ sub'[s] \in Sub
             /\ present'[s].parent = None => present'[s] = NoPresent
             /\ present'[s].parent # None => Mapped(present[s].parent)'
             /\ Fine(s)'
  <2>1. /\ sub[s] \in Sub /\ node[s] \in Node /\ present[s] \in Present
        /\ present[s].parent = None => present[s] = NoPresent
        /\ present[s].parent # None => Mapped(present[s].parent)
        /\ present[s].parent \in Windows \cup {None}
        /\ Fine(s)
    BY SurfaceFacts
  <2>2. CASE s # t
    <3>1. sub'[s] = sub[s] /\ present'[s] = present[s] /\ node'[s] = node[s]
      BY <1>2, <2>2
    <3> QED
      BY <1>2, <2>1, <3>1 DEF Fine, SurfaceMapped, Mapped
  <2>3. CASE s = t
    <3> DEFINE listed == present[t].parent # None /\ SurfaceMapped(r)
               p == IF listed
                    THEN Place(present[t], r.width, top[present[t].parent].origin, ok)
                    ELSE present[t]
               enabled == IF r.added THEN [node[t] EXCEPT !.enabled = TRUE] ELSE node[t]
    <3>1. /\ sub'[s] = r /\ present'[s] = p /\ node'[s] = AfterCommit(t, r, node[t], p)
      BY <1>1, <2>3 DEF SInv, TypeOK
    <3>2. listed => r.width \in Widths /\ top[present[t].parent].origin \in Origins
      BY <1>2, <2>1, <2>3 DEF SurfaceMapped, TypeOK, Top
    <3>3. /\ p \in Present /\ p.parent = present[t].parent /\ p.offset = present[t].offset
          /\ listed /\ p.shown => /\ p.left = top[p.parent].origin + p.offset - Shadow
                                   /\ p.width = r.width
          /\ present[t].shown => p.shown
          /\ ~listed => p = present[t]
      BY <1>2, <2>1, <2>3, <3>2, PlaceFacts
    <3>4. /\ enabled \in Node /\ enabled.late = node[t].late
          /\ enabled.enabled
      <4>1. ~r.added => node[t].enabled
        BY <2>1, <2>3 DEF Fine
      <4> QED
        BY <2>1, <2>3, <4>1 DEF Node
    <3>5. node'[s] = IF node[t].late \/ p.parent = None \/ ~SurfaceMapped(r)
                     THEN enabled ELSE HideFor(enabled, r, p)
      BY <3>1 DEF AfterCommit
    <3>6. SurfaceMapped(r) => r.parent # None /\ r.added
      BY DEF SurfaceMapped, Mapped
    <3>7. SurfaceMapped(sub[s])' <=> SurfaceMapped(r)
      BY <1>2, <3>1 DEF SurfaceMapped, Mapped
    <3> HIDE DEF p, enabled
    <3>8. /\ node'[s] \in Node
          /\ node'[s].late = node[t].late
          /\ ~node'[s].enabled => p.shown /\ r.added /\ r.parent = p.parent
          /\ listed /\ ~node[t].late /\ p.shown /\ r.parent = p.parent => ~node'[s].enabled
      BY <3>3, <3>4, <3>5, <3>6, HideForFacts
    <3>9. Fine(s)'
      <4>1. /\ sub[t].added => sub[t].parent # None
            /\ sub[t].added /\ present[t].parent = sub[t].parent /\ sub[t].parent # None
                  => present[t].offset = sub[t].pos
        BY <2>1, <2>3 DEF Fine
      <4>2. SurfaceMapped(r) /\ p.parent = r.parent => listed /\ p.offset = r.pos
        BY <3>3, <3>6, <4>1
      <4> QED
        BY <1>2, <3>1, <3>3, <3>7, <3>8, <4>1, <4>2 DEF Fine
    <3>10. p.parent = None => p = NoPresent
      BY <2>1, <2>3, <3>3
    <3> QED
      BY <1>2, <2>1, <2>3, <3>1, <3>3, <3>8, <3>9, <3>10 DEF Mapped
  <2> QED
    BY <2>2, <2>3
<1>4. /\ present' \in [Surfaces -> Present] /\ node' \in [Surfaces -> Node]
      /\ sub' \in [Surfaces -> Sub]
  BY <1>1, <1>2, <1>3 DEF TypeOK
<1>5. TypeOK' /\ OwnersMapped'
  BY <1>2, <1>3, <1>4 DEF TypeOK, OwnersMapped
<1> QED
  BY <1>3, <1>5, FinePartsNext

\* The host's move is known as such until its ConfigureNotify is handled.
LEMMA HostMovesKeeps ==
    ASSUME SInv, NEW w \in Windows, HostMoves(w)
    PROVE  SInv'
<1>1. PICK origin \in Origins : top' = [top EXCEPT ![w].origin = origin]
  BY DEF HostMoves
<1>2. /\ moved' = moved \cup {w} /\ sub' = sub /\ node' = node /\ present' = present /\ TypeOK
  BY DEF HostMoves, SInv
<1>3. /\ top' \in [Windows -> Top]
      /\ \A x \in Windows : top'[x].life = top[x].life /\ (x # w => top'[x] = top[x])
  BY <1>1, <1>2 DEF TypeOK, Top
<1>4. TypeOK'
  BY <1>2, <1>3 DEF TypeOK
<1>5. OwnersMapped'
  <2> SUFFICES ASSUME NEW s \in Surfaces, present'[s].parent # None
               PROVE  Mapped(present[s].parent)'
    BY DEF OwnersMapped
  <2>1. Mapped(present[s].parent) /\ present[s].parent \in Windows
    BY <1>2, SurfaceFacts
  <2> QED
    BY <1>2, <1>3, <2>1 DEF Mapped
<1>6. ASSUME NEW s \in Surfaces
      PROVE  Fine(s)'
  <2>1. Fine(s) /\ sub[s].parent \in Windows \cup {None}
    BY SurfaceFacts
  <2>2. SurfaceMapped(sub[s])' <=> SurfaceMapped(sub[s])
    BY <1>2, <1>3, <2>1 DEF SurfaceMapped, Mapped
  <2>3. SurfaceMapped(sub[s]) /\ sub[s].parent \notin moved'
          => top'[sub[s].parent] = top[sub[s].parent] /\ sub[s].parent \notin moved
    BY <1>2, <1>3, <2>1 DEF SurfaceMapped, Mapped
  <2> QED
    BY <1>2, <2>1, <2>2, <2>3 DEF Fine
<1> QED
  BY <1>4, <1>5, <1>6, FinePartsNext

\* wlx_window_reposition_subpresents brings every X window of the toplevel along.
LEMMA HandleConfigureKeeps ==
    ASSUME SInv, NEW w \in Windows, HandleConfigure(w)
    PROVE  SInv'
<1>1. top' = top /\ sub' = sub /\ moved' = moved \ {w} /\ TypeOK
  BY DEF HandleConfigure, SInv
<1>2. ASSUME NEW s \in Surfaces
      PROVE  /\ present'[s] \in Present /\ node'[s] \in Node
             /\ present'[s].parent = None => present'[s] = NoPresent
             /\ present'[s].parent # None => Mapped(present[s].parent)'
             /\ Fine(s)'
  <2> DEFINE p == Place(present[s], sub[s].width, top[w].origin, TRUE)
             m == HideFor(node[s], sub[s], present[s])
  <2>1. /\ sub[s] \in Sub /\ node[s] \in Node /\ present[s] \in Present
        /\ present[s].parent = None => present[s] = NoPresent
        /\ present[s].parent # None => Mapped(present[s].parent)
        /\ Fine(s)
    BY SurfaceFacts
  <2>2. /\ present'[s] = IF Repositioned(w, s) THEN p ELSE present[s]
        /\ node'[s] = IF Repositioned(w, s) THEN m ELSE node[s]
    BY DEF HandleConfigure
  <2>3. /\ SurfaceMapped(sub[s])' <=> SurfaceMapped(sub[s])
        /\ Mapped(present[s].parent) /\ present'[s].parent = present[s].parent
             => Mapped(present[s].parent)'
    BY <1>1 DEF SurfaceMapped, Mapped
  <2>4. CASE Repositioned(w, s)
    <3>1. sub[s].width \in Widths /\ top[w].origin \in Origins /\ TRUE \in BOOLEAN
      BY <1>1, <2>1 DEF Sub, TypeOK, Top
    <3>2. /\ p \in Present /\ p.parent = w /\ p.offset = present[s].offset /\ p.shown
          /\ p.left = top[w].origin + p.offset - Shadow /\ p.width = sub[s].width
      <4>1. present[s].parent = w
        BY <2>4 DEF Repositioned
      <4>2. present[s] \in Present
        BY <2>1
      <4>3. /\ p \in Present
            /\ p.parent = present[s].parent /\ p.offset = present[s].offset
            /\ p.shown <=> present[s].shown \/ TRUE
            /\ p.shown => /\ p.left = top[w].origin + present[s].offset - Shadow
                          /\ p.width = sub[s].width
        BY <3>1, <4>2, PlaceFacts
      <4> QED
        BY <4>1, <4>3
    <3>3. /\ m \in Node /\ m.late = node[s].late
          /\ present[s].shown /\ sub[s].added /\ sub[s].parent = present[s].parent => ~m.enabled
          /\ ~(present[s].shown /\ sub[s].added /\ sub[s].parent = present[s].parent) => m = node[s]
      BY <2>1, HideForFacts
    <3>4. present'[s] = p /\ node'[s] = m
      BY <2>2, <2>4
    <3>5. /\ present[s].parent = w /\ present[s].shown /\ SurfaceMapped(sub[s]) /\ sub[s].added
          /\ w # None
      BY <2>4, NoneAssumption DEF Repositioned, SurfaceMapped
    <3> HIDE DEF p, m
    <3>6. Fine(s)'
      <4>1. /\ sub[s].added => sub[s].parent # None
            /\ sub[s].parent = w => present[s].offset = sub[s].pos
            /\ ~node[s].enabled => sub[s].parent = w
        BY <2>1, <3>5 DEF Fine
      <4>2. /\ present'[s].parent = w /\ present'[s].shown
            /\ sub[s].parent = w => /\ present'[s].offset = sub[s].pos
                                    /\ present'[s].left = top[w].origin + sub[s].pos - Shadow
                                    /\ present'[s].width = sub[s].width
                                    /\ ~node'[s].enabled
            /\ ~node'[s].enabled => sub[s].parent = w
        BY <3>2, <3>3, <3>4, <3>5, <4>1
      <4>3. CASE sub[s].parent = w
        <5>1. /\ present'[s].offset = sub'[s].pos
              /\ present'[s].left = top'[w].origin + sub'[s].pos - Shadow
              /\ present'[s].width = sub'[s].width
              /\ ~node'[s].enabled /\ sub'[s].parent = w /\ sub'[s].added
          BY <1>1, <3>5, <4>2, <4>3
        <5> QED
          BY <3>5, <4>2, <5>1 DEF Fine
      <4>4. CASE sub[s].parent # w
        <5>1. /\ sub'[s].parent # w /\ node'[s].enabled
              /\ sub'[s].added => sub'[s].parent # None
          BY <1>1, <4>1, <4>2, <4>4
        <5> QED
          BY <4>2, <5>1 DEF Fine
      <4> QED
        BY <4>3, <4>4
    <3> QED
      BY <2>1, <2>3, <3>2, <3>3, <3>4, <3>5, <3>6
  <2>5. CASE ~Repositioned(w, s)
    <3>1. present'[s] = present[s] /\ node'[s] = node[s]
      BY <2>2, <2>5
    <3> QED
      BY <1>1, <2>1, <2>3, <2>5, <3>1 DEF Fine, Repositioned
  <2> QED
    BY <2>4, <2>5
<1>3. present' \in [Surfaces -> Present] /\ node' \in [Surfaces -> Node]
  BY <1>2 DEF HandleConfigure
<1>4. TypeOK' /\ OwnersMapped'
  BY <1>1, <1>2, <1>3 DEF TypeOK, OwnersMapped
<1> QED
  BY <1>2, <1>4, FinePartsNext

(***************************************************************************)
(* The theorems.                                                            *)
(***************************************************************************)
LEMMA NextKeeps == SInv /\ [Next]_vars => SInv'
<1> SUFFICES ASSUME SInv, [Next]_vars PROVE SInv'
  OBVIOUS
<1>1. ASSUME NEW w \in Windows,
             \/ CommitToplevel(w) \/ CommitUnmapped(w) \/ UnmapToplevel(w) \/ DestroyToplevel(w)
             \/ HostMoves(w) \/ HandleConfigure(w)
      PROVE  SInv'
  BY <1>1, CommitToplevelKeeps, CommitUnmappedKeeps, UnmapToplevelKeeps, DestroyToplevelKeeps,
     HostMovesKeeps, HandleConfigureKeeps
<1>2. ASSUME NEW s \in Surfaces, Draw(s) \/ Undraw(s)
      PROVE  SInv'
  <2>1. sub[s] \in Sub
    BY SurfaceFacts
  <2>2. CASE Draw(s)
    <3>1. PICK width \in Widths : CommitSurface(s, [sub[s] EXCEPT !.buffer = TRUE, !.width = width])
      BY <2>2 DEF Draw
    <3> DEFINE r == [sub[s] EXCEPT !.buffer = TRUE, !.width = width]
    <3>2. /\ r \in Sub /\ r.parent = sub[s].parent /\ r.added = sub[s].added
          /\ r.pos = sub[s].pos /\ r.width \in Widths
      BY <2>1 DEF Sub
    <3> HIDE DEF r
    <3> QED
      BY <3>1, <3>2, CommitSurfaceKeeps DEF r
  <2>3. CASE Undraw(s)
    <3> DEFINE r == [sub[s] EXCEPT !.buffer = FALSE]
    <3>1. /\ r \in Sub /\ r.parent = sub[s].parent /\ r.added = sub[s].added
          /\ r.pos = sub[s].pos /\ ~r.buffer
      BY <2>1 DEF Sub
    <3>2. CommitSurface(s, r)
      BY <2>3 DEF Undraw
    <3> HIDE DEF r
    <3> QED
      BY <3>1, <3>2, CommitSurfaceKeeps
  <2> QED
    BY <1>2, <2>2, <2>3
<1>3. ASSUME NEW s \in Surfaces, \/ \E w \in Windows : GetSubsurface(s, w)
                                \/ DestroySubsurface(s) \/ DestroySurface(s)
      PROVE  SInv'
  BY <1>3, GetSubsurfaceKeeps, DestroySubsurfaceKeeps
<1>4. CASE UNCHANGED vars
  <2>1. \A s \in Surfaces : Fine(s)'
    BY <1>4, SurfaceFacts DEF vars, Fine, SurfaceMapped, Mapped
  <2> QED
    BY <1>4, <2>1, FinePartsNext DEF vars, SInv, TypeOK, OwnersMapped, Mapped
<1> QED
  BY <1>1, <1>2, <1>3, <1>4 DEF Next, Client, Host

\* SInv, the inductive invariant, holds throughout, whatever the client hands
\* around, the host moves and the X server refuses (subpresent.c).
THEOREM Inductive == Spec => []SInv
<1>1. Init => SInv
  BY InitEstablishes
<1>2. SInv /\ [Next]_vars => SInv'
  BY NextKeeps
<1> QED
  BY <1>1, <1>2, PTL DEF Spec

\* Types, and no X window without a listed subpresent (subpresent_destroy).
THEOREM TypeCorrect == Spec => []TypeOK
<1>1. SInv => TypeOK
  BY DEF SInv
<1> QED
  BY <1>1, Inductive, PTL

\* sp->parent never dangles (xdg_toplevel_unmap, xdg_toplevel_destroy,
\* subpresent_get_or_create).
THEOREM NoOrphans == Spec => []OwnersMapped
<1>1. SInv => OwnersMapped
  BY DEF SInv
<1> QED
  BY <1>1, Inductive, PTL

\* No menu is hidden in the scene without an X window of its toplevel.
THEOREM MenusStayVisible == Spec => []NeverLost
<1>1. SInv => NeverLost
  BY DEF SInv, HiddenHasWindow, NeverLost
<1> QED
  BY <1>1, Inductive, PTL

\* "Parent scene must not paint the clipped copy" (subpresent.c), adoption apart.
THEOREM NotPaintedTwice == Spec => []PaintedOnce
<1>1. SInv => PaintedOnce
  BY DEF SInv
<1> QED
  BY <1>1, Inductive, PTL

\* X windows and hit boxes follow the toplevel (subpresent_position_and_present,
\* wlx_window_reposition_subpresents).
THEOREM WindowsFollow == Spec => []BoxesFollow
<1>1. SInv => BoxesFollow
  BY DEF SInv
<1> QED
  BY <1>1, Inductive, PTL

\* A toplevel's commit lists exactly what reaches out of it
\* (wlx_window_sync_subpresents).
THEOREM CommitPromotes == Spec => PromotesOverflow
<1> DEFINE Lists(w) == \A s \in Surfaces :
              present'[s].parent = w <=> /\ sub'[s].parent = w /\ sub'[s].buffer
                                         /\ Overflows(sub'[s], top'[w].width)
<1>1. SInv => \A w \in Windows : CommitToplevel(w) => Lists(w)
  BY CommitToplevelKeeps
<1>2. SInv /\ [Next]_vars => [\A w \in Windows : CommitToplevel(w) => Lists(w)]_vars
  BY <1>1
<1> QED
  BY <1>2, Inductive, PTL DEF Spec, PromotesOverflow
=============================================================================
