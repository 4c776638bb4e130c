----------------------------- MODULE Subpresent -----------------------------
(***************************************************************************)
(* Subsurfaces that reach out of their toplevel (menubar menus) are shown   *)
(* in X11 windows of their own, "present windows" (subpresent.c).  The      *)
(* client owns the tree of surfaces and reparents, resizes and destroys at  *)
(* will; the host moves the toplevels; the compositor promotes and demotes  *)
(* in the toplevel's commit and repaints in the subsurface's.  One          *)
(* dimension is modelled, at scale 1; the other behaves alike.              *)
(***************************************************************************)
EXTENDS Integers

CONSTANTS Windows,   \* toplevels
          Surfaces,  \* wl_surfaces with the subsurface role
          None,      \* no toplevel
          Offsets,   \* where a client places a subsurface
          Widths,    \* widths of subsurfaces
          Roots,     \* widths of toplevel surfaces
          Origins,   \* where the host places a toplevel's content window
          Shadow,    \* left edge of the xdg window geometry; 0 with --csd
          Creates    \* subset of BOOLEAN: does creating an X window succeed

ASSUME NoneAssumption == None \notin Windows
ASSUME SizesAssumption == /\ Offsets \subseteq Int /\ Origins \subseteq Int /\ Shadow \in Int
                          /\ Widths \subseteq Nat \ {0} /\ Roots \subseteq Nat \ {0}
                          /\ Creates \subseteq BOOLEAN

VARIABLES top,     \* each toplevel: is it mapped, its width, its root position
          moved,   \* toplevels whose ConfigureNotify is on its way
          sub,     \* each subsurface, as committed
          node,    \* its buffer node in the scene of its toplevel
          present  \* its struct wlx_subpresent

vars == <<top, moved, sub, node, present>>

Top == [life : {"live", "mapped", "gone"}, width : Roots, origin : Origins]
Sub == [parent : Windows \cup {None}, \* wl_subsurface's parent; None: no wl_subsurface
        added : BOOLEAN,              \* the parent has committed since
        buffer : BOOLEAN,
        pos : Offsets, width : Widths]
\* `late': the scene's commit listener was registered after the subpresent's.
Node == [enabled : BOOLEAN, late : BOOLEAN]
Present == [parent : Windows \cup {None}, \* None: not in server->subpresents
            offset : Int,
            shown : BOOLEAN,              \* xpresent # NULL
            left : Int, width : Nat]      \* its X geometry, and the hit box

NoPresent == [parent |-> None, offset |-> 0, shown |-> FALSE, left |-> 0, width |-> 0]
FreshNode == [enabled |-> TRUE, late |-> FALSE]

Mapped(w) == w # None /\ top[w].life = "mapped"
\* subsurface_consider_map: a subsurface is mapped exactly in this case.
SurfaceMapped(r) == r.added /\ r.buffer /\ Mapped(r.parent)
\* The scene tree of toplevel w holds the node of subsurface r.
InScene(r, w) == r.added /\ r.parent = w

(***************************************************************************)
(* The subpresent's handlers.                                               *)
(***************************************************************************)
\* subpresent_position_and_present, on a listed p of a mapped surface of that
\* width: the X window is created on demand and placed over the toplevel, whose
\* content is at origin.
Place(p, width, origin, ok) ==
    IF p.shown \/ ok
    THEN [p EXCEPT !.shown = TRUE, !.width = width, !.left = origin + p.offset - Shadow]
    ELSE p

\* scene_set_surface_enabled below the scene tree of toplevel w
SetEnabled(n, r, w, on) == IF InScene(r, w) THEN [n EXCEPT !.enabled = on] ELSE n

\* The node once p was placed: hidden, if there is an X window.
HideFor(n, r, p) == IF p.shown THEN SetEnabled(n, r, p.parent, FALSE) ELSE n

DestroyKeepingWindow(p) == [p EXCEPT !.parent = None]
Destroy(p) == NoPresent

\* wlx_window_destroy_subpresents
DestroyNone(w) == UNCHANGED <<present, node>>
DestroyAll(w) ==
    /\ present' = [s \in Surfaces |->
                     IF present[s].parent = w THEN Destroy(present[s]) ELSE present[s]]
    /\ node' = [s \in Surfaces |->
                  IF present[s].parent = w THEN SetEnabled(node[s], sub[s], w, TRUE)
                  ELSE node[s]]

(***************************************************************************)
(* The client's toplevels.                                                  *)
(***************************************************************************)
\* subpresent_sync_iterator: does subsurface r reach out of a root that wide?
Overflows(r, root) == r.pos < 0 \/ r.pos + r.width > root

\* subpresent_get_or_create
GetOrCreateKeepingParent(p, w, offset) ==
    [p EXCEPT !.parent = IF @ = None THEN w ELSE @, !.offset = offset]
GetOrCreateUnmoved(p, w, offset) ==
    [p EXCEPT !.parent = w, !.offset = IF p.parent = None THEN offset ELSE @]
GetOrCreate(p, w, offset) == [p EXCEPT !.parent = w, !.offset = offset]

\* wlx_window_sync_subpresents of toplevel w that is `root' wide, on subsurfaces
\* surf, their nodes n and subpresents p.
SyncAlwaysShows(w, root, surf, n, p, ok) ==
    LET Wanted(s) == surf[s].parent = w /\ surf[s].buffer /\ Overflows(surf[s], root)
        Placed(s) == Place(GetOrCreate(p[s], w, surf[s].pos), surf[s].width, top'[w].origin, ok)
        Dropped(s) == ~Wanted(s) /\ p[s].parent = w
    IN /\ present' = [s \in Surfaces |-> CASE Wanted(s)  -> Placed(s)
                                           [] Dropped(s) -> Destroy(p[s])
                                           [] OTHER      -> p[s]]
       /\ node' = [s \in Surfaces |->
                     IF Wanted(s) THEN SetEnabled(n[s], surf[s], w, FALSE) ELSE n[s]]
Sync(w, root, surf, n, p, ok) ==
    LET Wanted(s) == surf[s].parent = w /\ surf[s].buffer /\ Overflows(surf[s], root)
        Placed(s) == Place(GetOrCreate(p[s], w, surf[s].pos), surf[s].width, top'[w].origin, ok)
        Dropped(s) == ~Wanted(s) /\ p[s].parent = w
        Listening(s) == IF p[s].parent = None THEN [n[s] EXCEPT !.late = FALSE] ELSE n[s]
    IN /\ present' = [s \in Surfaces |-> CASE Wanted(s)  -> Placed(s)
                                           [] Dropped(s) -> Destroy(p[s])
                                           [] OTHER      -> p[s]]
       /\ node' = [s \in Surfaces |->
                     CASE Wanted(s)  -> HideFor(Listening(s), surf[s], Placed(s))
                       [] Dropped(s) -> SetEnabled(n[s], surf[s], w, TRUE)
                       [] OTHER      -> n[s]]

\* What a toplevel's commit does to its subsurfaces: new positions apply, and a
\* new one gets a scene node.  window_new_subsurface then synchronises while
\* that one is still unmapped, which destroys a subpresent it has here.
Added(s, w) == sub[s].parent = w /\ ~sub[s].added
Positioned(w, pos) ==
    [s \in Surfaces |-> IF sub[s].parent = w
                        THEN [sub[s] EXCEPT !.added = TRUE, !.pos = pos[s]] ELSE sub[s]]
NewNodes(w) ==
    [s \in Surfaces |-> IF Added(s, w)
                        THEN [FreshNode EXCEPT !.late = present[s].parent \notin {None, w}]
                        ELSE node[s]]
Kept(w) == [s \in Surfaces |-> IF Added(s, w) /\ present[s].parent = w
                               THEN Destroy(present[s]) ELSE present[s]]
Children(w) == {s \in Surfaces : sub[s].parent = w}

\* surface_commit of a toplevel with a buffer: xdg_toplevel_map, if it was not
\* mapped, then the sync.
CommitToplevel(w) ==
    /\ top[w].life # "gone"
    /\ \E root \in Roots, origin \in Origins, pos \in [Children(w) -> Offsets], ok \in Creates :
         /\ Mapped(w) => origin = top[w].origin
         /\ top' = [top EXCEPT ![w] = [life |-> "mapped", width |-> root, origin |-> origin]]
         /\ sub' = Positioned(w, pos)
         /\ Sync(w, root, sub', NewNodes(w), Kept(w), ok)
    /\ UNCHANGED moved

\* A commit without a buffer, of a toplevel that is not mapped.
CommitUnmapped(w) ==
    /\ top[w].life = "live"
    /\ \E pos \in [Children(w) -> Offsets] : sub' = Positioned(w, pos)
    /\ node' = NewNodes(w)
    /\ UNCHANGED <<top, moved, present>>

\* xdg_toplevel_unmap
UnmapToplevel(w) ==
    /\ Mapped(w)
    /\ top' = [top EXCEPT ![w].life = "live"]
    /\ moved' = moved \ {w}
    /\ DestroyAll(w)
    /\ UNCHANGED sub

\* xdg_toplevel_destroy, with its wl_surface: the subsurfaces become inert.
DestroyToplevel(w) ==
    /\ top[w].life # "gone"
    /\ top' = [top EXCEPT ![w].life = "gone"]
    /\ moved' = moved \ {w}
    /\ sub' = [s \in Surfaces |-> IF s \in Children(w)
                                  THEN [sub[s] EXCEPT !.parent = None, !.added = FALSE]
                                  ELSE sub[s]]
    /\ present' = [s \in Surfaces |->
                     IF present[s].parent = w THEN Destroy(present[s]) ELSE present[s]]
    /\ node' = [s \in Surfaces |-> IF s \in Children(w) THEN FreshNode ELSE node[s]]

(***************************************************************************)
(* The client's subsurfaces.                                                *)
(***************************************************************************)
GetSubsurface(s, w) ==
    /\ sub[s].parent = None /\ top[w].life # "gone"
    /\ sub' = [sub EXCEPT ![s].parent = w]
    /\ UNCHANGED <<top, moved, node, present>>

\* subsurface_destroy: the wl_surface, and its subpresent, live on.
DestroySubsurface(s) ==
    /\ sub[s].parent # None
    /\ sub' = [sub EXCEPT ![s].parent = None, ![s].added = FALSE]
    /\ node' = [node EXCEPT ![s] = FreshNode]
    /\ UNCHANGED <<top, moved, present>>

\* subpresent_handle_surface_destroy; the client may create another surface.
DestroySurface(s) ==
    /\ sub' = [sub EXCEPT ![s].parent = None, ![s].added = FALSE, ![s].buffer = FALSE]
    /\ node' = [node EXCEPT ![s] = FreshNode]
    /\ present' = [present EXCEPT ![s] = Destroy(@)]
    /\ UNCHANGED <<top, moved>>

\* A commit reaches the scene, which enables the node (subsurface_tree_
\* reconfigure_clip), and subpresent_handle_surface_commit, which hides it
\* again: in the order in which they were registered.
AfterCommitSceneLast(s, r, n, p) ==
    IF r.added THEN [n EXCEPT !.enabled = TRUE] ELSE n
AfterCommit(s, r, n, p) ==
    LET enabled == IF r.added THEN [n EXCEPT !.enabled = TRUE] ELSE n
    IN IF n.late \/ p.parent = None \/ ~SurfaceMapped(r) THEN enabled ELSE HideFor(enabled, r, p)

CommitSurface(s, r) ==
    \E ok \in Creates :
       LET listed == present[s].parent # None /\ SurfaceMapped(r)
           p == IF listed
                THEN Place(present[s], r.width, top[present[s].parent].origin, ok)
                ELSE present[s]
       IN /\ sub' = [sub EXCEPT ![s] = r]
          /\ present' = [present EXCEPT ![s] = p]
          /\ node' = [node EXCEPT ![s] = AfterCommit(s, r, @, p)]
          /\ UNCHANGED <<top, moved>>
Draw(s) == \E width \in Widths :
              CommitSurface(s, [sub[s] EXCEPT !.buffer = TRUE, !.width = width])
Undraw(s) == sub[s].buffer /\ CommitSurface(s, [sub[s] EXCEPT !.buffer = FALSE])

(***************************************************************************)
(* The host moves a toplevel; wlx_window_reposition_subpresents follows.    *)
(***************************************************************************)
HostMoves(w) ==
    /\ Mapped(w)
    /\ \E origin \in Origins \ {top[w].origin} : top' = [top EXCEPT ![w].origin = origin]
    /\ moved' = moved \cup {w}
    /\ UNCHANGED <<sub, node, present>>

Repositioned(w, s) ==
    present[s].parent = w /\ present[s].shown /\ SurfaceMapped(sub[s])
HandleConfigure(w) ==
    /\ w \in moved
    /\ moved' = moved \ {w}
    /\ present' = [s \in Surfaces |->
                     IF Repositioned(w, s)
                     THEN Place(present[s], sub[s].width, top[w].origin, TRUE)
                     ELSE present[s]]
    /\ node' = [s \in Surfaces |-> IF Repositioned(w, s)
                                   THEN HideFor(node[s], sub[s], present[s]) ELSE node[s]]
    /\ UNCHANGED <<top, sub>>

Init ==
    /\ top \in [Windows -> {r \in Top : r.life = "live"}]
    /\ moved = {}
    /\ sub \in [Surfaces -> {r \in Sub : r.parent = None /\ ~r.added /\ ~r.buffer}]
    /\ node = [s \in Surfaces |-> FreshNode]
    /\ present = [s \in Surfaces |-> NoPresent]

Client == \/ \E w \in Windows : \/ CommitToplevel(w) \/ CommitUnmapped(w)
                                \/ UnmapToplevel(w) \/ DestroyToplevel(w)
          \/ \E s \in Surfaces : \/ \E w \in Windows : GetSubsurface(s, w)
                                 \/ DestroySubsurface(s) \/ DestroySurface(s)
                                 \/ Draw(s) \/ Undraw(s)
Host == \E w \in Windows : HostMoves(w) \/ HandleConfigure(w)
Next == Client \/ Host
Spec == Init /\ [][Next]_vars

(***************************************************************************)
(* Properties                                                               *)
(***************************************************************************)
\* The state is well typed, and an X window belongs to a listed subpresent:
\* subpresent_destroy leaves none behind.
TypeOK == /\ top \in [Windows -> Top]
          /\ moved \subseteq Windows
          /\ sub \in [Surfaces -> Sub]
          /\ node \in [Surfaces -> Node]
          /\ present \in [Surfaces -> Present]
          /\ \A s \in Surfaces : present[s].parent = None => present[s] = NoPresent

\* "Present-windows first so OR X11 windows cannot outlive the parent": every
\* listed subpresent points to a mapped toplevel, whichever toplevels adopted
\* its surface before and whatever became of them.
OwnersMapped == \A s \in Surfaces : present[s].parent # None => Mapped(present[s].parent)

\* A subsurface hidden in the scene of its toplevel has an X window over that
\* toplevel: promotion, adoption and demotion never lose a menu.
NeverLost ==
    \A s \in Surfaces :
       SurfaceMapped(sub[s]) /\ ~node[s].enabled
         => present[s].shown /\ present[s].parent = sub[s].parent

\* "Parent scene must not paint the clipped copy": a promoted subsurface is not
\* painted in the scene too, unless it was promoted before its toplevel's scene
\* knew it (it came from another toplevel).
PaintedOnce ==
    \A s \in Surfaces :
       SurfaceMapped(sub[s]) /\ present[s].shown /\ present[s].parent = sub[s].parent
         => ~node[s].enabled \/ node[s].late

\* The same, for adopted subsurfaces too.
PaintedOnceAlways ==
    \A s \in Surfaces :
       SurfaceMapped(sub[s]) /\ present[s].shown /\ present[s].parent = sub[s].parent
         => ~node[s].enabled

\* Once the compositor has heard where a toplevel is, the X windows of its
\* subsurfaces, which are also the boxes the pointer is tested against, lie
\* where the client put the subsurfaces, at their present size.
BoxesFollow ==
    \A s \in Surfaces :
       LET p == present[s] IN LET r == sub[s] IN
       SurfaceMapped(r) /\ p.shown /\ p.parent = r.parent /\ r.parent \notin moved
         => p.left = top[r.parent].origin + r.pos - Shadow /\ p.width = r.width

\* After a toplevel's commit its listed subsurfaces are the mapped ones that
\* reach out of it, wherever those were listed before.
PromotesOverflow ==
    [][\A w \in Windows : CommitToplevel(w) =>
         \A s \in Surfaces :
            present'[s].parent = w <=> /\ sub'[s].parent = w /\ sub'[s].buffer
                                       /\ Overflows(sub'[s], top'[w].width)]_vars
=============================================================================
