-------------------------- MODULE PopupGrabProofs --------------------------
(***************************************************************************)
(* The pointer grab of menus, for any number of popups and buttons, any     *)
(* placement of windows and any backlog on the two connections: the grab    *)
(* ends with its menus, a click keeps its surface and a press outside       *)
(* dismisses the menus.                                                     *)
(*                                                                         *)
(* The argument: only mapped popups have windows, so the windows that are   *)
(* up are the menus; whatever takes one away gives the grab up with the     *)
(* last of them before the handler ends.  Inside a handler a window may be  *)
(* gone and the flag not yet: Half is the invariant without that part.      *)
(***************************************************************************)
EXTENDS PopupGrab, WellFoundedInduction, TLAPS

Half(s) ==
    /\ s \in Seat
    /\ s.shown \subseteq s.mapped /\ s.mapped \subseteq ToSet(s.stack)
    /\ s.xgrab.kind = "active" => s.flag /\ s.xgrab.win \in s.shown
Good(s) ==
    /\ Half(s)
    /\ s.flag \/ s.pending => s.shown # {}

PInv == TypeOK /\ Good(seat)

\* What pointer handlers leave alone.
SameGrab(s, t) ==
    /\ t.stack = s.stack /\ t.mapped = s.mapped /\ t.shown = s.shown
    /\ t.flag = s.flag /\ t.pending = s.pending /\ t.xgrab = s.xgrab

(***************************************************************************)
(* Sequences and records.                                                   *)
(***************************************************************************)
LEMMA Least ==
    ASSUME NEW T \in SUBSET Nat, T # {}
    PROVE  \E x \in T : \A y \in T : x <= y
<1>1. PICK x \in T : \A y \in T : <<y, x>> \notin OpToRel(<, Nat)
  BY NatLessThanWellFounded, WFMin, Zenon
<1>2. \A y \in T : ~(y < x)
  BY <1>1 DEF OpToRel
<1> QED BY <1>2

LEMMA Elements ==
    ASSUME NEW S, NEW q \in Seq(S)
    PROVE  /\ ToSet(q) \subseteq S
           /\ \A x : x \in ToSet(q) <=> \E i \in DOMAIN q : q[i] = x
           /\ DOMAIN q = 1..Len(q) /\ Len(q) \in Nat
BY DEF ToSet

LEMMA Prepended ==
    ASSUME NEW S, NEW q \in Seq(S), NEW x \in S
    PROVE  <<x>> \o q \in Seq(S) /\ ToSet(q) \subseteq ToSet(<<x>> \o q)
<1> DEFINE t == <<x>> \o q
<1>1. t \in Seq(S) /\ Len(t) = Len(q) + 1 /\ \A i \in 1..Len(q) : t[i + 1] = q[i]
  OBVIOUS
<1> HIDE DEF t
<1>2. ASSUME NEW i \in DOMAIN q PROVE q[i] \in ToSet(t)
  <2>1. i \in 1..Len(q) /\ Len(q) \in Nat
    BY Elements
  <2>2. i + 1 \in 1..Len(t) /\ t[i + 1] = q[i]
    BY <1>1, <2>1
  <2> QED BY <1>1, <2>2, Elements
<1> QED BY <1>1, <1>2, Elements DEF t

\* Taking the element at k away loses no other.
LEMMA Removed ==
    ASSUME NEW S, NEW q \in Seq(S), NEW k \in 1..Len(q)
    PROVE  RemoveAt(q, k) \in Seq(S) /\ ToSet(q) \ {q[k]} \subseteq ToSet(RemoveAt(q, k))
<1> DEFINE a == SubSeq(q, 1, k - 1)
           b == SubSeq(q, k + 1, Len(q))
           t == a \o b
<1>0. PICK n \in Nat : n = Len(q) /\ k \in 1..n
  OBVIOUS
<1>1. /\ a \in Seq(S) /\ Len(a) = k - 1
      /\ \A i \in 1..(k - 1) : a[i] = q[i]
  BY <1>0
<1>2. /\ b \in Seq(S) /\ Len(b) = n - k
      /\ \A i \in 1..(n - k) : b[i] = q[i + k]
  BY <1>0
<1> HIDE DEF a, b
<1>3. /\ t \in Seq(S) /\ Len(t) = n - 1
      /\ \A i \in 1..(k - 1) : t[i] = a[i]
      /\ \A i \in 1..(n - k) : t[i + k - 1] = b[i]
  BY <1>0, <1>1, <1>2
<1> HIDE DEF t
<1>4. ASSUME NEW i \in 1..n, i # k PROVE q[i] \in ToSet(t)
  <2>1. CASE i < k
    <3>1. i \in 1..(n - 1) /\ t[i] = q[i]
      BY <1>0, <1>1, <1>3, <2>1
    <3> QED BY <1>3, <3>1, Elements
  <2>2. CASE i > k
    <3>1. i - k \in 1..(n - k) /\ i - 1 \in 1..(n - 1) /\ (i - k) + k - 1 = i - 1 /\ (i - k) + k = i
      BY <1>0, <2>2
    <3>2. t[i - 1] = q[i]
      BY <1>2, <1>3, <3>1
    <3> QED BY <1>3, <3>1, <3>2, Elements
  <2> QED BY <1>4, <2>1, <2>2
<1>5. t = RemoveAt(q, k)
  BY DEF t, a, b, RemoveAt
<1>6. \A x \in ToSet(q) \ {q[k]} : x \in ToSet(t)
  BY <1>0, <1>4, Elements
<1> QED BY <1>3, <1>5, <1>6

LEMMA SeatFields ==
    ASSUME NEW s \in Seat
    PROVE  /\ s.stack \in Seq(Popups) /\ s.mapped \subseteq Popups /\ s.shown \subseteq Popups
           /\ s.grabbing \subseteq Popups /\ s.done \subseteq Popups
           /\ s.xdgGrab \in BOOLEAN /\ s.flag \in BOOLEAN /\ s.pending \in BOOLEAN
           /\ s.held \in [Buttons -> 0..MaxClicks]
           /\ s.focus \in Surfaces \cup {None} /\ s.xgrab \in Grabs
BY DEF Seat

LEMMA Held ==
    /\ NoButtons \in [Buttons -> 0..MaxClicks]
    /\ \A b \in Buttons : NoButtons[b] = 0
BY DEF NoButtons, MaxClicks

LEMMA SameGrabGood ==
    ASSUME NEW s, NEW t \in Seat, SameGrab(s, t)
    PROVE  /\ Half(s) => Half(t)
           /\ Good(s) => Good(t)
BY DEF SameGrab, Half, Good

LEMMA SameGrabTrans ==
    ASSUME NEW s, NEW t, NEW u, SameGrab(s, t), SameGrab(t, u)
    PROVE  SameGrab(s, u)
BY DEF SameGrab

(***************************************************************************)
(* Pointer handlers: the grab stays as it is.                               *)
(***************************************************************************)
LEMMA HitTyped ==
    ASSUME NEW s \in Seat, NEW pos
    PROVE  /\ Hit(s, pos) \in Surfaces \cup {None}
           /\ Hit(s, pos) # None => Hit(s, pos) = pos
BY SeatFields DEF Hit, Surfaces

LEMMA NotifyEnterKeeps ==
    ASSUME NEW s \in Seat, NEW surface \in Surfaces \cup {None}
    PROVE  LET t == NotifyEnter(s, surface) IN
           /\ t \in Seat /\ SameGrab(s, t) /\ t.grabbing = s.grabbing /\ t.done = s.done
           /\ t.xdgGrab = s.xdgGrab
           /\ t.focus = IF s.xdgGrab /\ surface = Other THEN None ELSE surface
           /\ t = s \/ (t.held = NoButtons /\ t.focus # s.focus)
<1> DEFINE focus == IF s.xdgGrab /\ surface = Other THEN None ELSE surface
           t == [s EXCEPT !.focus = focus, !.held = NoButtons]
<1>1. focus \in Surfaces \cup {None}
  OBVIOUS
<1> HIDE DEF focus
<1>2. /\ t \in Seat /\ SameGrab(s, t) /\ t.grabbing = s.grabbing /\ t.done = s.done
      /\ t.xdgGrab = s.xdgGrab /\ t.focus = focus /\ t.held = NoButtons
  BY <1>1, Held DEF Seat, SameGrab
<1> HIDE DEF t
<1>3. SameGrab(s, s)
  BY DEF SameGrab
<1>4. NotifyEnter(s, surface) = IF focus = s.focus THEN s ELSE t
  BY DEF NotifyEnter, focus, t
<1>5. CASE focus = s.focus
  BY <1>3, <1>4, <1>5 DEF focus
<1>6. CASE focus # s.focus
  BY <1>2, <1>4, <1>6 DEF focus
<1> QED BY <1>5, <1>6

LEMMA FocusCleared ==
    ASSUME NEW s \in Seat
    PROVE  LET t == [s EXCEPT !.focus = None] IN
           /\ t \in Seat /\ SameGrab(s, t) /\ t.grabbing = s.grabbing /\ t.done = s.done
           /\ t.xdgGrab = s.xdgGrab /\ t.focus = None /\ t.held = s.held
BY DEF Seat, SameGrab

\* RefreshFocus and Motion: the focus is kept, or cleared, or the surface hit.
LEMMA RefreshFocusKeeps ==
    ASSUME NEW s \in Seat, NEW pos
    PROVE  LET t == RefreshFocus(s, pos) IN
           /\ t \in Seat /\ SameGrab(s, t) /\ t.grabbing = s.grabbing /\ t.done = s.done
           /\ t.xdgGrab = s.xdgGrab
           /\ t.held = s.held \/ (t.held = NoButtons /\ (ButtonHeld(s) => Hit(s, pos) = s.focus \/ s.focus = None))
           /\ t.focus \in {s.focus, None, Hit(s, pos)}
           /\ ButtonHeld(s) /\ s.focus # None => t.focus \in {s.focus, None}
           /\ ~ButtonHeld(s) => t.focus \in {None, Hit(s, pos)} /\ ~ButtonHeld(t)
<1> DEFINE hit == Hit(s, pos)
<1>1. hit \in Surfaces \cup {None}
  BY HitTyped
<1>2. SameGrab(s, s)
  BY DEF SameGrab
<1>3. RefreshFocus(s, pos) = CASE hit = None -> [s EXCEPT !.focus = None]
         [] hit # None /\ ButtonHeld(s) /\ s.focus \notin {None, hit} -> s
         [] OTHER -> NotifyEnter(s, hit)
  BY DEF RefreshFocus
<1> HIDE DEF hit
<1>4. CASE hit = None
  <2>1. RefreshFocus(s, pos) = [s EXCEPT !.focus = None]
    BY <1>3, <1>4
  <2> QED BY <2>1, FocusCleared, Zenon DEF hit, ButtonHeld
<1>5. CASE hit # None /\ ButtonHeld(s) /\ s.focus \notin {None, hit}
  <2>1. RefreshFocus(s, pos) = s
    BY <1>3, <1>5
  <2> QED BY <1>2, <1>5, <2>1, Zenon DEF hit
<1>6. CASE hit # None /\ ~(ButtonHeld(s) /\ s.focus \notin {None, hit})
  <2>1. RefreshFocus(s, pos) = NotifyEnter(s, hit)
    BY <1>3, <1>6
  <2> DEFINE t == NotifyEnter(s, hit)
  <2>2. /\ t \in Seat /\ SameGrab(s, t) /\ t.grabbing = s.grabbing /\ t.done = s.done
        /\ t.xdgGrab = s.xdgGrab
        /\ t.focus = IF s.xdgGrab /\ hit = Other THEN None ELSE hit
        /\ t = s \/ (t.held = NoButtons /\ t.focus # s.focus)
    BY <1>1, NotifyEnterKeeps
  <2> HIDE DEF t
  <2>3. t.focus \in {None, hit}
    BY <2>2
  <2>4. t.held = s.held \/ t.held = NoButtons
    BY <2>2
  <2>5. ~ButtonHeld(s) => ~ButtonHeld(t)
    BY <2>4 DEF ButtonHeld
  <2> QED BY <1>6, <2>1, <2>2, <2>3, <2>4, <2>5, Zenon DEF t, hit
<1> QED BY <1>4, <1>5, <1>6

LEMMA MotionKeeps ==
    ASSUME NEW s \in Seat, NEW pos
    PROVE  LET t == Motion(s, pos) IN
           /\ t \in Seat /\ SameGrab(s, t)
           /\ ButtonHeld(s) => t = s
<1> DEFINE hit == Hit(s, pos)
<1>1. hit \in Surfaces \cup {None}
  BY HitTyped
<1>2. SameGrab(s, s)
  BY DEF SameGrab
<1>3. Motion(s, pos) \in {s, [s EXCEPT !.focus = None], NotifyEnter(s, hit)}
  BY DEF Motion
<1>4. ButtonHeld(s) => Motion(s, pos) = s
  BY DEF Motion
<1> HIDE DEF hit
<1>5. [s EXCEPT !.focus = None] \in Seat /\ SameGrab(s, [s EXCEPT !.focus = None])
  BY FocusCleared
<1>6. NotifyEnter(s, hit) \in Seat /\ SameGrab(s, NotifyEnter(s, hit))
  BY <1>1, NotifyEnterKeeps
<1> QED BY <1>2, <1>3, <1>4, <1>5, <1>6, Zenon

LEMMA GrabPressKeeps ==
    ASSUME NEW s \in Seat
    PROVE  LET t == GrabPress(s) IN
           /\ t \in Seat /\ SameGrab(s, t) /\ t.focus = s.focus /\ t.held = s.held
           /\ s.grabbing \subseteq s.mapped /\ s.focus \notin s.grabbing => s.grabbing \subseteq t.done
<1> DEFINE t == [s EXCEPT !.done = @ \cup s.grabbing, !.xdgGrab = FALSE]
<1>1. /\ t \in Seat /\ SameGrab(s, t) /\ t.focus = s.focus /\ t.held = s.held
      /\ s.grabbing \subseteq t.done
  BY DEF Seat, SameGrab
<1>2. SameGrab(s, s)
  BY DEF SameGrab
<1> HIDE DEF t
<1>3. GrabPress(s) = IF s.grabbing \subseteq s.mapped /\ s.focus \notin s.grabbing THEN t ELSE s
  BY DEF GrabPress, t
<1> QED BY <1>1, <1>2, <1>3, Zenon

LEMMA PressKeeps ==
    ASSUME NEW s \in Seat, NEW b \in Buttons, s.held[b] < MaxClicks
    PROVE  LET t == Press(s, b) IN
           /\ t \in Seat /\ SameGrab(s, t) /\ t.focus = s.focus
           /\ /\ s.held[b] = 0 /\ s.xdgGrab
              /\ s.grabbing \subseteq s.mapped /\ s.focus \notin s.grabbing
              => s.grabbing \subseteq t.done
<1> DEFINE u == [s EXCEPT !.held[b] = @ + 1]
<1>1. s.held \in [Buttons -> 0..MaxClicks] /\ MaxClicks = 2
  BY SeatFields DEF MaxClicks
<1>2. [s.held EXCEPT ![b] = @ + 1] \in [Buttons -> 0..MaxClicks]
  BY <1>1
<1>3. /\ u \in Seat /\ SameGrab(s, u) /\ u.focus = s.focus
      /\ u.grabbing = s.grabbing /\ u.mapped = s.mapped
  BY <1>2 DEF Seat, SameGrab
<1>4. Press(s, b) = IF s.held[b] = 0 /\ s.xdgGrab THEN GrabPress(u) ELSE u
  BY DEF Press, u
<1> HIDE DEF u
<1>5. /\ GrabPress(u) \in Seat /\ SameGrab(u, GrabPress(u)) /\ GrabPress(u).focus = u.focus
      /\ u.grabbing \subseteq u.mapped /\ u.focus \notin u.grabbing => u.grabbing \subseteq GrabPress(u).done
  BY <1>3, GrabPressKeeps
<1>6. SameGrab(s, GrabPress(u))
  BY <1>3, <1>5, SameGrabTrans
<1> QED BY <1>3, <1>4, <1>5, <1>6, Zenon

LEMMA ReleaseKeeps ==
    ASSUME NEW s \in Seat, NEW b \in Buttons
    PROVE  LET t == Release(s, b) IN t \in Seat /\ SameGrab(s, t)
<1>1. s.held \in [Buttons -> 0..MaxClicks] /\ MaxClicks = 2
  BY SeatFields DEF MaxClicks
<1>2. [s.held EXCEPT ![b] = IF @ > 0 THEN @ - 1 ELSE 0] \in [Buttons -> 0..MaxClicks]
  BY <1>1
<1> QED BY <1>2 DEF Release, Seat, SameGrab

(***************************************************************************)
(* wlx_popup_update_pointer_grab.                                           *)
(***************************************************************************)
SamePopups(s, t) ==
    /\ t.stack = s.stack /\ t.mapped = s.mapped /\ t.shown = s.shown /\ t.grabbing = s.grabbing

LEMMA NewestIsMenu ==
    ASSUME NEW s, Half(s), s.shown # {}
    PROVE  Menus(s) = s.shown /\ NewestMenu(s) \in s.shown
<1>1. s.stack \in Seq(Popups)
  BY SeatFields DEF Half
<1>2. Menus(s) = s.shown
  BY DEF Menus, Half
<1> DEFINE places == {i \in DOMAIN s.stack : s.stack[i] \in Menus(s)}
<1>3. places \in SUBSET Nat
  BY <1>1, Elements
<1>4. places # {}
  <2>1. PICK p \in s.shown : p \in ToSet(s.stack)
    BY DEF Half
  <2> QED BY <1>1, <1>2, <2>1, Elements
<1>5. \E i \in places : \A j \in places : i <= j
  BY <1>3, <1>4, Least
<1> DEFINE i == CHOOSE i \in places : \A j \in places : i <= j
<1>6. i \in places
  BY <1>5, Zenon
<1>7. NewestMenu(s) = s.stack[i]
  BY DEF NewestMenu
<1> QED BY <1>2, <1>6, <1>7

LEMMA UngrabGood ==
    ASSUME NEW s, Half(s)
    PROVE  LET t == Ungrab(s) IN
           /\ Good(t) /\ SamePopups(s, t)
           /\ t.focus = s.focus /\ t.held = s.held /\ t.xdgGrab = s.xdgGrab
<1>1. s \in Seat /\ NoGrab \in Grabs /\ NoGrab.kind = "none"
  BY DEF Half, NoGrab, Grabs
<1> DEFINE g == IF s.flag /\ s.xgrab.kind = "active" THEN NoGrab ELSE s.xgrab
           t == [s EXCEPT !.flag = FALSE, !.pending = FALSE, !.xgrab = g]
<1>2. g \in Grabs /\ g.kind # "active"
  BY <1>1, SeatFields DEF Half
<1> HIDE DEF g
<1>3. /\ t \in Seat /\ SamePopups(s, t)
      /\ t.focus = s.focus /\ t.held = s.held /\ t.xdgGrab = s.xdgGrab
      /\ t.flag = FALSE /\ t.pending = FALSE /\ t.xgrab = g
  BY <1>1, <1>2 DEF Seat, SamePopups
<1> HIDE DEF t
<1>4. Ungrab(s) = t
  BY DEF Ungrab, t, g
<1>5. Good(t)
  BY <1>2, <1>3 DEF Good, Half, SamePopups
<1> QED BY <1>3, <1>4, <1>5

LEMMA PendingGood ==
    ASSUME NEW s, Half(s), s.shown # {}, NEW pending \in BOOLEAN,
           ~s.flag
    PROVE  LET t == [s EXCEPT !.pending = pending] IN
           /\ Good(t) /\ SamePopups(s, t)
           /\ t.focus = s.focus /\ t.held = s.held /\ t.xdgGrab = s.xdgGrab
<1> DEFINE t == [s EXCEPT !.pending = pending]
<1>1. s \in Seat
  BY DEF Half
<1>2. /\ t \in Seat /\ SamePopups(s, t)
      /\ t.focus = s.focus /\ t.held = s.held /\ t.xdgGrab = s.xdgGrab
      /\ t.flag = s.flag /\ t.xgrab = s.xgrab
  BY <1>1 DEF Seat, SamePopups
<1> HIDE DEF t
<1>3. Good(t)
  BY <1>2 DEF Good, Half, SamePopups
<1> QED BY <1>2, <1>3 DEF t

LEMMA GrabPointerGood ==
    ASSUME NEW s, Half(s), s.shown # {}, ~s.flag, ~ButtonHeld(s), NEW pos, NEW ok
    PROVE  LET t == GrabPointer(s, pos, ok) IN
           /\ Good(t) /\ SamePopups(s, t) /\ t.xdgGrab = s.xdgGrab
           /\ t.focus \in {s.focus, None, Hit(s, pos)} /\ ~ButtonHeld(t)
<1>1. s \in Seat
  BY DEF Half
<1> DEFINE g == [kind |-> "active", win |-> NewestMenu(s)]
           u == [s EXCEPT !.flag = TRUE, !.pending = FALSE, !.xgrab = g]
           v == [s EXCEPT !.pending = FALSE]
<1>2. g \in Grabs /\ g.win \in s.shown
  BY <1>1, NewestIsMenu, SeatFields DEF Grabs
<1> HIDE DEF g
<1>3. /\ u \in Seat /\ SamePopups(s, u) /\ u.focus = s.focus /\ u.held = s.held
      /\ u.xdgGrab = s.xdgGrab /\ u.flag = TRUE /\ u.xgrab = g
  BY <1>1, <1>2 DEF Seat, SamePopups
<1>4. Good(v) /\ SamePopups(s, v) /\ v.focus = s.focus /\ v.held = s.held /\ v.xdgGrab = s.xdgGrab
  BY PendingGood
<1> HIDE DEF u, v
<1>5. GrabPointer(s, pos, ok) = IF ok /\ s.xgrab = NoGrab THEN RefreshFocus(u, pos) ELSE v
  BY DEF GrabPointer, u, v, g
<1>6. Good(u) /\ ~ButtonHeld(u) /\ Hit(u, pos) = Hit(s, pos)
  BY <1>2, <1>3 DEF Good, Half, SamePopups, ButtonHeld, Hit
<1> DEFINE t == RefreshFocus(u, pos)
<1>7. /\ t \in Seat /\ SameGrab(u, t) /\ t.grabbing = u.grabbing /\ t.xdgGrab = u.xdgGrab
      /\ t.focus \in {None, Hit(u, pos)} /\ ~ButtonHeld(t)
  BY <1>3, <1>6, RefreshFocusKeeps
<1> HIDE DEF t
<1>8. Good(t) /\ SamePopups(s, t)
  BY <1>3, <1>6, <1>7, SameGrabGood DEF SameGrab, SamePopups
<1>9. ~ButtonHeld(v)
  BY <1>4 DEF ButtonHeld
<1> QED BY <1>3, <1>4, <1>5, <1>6, <1>7, <1>8, <1>9, Zenon DEF t

\* The grab is taken, given up, put off or left; a held button keeps the focus.
LEMMA UpdateGood ==
    ASSUME NEW s, Half(s), NEW pos, NEW ok
    PROVE  LET t == UpdatePointerGrab(s, pos, ok) IN
           /\ Good(t) /\ SamePopups(s, t) /\ t.xdgGrab = s.xdgGrab
           /\ ButtonHeld(s) => t.focus = s.focus /\ t.held = s.held
           /\ ~ButtonHeld(s) => t.focus \in {s.focus, None, Hit(s, pos)} /\ ~ButtonHeld(t)
<1> DEFINE t == UpdatePointerGrab(s, pos, ok)
<1>1. s.shown = {} <=> Menus(s) = {}
  BY DEF Menus, Half
<1>2. CASE s.shown = {}
  <2>1. t = Ungrab(s)
    BY <1>1, <1>2 DEF UpdatePointerGrab
  <2> DEFINE u == Ungrab(s)
  <2>2. /\ Good(u) /\ SamePopups(s, u)
        /\ u.focus = s.focus /\ u.held = s.held /\ u.xdgGrab = s.xdgGrab
    BY UngrabGood
  <2> HIDE DEF u
  <2>3. ButtonHeld(u) <=> ButtonHeld(s)
    BY <2>2 DEF ButtonHeld
  <2> QED BY <2>1, <2>2, <2>3 DEF u
<1>3. CASE s.shown # {} /\ s.flag
  <2>1. t = s
    BY <1>1, <1>3 DEF UpdatePointerGrab
  <2>2. Good(s) /\ SamePopups(s, s)
    BY <1>3 DEF Good, SamePopups
  <2> QED BY <2>1, <2>2
<1>4. CASE s.shown # {} /\ ~s.flag /\ ButtonHeld(s)
  <2>1. t = [s EXCEPT !.pending = TRUE]
    BY <1>1, <1>4 DEF UpdatePointerGrab
  <2> DEFINE u == [s EXCEPT !.pending = TRUE]
  <2>2. /\ Good(u) /\ SamePopups(s, u)
        /\ u.focus = s.focus /\ u.held = s.held /\ u.xdgGrab = s.xdgGrab
    BY <1>4, PendingGood
  <2> HIDE DEF u
  <2> QED BY <1>4, <2>1, <2>2 DEF u
<1>5. CASE s.shown # {} /\ ~s.flag /\ ~ButtonHeld(s)
  <2>1. t = GrabPointer(s, pos, ok)
    BY <1>1, <1>5 DEF UpdatePointerGrab
  <2> HIDE DEF t
  <2> QED BY <1>5, <2>1, GrabPointerGood DEF t
<1> QED BY <1>2, <1>3, <1>4, <1>5

LEMMA DeferredGood ==
    ASSUME NEW s, Good(s), NEW pos, NEW ok
    PROVE  Good(Deferred(s, pos, ok))
<1>1. Half(s) /\ Deferred(s, pos, ok) \in {s, UpdatePointerGrab(s, pos, ok)}
  BY DEF Good, Deferred
<1> QED BY <1>1, UpdateGood

(***************************************************************************)
(* Popups.                                                                  *)
(***************************************************************************)
\* A held button keeps the focus f, unless it is cleared with the button's count
\* while the pointer is over f.
Holds(t, f, pos) ==
    /\ t.focus \in {f, None}
    /\ ButtonHeld(t) \/ Hit(t, pos) = f

LEMMA PlacedGood ==
    ASSUME NEW s, Half(s), NEW p \in s.mapped, NEW pos, NEW ok
    PROVE  LET t == PositionAndMap(s, p, pos, ok) IN
           /\ Good(t) /\ t.stack = s.stack /\ t.mapped = s.mapped
           /\ ButtonHeld(s) => t.focus = s.focus /\ t.held = s.held
           /\ ~ButtonHeld(s) => ~ButtonHeld(t)
<1> DEFINE u == [s EXCEPT !.shown = @ \cup {p}]
           t == UpdatePointerGrab(u, pos, ok)
<1>1. s \in Seat /\ p \in Popups
  BY SeatFields DEF Half
<1>2. /\ u \in Seat /\ u.stack = s.stack /\ u.mapped = s.mapped /\ u.shown = s.shown \cup {p}
      /\ u.flag = s.flag /\ u.xgrab = s.xgrab /\ u.focus = s.focus /\ u.held = s.held
  BY <1>1, SeatFields DEF Seat
<1> HIDE DEF u
<1>3. Half(u) /\ (ButtonHeld(u) <=> ButtonHeld(s))
  BY <1>2 DEF Half, ButtonHeld
<1>4. /\ Good(t) /\ SamePopups(u, t)
      /\ ButtonHeld(u) => t.focus = u.focus /\ t.held = u.held
      /\ ~ButtonHeld(u) => ~ButtonHeld(t)
  BY <1>3, UpdateGood
<1> HIDE DEF t
<1>5. PositionAndMap(s, p, pos, ok) = t
  BY DEF PositionAndMap, t, u
<1> QED BY <1>2, <1>3, <1>4, <1>5 DEF SamePopups

LEMMA WindowGone ==
    ASSUME NEW s, Half(s), NEW p \in s.mapped
    PROVE  LET s1 == [s EXCEPT !.mapped = @ \ {p}, !.focus = IF @ = p THEN None ELSE @]
               t == DestroyWindow(s1, p)
           IN /\ Half(t) /\ t.stack = s.stack /\ t.mapped = s.mapped \ {p} /\ t.shown = s.shown \ {p}
              /\ t.held = s.held /\ t.grabbing = s.grabbing
              /\ t.focus = IF s.focus = p THEN None ELSE s.focus
<1> DEFINE focus == IF s.focus = p THEN None ELSE s.focus
           s1 == [s EXCEPT !.mapped = @ \ {p}, !.focus = focus]
           g == IF s.xgrab.win = p THEN NoGrab ELSE s.xgrab
           t == [s1 EXCEPT !.shown = @ \ {p}, !.xgrab = g]
<1>1. s \in Seat /\ p \in Popups
  BY SeatFields DEF Half
<1>2. focus \in Surfaces \cup {None} /\ g \in Grabs
  BY <1>1, SeatFields DEF NoGrab, Grabs
<1>3. g.kind = "active" => s.xgrab = g /\ g.win # p
  BY DEF NoGrab
<1> HIDE DEF focus, g
<1>4. /\ s1 \in Seat /\ s1.stack = s.stack /\ s1.mapped = s.mapped \ {p} /\ s1.shown = s.shown
      /\ s1.xgrab = s.xgrab /\ s1.flag = s.flag /\ s1.held = s.held /\ s1.focus = focus
      /\ s1.grabbing = s.grabbing
  BY <1>1, <1>2 DEF Seat
<1> HIDE DEF s1
<1>5. /\ t \in Seat /\ t.stack = s.stack /\ t.mapped = s.mapped \ {p} /\ t.shown = s.shown \ {p}
      /\ t.xgrab = g /\ t.flag = s.flag /\ t.held = s.held /\ t.focus = focus
      /\ t.grabbing = s.grabbing
  BY <1>2, <1>4 DEF Seat
<1>6. t = DestroyWindow(s1, p)
  BY <1>4 DEF DestroyWindow, g
<1> HIDE DEF t
<1>7. Half(t)
  BY <1>3, <1>5 DEF Half
<1> QED BY <1>5, <1>6, <1>7 DEF focus, s1

LEMMA UnmapGood ==
    ASSUME NEW s, Half(s), NEW p \in s.mapped, NEW pos, NEW ok
    PROVE  LET t == Unmap(s, p, pos, ok) IN
           /\ Good(t) /\ t.stack = s.stack /\ t.mapped = s.mapped \ {p}
           /\ ButtonHeld(s) /\ s.focus \notin {p, None} => Holds(t, s.focus, pos)
<1> DEFINE s1 == [s EXCEPT !.mapped = @ \ {p}, !.focus = IF @ = p THEN None ELSE @]
           u == DestroyWindow(s1, p)
           v == UpdatePointerGrab(u, pos, ok)
           t == RefreshFocus(v, pos)
<1>1. /\ Half(u) /\ u.stack = s.stack /\ u.mapped = s.mapped \ {p}
      /\ u.held = s.held /\ u.focus = IF s.focus = p THEN None ELSE s.focus
  BY WindowGone
<1> HIDE DEF u
<1>2. /\ Good(v) /\ SamePopups(u, v)
      /\ ButtonHeld(u) => v.focus = u.focus /\ v.held = u.held
  BY <1>1, UpdateGood
<1> HIDE DEF v
<1>3. v \in Seat
  BY <1>2 DEF Good, Half
<1>4. /\ t \in Seat /\ SameGrab(v, t)
      /\ t.held = v.held \/ (t.held = NoButtons /\ (ButtonHeld(v) => Hit(v, pos) = v.focus \/ v.focus = None))
      /\ ButtonHeld(v) /\ v.focus # None => t.focus \in {v.focus, None}
  BY <1>3, RefreshFocusKeeps
<1> HIDE DEF t
<1>5. Good(t)
  BY <1>2, <1>4, SameGrabGood
<1>6. t.stack = s.stack /\ t.mapped = s.mapped \ {p} /\ Hit(t, pos) = Hit(v, pos)
  BY <1>1, <1>2, <1>4 DEF SamePopups, SameGrab, Hit
<1>7. ASSUME ButtonHeld(s), s.focus \notin {p, None} PROVE Holds(t, s.focus, pos)
  <2>1. ButtonHeld(u) /\ u.focus = s.focus
    BY <1>1, <1>7 DEF ButtonHeld
  <2>2. ButtonHeld(v) /\ v.focus = s.focus
    BY <1>2, <2>1 DEF ButtonHeld
  <2>3. t.focus \in {s.focus, None}
    BY <1>4, <1>7, <2>2
  <2>4. CASE t.held = v.held
    BY <2>2, <2>3, <2>4 DEF Holds, ButtonHeld
  <2>5. CASE Hit(v, pos) = v.focus
    BY <1>6, <2>2, <2>3, <2>5 DEF Holds
  <2> QED BY <1>4, <1>7, <2>2, <2>4, <2>5
<1>8. Unmap(s, p, pos, ok) = t
  BY DEF Unmap, t, v, u
<1> QED BY <1>5, <1>6, <1>7, <1>8

LEMMA LeaveGrabGood ==
    ASSUME NEW s, Good(s), NEW p
    PROVE  LET t == LeaveGrab(s, p) IN
           /\ Good(t) /\ t.stack = s.stack /\ t.mapped = s.mapped /\ t.shown = s.shown
           /\ t.focus = s.focus /\ t.held = s.held
<1> DEFINE others == s.grabbing \ {p}
           done == s.done \ {p}
           xdg == IF p \in s.grabbing /\ others = {} THEN FALSE ELSE s.xdgGrab
           t == [s EXCEPT !.grabbing = others, !.done = done, !.xdgGrab = xdg]
<1>1. s \in Seat
  BY DEF Good, Half
<1>2. others \subseteq Popups /\ done \subseteq Popups /\ xdg \in BOOLEAN
  BY <1>1, SeatFields
<1>3. LeaveGrab(s, p) = t
  BY DEF LeaveGrab
<1> HIDE DEF others, done, xdg
<1>4. /\ t \in Seat /\ t.stack = s.stack /\ t.mapped = s.mapped /\ t.shown = s.shown
      /\ t.focus = s.focus /\ t.held = s.held
      /\ t.flag = s.flag /\ t.pending = s.pending /\ t.xgrab = s.xgrab
  BY <1>1, <1>2 DEF Seat
<1> HIDE DEF t
<1>5. Good(t)
  BY <1>4 DEF Good, Half
<1> QED BY <1>3, <1>4, <1>5

(***************************************************************************)
(* The client's steps.  Kept: the surface under a pressed button keeps the  *)
(* pointer, while it lives.                                                 *)
(***************************************************************************)
Kept ==
    ButtonHeld(seat) /\ seat.focus \in seat'.mapped \cup {Top, Other}
      => seat'.focus \in {seat.focus, None}

Rest ==   \* TypeOK but for the seat
    /\ parent \in [Popups -> Popups \cup {Top, None}]
    /\ at \in Places \cup Popups
    /\ down \subseteq Buttons
    /\ xi \in Seq(Events) /\ core \in Seq(Events)

LEMMA Parts ==
    /\ PInv <=> Good(seat) /\ Rest
    /\ PInv => Half(seat) /\ seat \in Seat
BY DEF PInv, TypeOK, Rest, Good, Half

LEMMA PartsPrime ==
    ASSUME Good(seat)', Rest'
    PROVE  PInv'
BY DEF PInv, TypeOK, Rest, Good, Half

LEMMA CreateInv ==
    ASSUME PInv, NEW p \in Popups, NEW par \in Popups \cup {Top}, CreatePopup(p, par)
    PROVE  PInv' /\ Kept
<1>1. Good(seat) /\ Half(seat) /\ seat \in Seat /\ Rest
  BY Parts
<1> DEFINE q == <<p>> \o seat.stack
           t == [seat EXCEPT !.stack = q]
<1>2. q \in Seq(Popups) /\ ToSet(seat.stack) \subseteq ToSet(q)
  BY <1>1, SeatFields, Prepended
<1>3. seat' = t
  BY DEF CreatePopup
<1> HIDE DEF q
<1>4. /\ t \in Seat /\ t.stack = q /\ t.mapped = seat.mapped /\ t.shown = seat.shown
      /\ t.flag = seat.flag /\ t.pending = seat.pending /\ t.xgrab = seat.xgrab /\ t.focus = seat.focus
  BY <1>1, <1>2 DEF Seat
<1> HIDE DEF t
<1>5. Good(t)
  BY <1>1, <1>2, <1>4 DEF Good, Half
<1>6. Rest'
  BY <1>1 DEF Rest, CreatePopup
<1>7. Good(seat)'
  BY <1>3, <1>5 DEF Good, Half
<1> QED BY <1>3, <1>4, <1>6, <1>7, PartsPrime DEF Kept

LEMMA GrabPopupInv ==
    ASSUME PInv, NEW p \in Popups, GrabPopup(p)
    PROVE  PInv' /\ Kept
<1>1. Good(seat) /\ seat \in Seat /\ Rest
  BY Parts
<1> DEFINE t == [seat EXCEPT !.grabbing = @ \cup {p}, !.xdgGrab = TRUE]
<1>2. seat' = t
  BY DEF GrabPopup
<1>3. t \in Seat /\ SameGrab(seat, t) /\ t.focus = seat.focus
  BY <1>1 DEF Seat, SameGrab
<1> HIDE DEF t
<1>4. Good(t)
  BY <1>1, <1>3, SameGrabGood
<1>5. Rest'
  BY <1>1 DEF Rest, GrabPopup
<1>6. Good(seat)'
  BY <1>2, <1>4 DEF Good, Half
<1> QED BY <1>2, <1>3, <1>5, <1>6, PartsPrime DEF Kept

LEMMA MapInv ==
    ASSUME PInv, NEW p \in Popups, NEW placed \in BOOLEAN, NEW ok \in Viewable, MapPopup(p, placed, ok)
    PROVE  PInv' /\ Kept
<1>1. Good(seat) /\ Half(seat) /\ seat \in Seat /\ Rest
  BY Parts
<1> DEFINE s0 == [seat EXCEPT !.mapped = @ \cup {p}]
           Place(s) == IF placed THEN PositionAndMap(s, p, at', ok) ELSE s
           s1 == Place(s0)
           s2 == IF ButtonHeld(s1) THEN s1 ELSE RefreshFocus(s1, at')
           s3 == Place(s2)
<1>2. seat' = s3
  BY DEF MapPopup
<1>3. p \in ToSet(seat.stack)
  BY DEF MapPopup, Live
<1>4. /\ s0 \in Seat /\ s0.stack = seat.stack /\ s0.mapped = seat.mapped \cup {p}
      /\ s0.shown = seat.shown /\ s0.flag = seat.flag /\ s0.pending = seat.pending
      /\ s0.xgrab = seat.xgrab /\ s0.focus = seat.focus /\ s0.held = seat.held
  BY <1>1, SeatFields DEF Seat
<1> HIDE DEF s0
<1>5. Good(s0) /\ p \in s0.mapped
  BY <1>1, <1>3, <1>4 DEF Good, Half
<1>6. ASSUME NEW s, Good(s), p \in s.mapped
      PROVE  /\ Good(Place(s)) /\ p \in Place(s).mapped
             /\ ButtonHeld(s) => Place(s).focus = s.focus /\ Place(s).held = s.held
  <2>1. CASE placed
    <3> DEFINE t == PositionAndMap(s, p, at', ok)
    <3>1. /\ Good(t) /\ t.mapped = s.mapped
          /\ ButtonHeld(s) => t.focus = s.focus /\ t.held = s.held
      BY <1>6, PlacedGood DEF Good
    <3> HIDE DEF t
    <3>2. Place(s) = t
      BY <2>1 DEF t
    <3> HIDE DEF Place
    <3> QED BY <1>6, <3>1, <3>2
  <2>2. CASE ~placed
    BY <1>6, <2>2
  <2> QED BY <2>1, <2>2
<1>7. /\ Good(s1) /\ p \in s1.mapped
      /\ ButtonHeld(s0) => s1.focus = s0.focus /\ s1.held = s0.held
  BY <1>5, <1>6
<1> HIDE DEF s1, Place
<1>8. /\ Good(s2) /\ p \in s2.mapped /\ (ButtonHeld(s1) => s2 = s1)
  <2>1. CASE ButtonHeld(s1)
    BY <1>7, <2>1
  <2>2. CASE ~ButtonHeld(s1)
    <3> DEFINE t == RefreshFocus(s1, at')
    <3>1. s1 \in Seat
      BY <1>7 DEF Good, Half
    <3>2. t \in Seat /\ SameGrab(s1, t)
      BY <3>1, RefreshFocusKeeps
    <3> HIDE DEF t
    <3>3. Good(t) /\ p \in t.mapped
      BY <1>7, <3>2, SameGrabGood DEF SameGrab
    <3> QED BY <2>2, <3>3 DEF t
  <2> QED BY <2>1, <2>2
<1> HIDE DEF s2
<1>9. /\ Good(s3) /\ (ButtonHeld(s2) => s3.focus = s2.focus)
  BY <1>6, <1>8
<1> HIDE DEF s3
<1>10. ButtonHeld(seat) => seat'.focus = seat.focus
  BY <1>2, <1>4, <1>7, <1>8, <1>9 DEF ButtonHeld
<1>11. Rest'
  <2>1. at' \in Places \cup Popups
    BY <1>1 DEF Rest, MapPopup, Covered
  <2> QED BY <1>1, <2>1 DEF Rest, MapPopup
<1>12. Good(seat)'
  BY <1>2, <1>9 DEF Good, Half
<1> QED BY <1>10, <1>11, <1>12, PartsPrime DEF Kept

LEMMA CommitInv ==
    ASSUME PInv, NEW p \in Popups, NEW ok \in Viewable, CommitPopup(p, ok)
    PROVE  PInv' /\ Kept
<1>1. Half(seat) /\ seat \in Seat /\ Rest
  BY Parts
<1> DEFINE t == PositionAndMap(seat, p, at', ok)
<1>2. seat' = t /\ p \in seat.mapped
  BY DEF CommitPopup
<1>3. Good(t) /\ (ButtonHeld(seat) => t.focus = seat.focus)
  BY <1>1, <1>2, PlacedGood
<1> HIDE DEF t
<1>4. Rest'
  <2>1. at' \in Places \cup Popups
    BY <1>1 DEF Rest, CommitPopup, Covered
  <2> QED BY <1>1, <2>1 DEF Rest, CommitPopup
<1>5. Good(seat)'
  BY <1>2, <1>3 DEF Good, Half
<1> QED BY <1>2, <1>3, <1>4, <1>5, PartsPrime DEF Kept

\* None is no surface a button can be held on, and no toplevel is a popup.
LEMMA Names == /\ None \notin Popups /\ None \notin {Top, Other}
               /\ Top \notin Popups /\ Other \notin Popups
BY NamesAssumption

LEMMA UnmapInv ==
    ASSUME PInv, NEW p \in Popups, NEW ok \in Viewable, UnmapPopup(p, ok)
    PROVE  PInv' /\ Kept
<1>1. Half(seat) /\ seat \in Seat /\ Rest
  BY Parts
<1> DEFINE u == Unmap(seat, p, at', ok)
           t == LeaveGrab(u, p)
<1>2. seat' = t /\ p \in seat.mapped
  BY DEF UnmapPopup
<1>3. /\ Good(u) /\ u.mapped = seat.mapped \ {p}
      /\ ButtonHeld(seat) /\ seat.focus \notin {p, None} => Holds(u, seat.focus, at')
  BY <1>1, <1>2, UnmapGood
<1> HIDE DEF u
<1>4. Good(t) /\ t.focus = u.focus /\ t.mapped = u.mapped
  BY <1>3, LeaveGrabGood
<1> HIDE DEF t
<1>5. Rest'
  <2>1. at' \in Places \cup Popups
    BY <1>1, SeatFields DEF Rest, UnmapPopup, Uncovered
  <2> QED BY <1>1, <2>1 DEF Rest, UnmapPopup
<1>6. Good(seat)'
  BY <1>2, <1>4 DEF Good, Half
<1>7. Kept
  <2> SUFFICES ASSUME ButtonHeld(seat), seat.focus \in seat'.mapped \cup {Top, Other}
               PROVE  seat'.focus \in {seat.focus, None}
    BY DEF Kept
  <2>1. seat.focus \notin {p, None}
    BY <1>1, <1>2, <1>3, <1>4, Names, SeatFields
  <2> QED BY <1>2, <1>3, <1>4, <2>1 DEF Holds
<1> QED BY <1>5, <1>6, <1>7, PartsPrime

LEMMA DestroyInv ==
    ASSUME PInv, NEW p \in Popups, NEW ok \in Viewable, DestroyPopup(p, ok)
    PROVE  PInv' /\ Kept
<1>1. Good(seat) /\ Half(seat) /\ seat \in Seat /\ Rest
  BY Parts
<1> DEFINE s1 == IF p \in seat.mapped THEN Unmap(seat, p, at', ok) ELSE seat
           u == LeaveGrab(s1, p)
           s2 == UpdatePointerGrab(u, at', ok)
           q == RemoveAt(s2.stack, Position(p))
           t == [s2 EXCEPT !.stack = q]
<1>2. seat' = t /\ p \in Live(seat)
  BY DEF DestroyPopup
<1>3. /\ Good(s1) /\ s1.stack = seat.stack /\ s1.mapped = seat.mapped \ {p}
      /\ ButtonHeld(seat) /\ seat.focus \notin {p, None} => s1 = seat \/ Holds(s1, seat.focus, at')
  <2>1. CASE p \in seat.mapped
    <3> DEFINE v == Unmap(seat, p, at', ok)
    <3>1. /\ Good(v) /\ v.stack = seat.stack /\ v.mapped = seat.mapped \ {p}
          /\ ButtonHeld(seat) /\ seat.focus \notin {p, None} => Holds(v, seat.focus, at')
      BY <1>1, <2>1, UnmapGood
    <3> HIDE DEF v
    <3>2. s1 = v
      BY <2>1 DEF v
    <3> QED BY <3>1, <3>2
  <2>2. CASE p \notin seat.mapped
    BY <1>1, <2>2
  <2> QED BY <2>1, <2>2
<1> HIDE DEF s1
<1>4. /\ Good(u) /\ u.stack = s1.stack /\ u.mapped = s1.mapped /\ u.shown = s1.shown
      /\ u.focus = s1.focus /\ u.held = s1.held
  BY <1>3, LeaveGrabGood
<1> HIDE DEF u
<1>5. /\ Good(s2) /\ SamePopups(u, s2)
      /\ ButtonHeld(u) => s2.focus = u.focus
      /\ ~ButtonHeld(u) => s2.focus \in {u.focus, None, Hit(u, at')}
  BY <1>4, UpdateGood DEF Good
<1> HIDE DEF s2
<1>6. /\ Position(p) \in 1..Len(seat.stack) /\ seat.stack[Position(p)] = p
  <2>1. seat.stack \in Seq(Popups)
    BY <1>1, SeatFields
  <2>2. \E k \in DOMAIN seat.stack : seat.stack[k] = p
    BY <1>2, <2>1, Elements DEF Live
  <2>3. Position(p) \in DOMAIN seat.stack /\ seat.stack[Position(p)] = p
    BY <2>2, Zenon DEF Position
  <2> QED BY <2>1, <2>3, Elements
<1>7. s2.stack = seat.stack /\ s2.mapped = seat.mapped \ {p} /\ s2 \in Seat
  BY <1>3, <1>4, <1>5 DEF SamePopups, Good, Half
<1>8. q \in Seq(Popups) /\ ToSet(seat.stack) \ {p} \subseteq ToSet(q)
  BY <1>1, <1>6, <1>7, SeatFields, Removed
<1> HIDE DEF q
<1>9. /\ t \in Seat /\ t.stack = q /\ t.mapped = s2.mapped /\ t.shown = s2.shown
      /\ t.flag = s2.flag /\ t.pending = s2.pending /\ t.xgrab = s2.xgrab /\ t.focus = s2.focus
  BY <1>7, <1>8 DEF Seat
<1> HIDE DEF t
<1>10. Good(t)
  BY <1>1, <1>5, <1>7, <1>8, <1>9 DEF Good, Half
<1>11. Rest'
  <2>1. at' \in Places \cup Popups
    BY <1>1, SeatFields DEF Rest, DestroyPopup, Uncovered
  <2>2. parent' \in [Popups -> Popups \cup {Top, None}]
    BY <1>1 DEF Rest, DestroyPopup
  <2> QED BY <1>1, <2>1, <2>2 DEF Rest, DestroyPopup
<1>12. Good(seat)'
  BY <1>2, <1>10 DEF Good, Half
<1>13. Kept
  <2> SUFFICES ASSUME ButtonHeld(seat), seat.focus \in seat'.mapped \cup {Top, Other}
               PROVE  seat'.focus \in {seat.focus, None}
    BY DEF Kept
  <2>1. seat.focus \notin {p, None}
    BY <1>1, <1>2, <1>7, <1>9, Names, SeatFields
  <2>2. CASE s1 = seat
    BY <1>2, <1>4, <1>5, <1>9, <2>2 DEF ButtonHeld
  <2>3. CASE Holds(s1, seat.focus, at')
    <3>1. u.focus \in {seat.focus, None} /\ (ButtonHeld(u) \/ Hit(u, at') = seat.focus)
      BY <1>4, <2>3 DEF Holds, ButtonHeld, Hit
    <3> QED BY <1>2, <1>5, <1>9, <3>1
  <2> QED BY <1>3, <2>1, <2>2, <2>3
<1> QED BY <1>11, <1>12, <1>13, PartsPrime

(***************************************************************************)
(* The user, and the handlers of what the user does.                        *)
(***************************************************************************)
LEMMA RouteTyped ==
    ASSUME Rest, NEW e \in Events, Route(e)
    PROVE  /\ xi' \in Seq(Events) /\ core' \in Seq(Events)
           /\ xi' = xi \/ xi' = Append(xi, e)
           /\ core' = core \/ core' = Append(core, e)
<1>1. xi \in Seq(Events) /\ core \in Seq(Events)
  BY DEF Rest
<1>2. Append(xi, e) \in Seq(Events) /\ Append(core, e) \in Seq(Events)
  BY <1>1
<1>3. /\ xi' = xi \/ xi' = Append(xi, e)
      /\ core' = core \/ core' = Append(core, e)
  <2> DEFINE win == IF seat.xgrab.kind = "implicit" THEN seat.xgrab.win ELSE at'
  <2>1. CASE seat.xgrab.kind = "active"
    BY <2>1, Zenon DEF Route
  <2>2. CASE seat.xgrab.kind # "active" /\ win # Away
    BY <2>2, Zenon DEF Route
  <2>3. CASE seat.xgrab.kind # "active" /\ win = Away
    BY <2>3, Zenon DEF Route
  <2> QED BY <2>1, <2>2, <2>3
<1> QED BY <1>1, <1>2, <1>3

LEMMA PressesInv ==
    ASSUME PInv, NEW b \in Buttons, UserPresses(b)
    PROVE  PInv' /\ Kept
<1>1. Good(seat) /\ seat \in Seat /\ Rest
  BY Parts
<1> DEFINE g == [kind |-> "implicit", win |-> at]
           t == [seat EXCEPT !.xgrab = g]
<1>2. g \in Grabs /\ g.kind # "active"
  <2>1. at \in Popups \cup {Top, Other, Away, None}
    BY <1>1, PlacesAssumption DEF Rest
  <2> QED BY <2>1 DEF Grabs
<1>3. seat' = t \/ seat' = seat
  BY DEF UserPresses
<1> HIDE DEF g
<1>4. /\ t \in Seat /\ t.stack = seat.stack /\ t.mapped = seat.mapped /\ t.shown = seat.shown
      /\ t.flag = seat.flag /\ t.pending = seat.pending /\ t.xgrab = g /\ t.focus = seat.focus
  BY <1>1, <1>2 DEF Seat
<1> HIDE DEF t
<1>5. Good(t)
  BY <1>1, <1>2, <1>4 DEF Good, Half
<1>6. Rest'
  <2>1. [kind |-> "press", button |-> b] \in Events
    BY DEF Events
  <2>2. xi' \in Seq(Events) /\ core' \in Seq(Events)
    BY <1>1, <2>1, RouteTyped DEF UserPresses
  <2> QED BY <1>1, <2>2 DEF Rest, UserPresses
<1>7. Good(seat)'
  BY <1>1, <1>3, <1>5 DEF Good, Half
<1> QED BY <1>3, <1>4, <1>6, <1>7, PartsPrime DEF Kept

LEMMA ReleasesInv ==
    ASSUME PInv, NEW b \in Buttons, UserReleases(b)
    PROVE  PInv' /\ Kept
<1>1. Good(seat) /\ seat \in Seat /\ Rest
  BY Parts
<1> DEFINE t == [seat EXCEPT !.xgrab = NoGrab]
<1>2. NoGrab \in Grabs /\ NoGrab.kind # "active"
  BY DEF NoGrab, Grabs
<1>3. seat' = t \/ seat' = seat
  BY DEF UserReleases
<1>4. /\ t \in Seat /\ t.stack = seat.stack /\ t.mapped = seat.mapped /\ t.shown = seat.shown
      /\ t.flag = seat.flag /\ t.pending = seat.pending /\ t.xgrab = NoGrab /\ t.focus = seat.focus
  BY <1>1, <1>2 DEF Seat
<1> HIDE DEF t
<1>5. Good(t)
  BY <1>1, <1>2, <1>4 DEF Good, Half
<1>6. Rest'
  <2>1. [kind |-> "release", button |-> b] \in Events
    BY DEF Events
  <2>2. xi' \in Seq(Events) /\ core' \in Seq(Events)
    BY <1>1, <2>1, RouteTyped DEF UserReleases
  <2> QED BY <1>1, <2>2 DEF Rest, UserReleases
<1>7. Good(seat)'
  BY <1>1, <1>3, <1>5 DEF Good, Half
<1> QED BY <1>3, <1>4, <1>6, <1>7, PartsPrime DEF Kept

LEMMA MovesInv ==
    ASSUME PInv, NEW to \in Places \cup seat.shown, UserMoves(to)
    PROVE  PInv' /\ Kept
<1>1. Good(seat) /\ seat \in Seat /\ Rest
  BY Parts
<1>2. PICK b \in Buttons : Route([kind |-> "motion", button |-> b])
  BY DEF UserMoves
<1>3. xi' \in Seq(Events) /\ core' \in Seq(Events)
  <2>1. [kind |-> "motion", button |-> b] \in Events
    BY DEF Events
  <2> QED BY <1>1, <1>2, <2>1, RouteTyped
<1>4. at' \in Places \cup Popups
  BY <1>1, SeatFields DEF UserMoves
<1>5. Rest'
  BY <1>1, <1>3, <1>4 DEF Rest, UserMoves
<1>6. UNCHANGED seat
  BY DEF UserMoves
<1>7. Good(seat)'
  BY <1>1, <1>6 DEF Good, Half
<1> QED BY <1>5, <1>6, <1>7, PartsPrime DEF Kept

LEMMA QueueTyped ==
    ASSUME NEW q \in Seq(Events), q # <<>>
    PROVE  Tail(q) \in Seq(Events) /\ Head(q) \in Events /\ Head(q).button \in Buttons
           /\ Head(q).kind \in {"press", "release", "motion"}
<1>1. Tail(q) \in Seq(Events) /\ Head(q) \in Events
  OBVIOUS
<1> QED BY <1>1 DEF Events

\* A press: the focus is brought up to date first.
LEMMA PressHandled ==
    ASSUME PInv, NEW b \in Buttons, seat.held[b] < MaxClicks,
           seat' = Press(RefreshFocus(seat, at), b)
    PROVE  /\ Good(seat') /\ Kept
           /\ /\ ~ButtonHeld(seat) /\ seat.xdgGrab /\ seat.grabbing \subseteq seat.mapped
              /\ Hit(seat, at) \notin seat.grabbing
              => seat.grabbing \subseteq seat'.done
<1>1. Good(seat) /\ seat \in Seat
  BY Parts
<1> DEFINE u == RefreshFocus(seat, at)
           t == Press(u, b)
<1>2. /\ u \in Seat /\ SameGrab(seat, u) /\ u.grabbing = seat.grabbing /\ u.xdgGrab = seat.xdgGrab
      /\ u.held = seat.held \/ u.held = NoButtons
      /\ ButtonHeld(seat) /\ seat.focus # None => u.focus \in {seat.focus, None}
      /\ ~ButtonHeld(seat) => u.focus \in {None, Hit(seat, at)} /\ ~ButtonHeld(u)
  BY <1>1, RefreshFocusKeeps
<1> HIDE DEF u
<1>3. u.held[b] < MaxClicks
  BY <1>2, Held DEF MaxClicks
<1>4. /\ t \in Seat /\ SameGrab(u, t) /\ t.focus = u.focus
      /\ /\ u.held[b] = 0 /\ u.xdgGrab
         /\ u.grabbing \subseteq u.mapped /\ u.focus \notin u.grabbing
         => u.grabbing \subseteq t.done
  BY <1>2, <1>3, PressKeeps
<1> HIDE DEF t
<1>5. seat' = t
  BY DEF t, u
<1>6. Good(t)
  BY <1>1, <1>2, <1>4, SameGrabGood
<1>7. ASSUME ~ButtonHeld(seat), seat.xdgGrab, seat.grabbing \subseteq seat.mapped,
             Hit(seat, at) \notin seat.grabbing
      PROVE  seat.grabbing \subseteq t.done
  <2>1. u.held[b] = 0
    BY <1>2, <1>7, Held DEF ButtonHeld
  <2>2. u.focus \notin u.grabbing
    BY <1>1, <1>2, <1>7, Names, SeatFields
  <2>3. u.grabbing \subseteq u.mapped
    BY <1>2, <1>7 DEF SameGrab
  <2> QED BY <1>2, <1>4, <1>7, <2>1, <2>2, <2>3
<1>8. Kept
  BY <1>1, <1>2, <1>4, <1>5, Names, SeatFields DEF Kept
<1> QED BY <1>5, <1>6, <1>7, <1>8

LEMMA ReleaseHandled ==
    ASSUME PInv, NEW b \in Buttons, NEW ok,
           \/ seat' = RefreshFocus(Deferred(Release(seat, b), at, ok), at)
           \/ seat' = Deferred(RefreshFocus(Release(seat, b), at), at, ok)
    PROVE  Good(seat')
<1>1. Good(seat) /\ seat \in Seat
  BY Parts
<1> DEFINE u == Release(seat, b)
<1>2. Good(u)
  <2>1. u \in Seat /\ SameGrab(seat, u)
    BY <1>1, ReleaseKeeps
  <2> HIDE DEF u
  <2> QED BY <1>1, <2>1, SameGrabGood
<1> HIDE DEF u
<1>3. ASSUME NEW s, Good(s) PROVE Good(RefreshFocus(s, at))
  <2> DEFINE t == RefreshFocus(s, at)
  <2>1. s \in Seat
    BY <1>3 DEF Good, Half
  <2>2. t \in Seat /\ SameGrab(s, t)
    BY <2>1, RefreshFocusKeeps
  <2> HIDE DEF t
  <2>3. Good(t)
    BY <1>3, <2>2, SameGrabGood
  <2> QED BY <2>3 DEF t
<1>4. ASSUME NEW s, Good(s) PROVE Good(Deferred(s, at, ok))
  BY <1>4, DeferredGood
<1>5. Good(RefreshFocus(Deferred(u, at, ok), at)) /\ Good(Deferred(RefreshFocus(u, at), at, ok))
  BY <1>2, <1>3, <1>4
<1>6. seat' = RefreshFocus(Deferred(u, at, ok), at) \/ seat' = Deferred(RefreshFocus(u, at), at, ok)
  BY DEF u
<1> QED BY <1>5, <1>6

LEMMA MotionHandled ==
    ASSUME PInv, seat' = Motion(seat, at)
    PROVE  Good(seat') /\ Kept
<1>1. Good(seat) /\ seat \in Seat
  BY Parts
<1> DEFINE t == Motion(seat, at)
<1>2. t \in Seat /\ SameGrab(seat, t) /\ (ButtonHeld(seat) => t = seat)
  BY <1>1, MotionKeeps
<1>3. seat' = t
  OBVIOUS
<1> HIDE DEF t
<1>4. Good(t)
  BY <1>1, <1>2, SameGrabGood
<1> QED BY <1>2, <1>3, <1>4 DEF Kept

\* What a press owes the menus, whichever connection it came on.
Dismissed ==
    /\ ~ButtonHeld(seat) /\ seat.xdgGrab /\ seat.grabbing \subseteq seat.mapped
    /\ Hit(seat, at) \notin seat.grabbing
    => seat.grabbing \subseteq seat'.done

LEMMA XiInv ==
    ASSUME PInv, NEW ok, DispatchXi(ok)
    PROVE  /\ PInv'
           /\ Head(xi).kind = "release" \/ Kept
           /\ Head(xi).kind = "press" => Dismissed
<1>1. Rest /\ xi \in Seq(Events)
  BY Parts DEF Rest
<1>2. xi # <<>> /\ xi' = Tail(xi) /\ UNCHANGED <<parent, at, down, core>>
  BY DEF DispatchXi
<1>3. Head(xi).button \in Buttons /\ Head(xi).kind \in {"press", "release", "motion"}
      /\ xi' \in Seq(Events)
  BY <1>1, <1>2, QueueTyped
<1>4. Rest'
  BY <1>1, <1>2, <1>3 DEF Rest
<1>5. CASE Head(xi).kind = "motion"
  <2>1. seat' = Motion(seat, at)
    BY <1>5 DEF DispatchXi
  <2>2. Good(seat') /\ Kept
    BY <2>1, MotionHandled
  <2>3. Good(seat)'
    BY <2>2 DEF Good, Half
  <2> QED BY <1>4, <1>5, <2>2, <2>3, PartsPrime
<1>6. CASE Head(xi).kind = "press"
  <2>1. seat.held[Head(xi).button] < MaxClicks /\ seat' = Press(RefreshFocus(seat, at), Head(xi).button)
    BY <1>6 DEF DispatchXi
  <2>2. Good(seat') /\ Kept /\ Dismissed
    BY <1>3, <2>1, PressHandled DEF Dismissed
  <2>3. Good(seat)'
    BY <2>2 DEF Good, Half
  <2> QED BY <1>4, <2>2, <2>3, PartsPrime
<1>7. CASE Head(xi).kind = "release"
  <2>1. seat' = RefreshFocus(Deferred(Release(seat, Head(xi).button), at, ok), at)
    BY <1>7 DEF DispatchXi
  <2>2. Good(seat')
    BY <1>3, <2>1, ReleaseHandled
  <2>3. Good(seat)'
    BY <2>2 DEF Good, Half
  <2> QED BY <1>4, <1>7, <2>3, PartsPrime
<1> QED BY <1>3, <1>5, <1>6, <1>7

LEMMA CoreInv ==
    ASSUME PInv, NEW ok, DispatchCore(ok)
    PROVE  /\ PInv'
           /\ (seat.flag /\ Head(core).kind = "release") \/ Kept
           /\ seat.flag /\ Head(core).kind = "press" => Dismissed
<1>1. Rest /\ core \in Seq(Events) /\ Good(seat)
  BY Parts DEF Rest
<1>2. core # <<>> /\ core' = Tail(core) /\ UNCHANGED <<parent, at, down, xi>>
  BY DEF DispatchCore
<1>3. Head(core).button \in Buttons /\ Head(core).kind \in {"press", "release", "motion"}
      /\ core' \in Seq(Events)
  BY <1>1, <1>2, QueueTyped
<1>4. Rest'
  BY <1>1, <1>2, <1>3 DEF Rest
<1>5. CASE ~seat.flag
  <2>1. seat' = seat
    BY <1>5 DEF DispatchCore
  <2>2. Good(seat)'
    BY <1>1, <2>1 DEF Good, Half
  <2> QED BY <1>4, <1>5, <2>1, <2>2, PartsPrime DEF Kept
<1>6. CASE seat.flag /\ Head(core).kind = "motion"
  <2>1. seat' = Motion(seat, at)
    BY <1>6 DEF DispatchCore
  <2>2. Good(seat') /\ Kept
    BY <2>1, MotionHandled
  <2>3. Good(seat)'
    BY <2>2 DEF Good, Half
  <2> QED BY <1>4, <1>6, <2>2, <2>3, PartsPrime
<1>7. CASE seat.flag /\ Head(core).kind = "press"
  <2>1. seat.held[Head(core).button] < MaxClicks /\ seat' = Press(RefreshFocus(seat, at), Head(core).button)
    BY <1>7 DEF DispatchCore
  <2>2. Good(seat') /\ Kept /\ Dismissed
    BY <1>3, <2>1, PressHandled DEF Dismissed
  <2>3. Good(seat)'
    BY <2>2 DEF Good, Half
  <2> QED BY <1>4, <2>2, <2>3, PartsPrime
<1>8. CASE seat.flag /\ Head(core).kind = "release"
  <2>1. seat' = Deferred(RefreshFocus(Release(seat, Head(core).button), at), at, ok)
    BY <1>8 DEF DispatchCore
  <2>2. Good(seat')
    BY <1>3, <2>1, ReleaseHandled
  <2>3. Good(seat)'
    BY <2>2 DEF Good, Half
  <2> QED BY <1>4, <1>8, <2>3, PartsPrime
<1> QED BY <1>3, <1>5, <1>6, <1>7, <1>8

LEMMA FocusInInv ==
    ASSUME PInv, FocusIn
    PROVE  PInv'
<1>1. Good(seat) /\ seat \in Seat /\ Rest
  BY Parts
<1> DEFINE t == NotifyEnter(seat, Top)
<1>2. seat' = t /\ UNCHANGED <<parent, at, down, xi, core>>
  BY DEF FocusIn
<1>3. t \in Seat /\ SameGrab(seat, t)
  BY <1>1, NotifyEnterKeeps DEF Surfaces
<1> HIDE DEF t
<1>4. Good(t)
  BY <1>1, <1>3, SameGrabGood
<1>5. Good(seat)'
  BY <1>2, <1>4 DEF Good, Half
<1>6. Rest'
  BY <1>1, <1>2 DEF Rest
<1> QED BY <1>5, <1>6, PartsPrime

(***************************************************************************)
(* The theorems.                                                            *)
(***************************************************************************)
LEMMA NotTail ==
    ASSUME NEW q \in Seq(Events), q # <<>>
    PROVE  /\ Tail(q) # q
           /\ \A e \in Events : Append(q, e) # Tail(q)
<1>1. Len(q) \in Nat \ {0}
  OBVIOUS
<1>2. Len(Tail(q)) = Len(q) - 1
  BY <1>1
<1>3. \A e \in Events : Len(Append(q, e)) = Len(q) + 1
  OBVIOUS
<1>4. PICK n \in Nat : n = Len(q)
  BY <1>1
<1>5. n - 1 # n /\ n - 1 # n + 1
  OBVIOUS
<1>6. Len(Tail(q)) = n - 1 /\ \A e \in Events : Len(Append(q, e)) = n + 1
  BY <1>2, <1>3, <1>4, Zenon
<1> QED BY <1>4, <1>5, <1>6, Zenon

Grows(q, r) == r = q \/ \E e \in Events : r = Append(q, e)

LEMMA NothingDispatched ==
    ASSUME Rest, NEW kind
    PROVE  /\ Grows(xi, xi') /\ Grows(core, core') => ~Dispatches(kind)
           /\ Grows(core, core') /\ Dispatches(kind) => xi # <<>> /\ Head(xi).kind = kind
           /\ Grows(xi, xi') /\ Dispatches(kind) => core # <<>> /\ Head(core).kind = kind /\ seat.flag
<1>1. xi \in Seq(Events) /\ core \in Seq(Events)
  BY DEF Rest
<1>2. Grows(xi, xi') => ~(xi # <<>> /\ xi' = Tail(xi))
  BY <1>1, NotTail DEF Grows
<1>3. Grows(core, core') => ~(core # <<>> /\ core' = Tail(core))
  BY <1>1, NotTail DEF Grows
<1> QED BY <1>2, <1>3 DEF Dispatches

LEMMA InitInv == Init => PInv
<1> SUFFICES ASSUME Init PROVE PInv
  OBVIOUS
<1> DEFINE s == [stack |-> <<>>, mapped |-> {}, shown |-> {}, grabbing |-> {},
                 xdgGrab |-> FALSE, done |-> {}, flag |-> FALSE, pending |-> FALSE,
                 held |-> NoButtons, focus |-> None, xgrab |-> NoGrab]
<1>1. seat = s
  BY DEF Init
<1>2. NoGrab \in Grabs /\ NoGrab.kind = "none"
  BY DEF NoGrab, Grabs
<1>3. <<>> \in Seq(Popups) /\ None \in Surfaces \cup {None}
  OBVIOUS
<1>4. /\ s \in Seat /\ s.shown = {} /\ s.mapped = {} /\ s.flag = FALSE /\ s.pending = FALSE
      /\ s.xgrab = NoGrab
  BY <1>2, <1>3, Held DEF Seat
<1> HIDE DEF s
<1>5. Good(s)
  BY <1>2, <1>4 DEF Good, Half
<1>6. Rest
  BY DEF Init, Rest
<1> QED BY <1>1, <1>5, <1>6, Parts

LEMMA ClientStep ==
    ASSUME PInv, Client
    PROVE  PInv' /\ Kept /\ UNCHANGED <<xi, core>>
<1>1. PInv' /\ Kept
  BY CreateInv, GrabPopupInv, MapInv, CommitInv, UnmapInv, DestroyInv DEF Client
<1>2. UNCHANGED <<xi, core>>
  BY DEF Client, CreatePopup, GrabPopup, MapPopup, CommitPopup, UnmapPopup, DestroyPopup
<1> QED BY <1>1, <1>2

LEMMA UserStep ==
    ASSUME PInv, User
    PROVE  PInv' /\ Kept /\ Grows(xi, xi') /\ Grows(core, core')
<1>1. PInv' /\ Kept
  BY PressesInv, ReleasesInv, MovesInv DEF User
<1>2. ASSUME NEW kind \in {"press", "release", "motion"}, NEW b \in Buttons, Route([kind |-> kind, button |-> b])
      PROVE  Grows(xi, xi') /\ Grows(core, core')
  <2>1. Rest
    BY Parts
  <2>2. [kind |-> kind, button |-> b] \in Events
    BY DEF Events
  <2> QED BY <1>2, <2>1, <2>2, RouteTyped, Zenon DEF Grows
<1>3. Grows(xi, xi') /\ Grows(core, core')
  BY <1>2 DEF User, UserPresses, UserReleases, UserMoves
<1> QED BY <1>1, <1>3

LEMMA StepInv == PInv /\ [Next]_vars => PInv'
<1> SUFFICES ASSUME PInv, [Next]_vars PROVE PInv'
  OBVIOUS
<1>1. CASE Client
  BY <1>1, ClientStep
<1>2. CASE User
  BY <1>2, UserStep
<1>3. CASE Compositor
  BY <1>3, XiInv, CoreInv DEF Compositor
<1>4. CASE FocusIn
  BY <1>4, FocusInInv
<1>5. CASE UNCHANGED vars
  <2>1. UNCHANGED <<seat, parent, at, down, xi, core>>
    BY <1>5 DEF vars
  <2>2. Good(seat)' /\ Rest'
    BY <2>1, Parts DEF Good, Half, Rest
  <2> QED BY <2>2, PartsPrime
<1> QED BY <1>1, <1>2, <1>3, <1>4, <1>5 DEF Next

\* The inductive invariant of popups, focus and grab (wlx_popup_update_pointer_grab
\* and its callers).
THEOREM Inductive == Spec => []PInv
<1> QED BY InitInv, StepInv, PTL DEF Spec

\* No handler takes a button count out of its range or names a popup that is gone.
THEOREM TypeCorrect == Spec => []TypeOK
<1>1. PInv => TypeOK
  BY DEF PInv
<1> QED BY <1>1, Inductive, PTL

\* While the X server reports every button to a menu, popup_pointer_grabbed accepts
\* the events and the menu is up.
THEOREM GrabStaysKnown == Spec => []GrabIsKnown
<1>1. PInv => GrabIsKnown
  <2> SUFFICES ASSUME PInv, seat.xgrab.kind = "active"
               PROVE  seat.flag /\ seat.xgrab.win \in seat.shown \cap seat.mapped
    BY DEF GrabIsKnown
  <2> QED BY Parts DEF Half
<1> QED BY <1>1, Inductive, PTL

\* popup_pointer_grabbed and popup_pointer_grab_pending end with the last menu.
THEOREM GrabEndsWithMenus == Spec => []GrabNeedsMenu
<1>1. PInv => GrabNeedsMenu
  BY Parts DEF GrabNeedsMenu, Menus, Good, Half
<1> QED BY <1>1, Inductive, PTL

\* FocusIn apart, no handler moves the pointer to another surface while a button
\* is held (process_cursor_motion, pointer_enter_surface_under_cursor).
THEOREM ClicksStay == Spec => NoEnterMidClick
<1>1. PInv /\ [Next]_vars => [EntersMidClick => FocusIn]_vars
  <2> SUFFICES ASSUME PInv, Next, EntersMidClick PROVE FocusIn
    OBVIOUS
  <2>1. ~Kept /\ ~Dispatches("release")
    BY DEF EntersMidClick, Kept
  <2>2. ~Client /\ ~User
    BY <2>1, ClientStep, UserStep
  <2>3. ASSUME NEW ok \in Viewable, DispatchXi(ok) PROVE FALSE
    <3>1. Head(xi).kind = "release"
      BY <2>1, <2>3, XiInv
    <3>2. xi # <<>> /\ xi' = Tail(xi)
      BY <2>3 DEF DispatchXi
    <3> QED BY <2>1, <3>1, <3>2 DEF Dispatches
  <2>4. ASSUME NEW ok \in Viewable, DispatchCore(ok) PROVE FALSE
    <3>1. seat.flag /\ Head(core).kind = "release"
      BY <2>1, <2>4, CoreInv
    <3>2. core # <<>> /\ core' = Tail(core)
      BY <2>4 DEF DispatchCore
    <3> QED BY <2>1, <3>1, <3>2 DEF Dispatches
  <2> QED BY <2>2, <2>3, <2>4 DEF Next, Compositor
<1> QED BY <1>1, Inductive, PTL DEF Spec, NoEnterMidClick

\* A first press outside the grabbing popups dismisses them (xdg_pointer_grab_button
\* after pointer_enter_surface_under_cursor).
THEOREM OutsideDismisses == Spec => OutsidePressDismisses
<1> DEFINE Outside == /\ Dispatches("press") /\ ~ButtonHeld(seat)
                      /\ seat.xdgGrab /\ seat.grabbing \subseteq seat.mapped
                      /\ Hit(seat, at) \notin seat.grabbing
<1>1. PInv /\ [Next]_vars => [Outside => seat.grabbing \subseteq seat'.done]_vars
  <2> SUFFICES ASSUME PInv, Next, Outside PROVE seat.grabbing \subseteq seat'.done
    OBVIOUS
  <2>0. Rest
    BY Parts
  <2>1. Dispatches("press") /\ (Dismissed => seat.grabbing \subseteq seat'.done)
    BY DEF Dismissed
  <2>2. CASE Client
    <3>1. Grows(xi, xi') /\ Grows(core, core')
      BY <2>2, ClientStep DEF Grows
    <3> QED BY <2>0, <2>1, <3>1, NothingDispatched
  <2>3. CASE User
    BY <2>0, <2>1, <2>3, UserStep, NothingDispatched
  <2>4. ASSUME NEW ok \in Viewable, DispatchXi(ok) PROVE Dismissed
    <3>1. Grows(core, core')
      BY <2>4 DEF DispatchXi, Grows
    <3>2. Head(xi).kind = "press"
      BY <2>0, <2>1, <3>1, NothingDispatched
    <3> QED BY <2>4, <3>2, XiInv
  <2>5. ASSUME NEW ok \in Viewable, DispatchCore(ok) PROVE Dismissed
    <3>1. Grows(xi, xi')
      BY <2>5 DEF DispatchCore, Grows
    <3>2. Head(core).kind = "press" /\ seat.flag
      BY <2>0, <2>1, <3>1, NothingDispatched
    <3> QED BY <2>5, <3>2, CoreInv
  <2>6. CASE FocusIn
    <3>1. Grows(xi, xi') /\ Grows(core, core')
      BY <2>6 DEF FocusIn, Grows
    <3> QED BY <2>0, <2>1, <3>1, NothingDispatched
  <2> QED BY <2>1, <2>2, <2>3, <2>4, <2>5, <2>6 DEF Next, Compositor
<1> QED BY <1>1, Inductive, PTL DEF Spec, OutsidePressDismisses
=============================================================================
