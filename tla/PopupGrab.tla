----------------------------- MODULE PopupGrab -----------------------------
(***************************************************************************)
(* Menus: the popups of one toplevel, the X11 pointer grab wl-x11 takes     *)
(* while they are shown, and the seat's pointer focus and pressed buttons.  *)
(*                                                                         *)
(* Three parties move at their own pace.  The user presses buttons and      *)
(* moves the pointer; the X server routes those events, to the backend's    *)
(* connection (XI2) or, under an active grab, to the compositor's own       *)
(* (core events); the client creates, maps and destroys popups.  The        *)
(* compositor's handlers are functions on the record `seat', which also     *)
(* holds the X grab because XGrabPointer and XUngrabPointer are synchronous *)
(* with respect to the handler that calls them.                             *)
(***************************************************************************)
EXTENDS Integers, Sequences, SequencesExt

CONSTANTS Popups,        \* identities of popups
          Buttons,       \* pointer buttons
          Top, Other,    \* toplevel of the popups' client; another client's
          Away,          \* not a window of wl-x11
          None,          \* no surface, no window
          Overlaps,      \* popups may cover Top: FocusIn can enter Top below one
          Places,        \* where the pointer goes: subset of {Top, Other, Away}
          Viewable,      \* subset of BOOLEAN: what the server may find a menu window
          MaxQueue       \* bound: input events in flight on a connection

ASSUME PlacesAssumption == Places \subseteq {Top, Other, Away} /\ Overlaps \in BOOLEAN
                             /\ Viewable \subseteq BOOLEAN
ASSUME NamesAssumption ==
    /\ Top # Other /\ Top # Away /\ Top # None /\ Other # Away /\ Other # None /\ Away # None
    /\ {Top, Other, Away, None} \cap Popups = {}
    /\ MaxQueue \in Nat

VARIABLES seat,    \* the compositor's record and the X grab
          parent,  \* parent surface of each popup
          at,      \* what the pointer is over: a shown popup or a place
          down,    \* buttons the user holds
          xi,      \* events queued on the backend's connection
          core     \* core events queued on the compositor's connection

vars == <<seat, parent, at, down, xi, core>>

Surfaces == Popups \cup {Top, Other}
NoGrab == [kind |-> "none", win |-> None]
Grabs == [kind : {"none", "implicit", "active"}, win : Popups \cup {Top, Other, Away, None}]
Events == [kind : {"press", "release", "motion"}, button : Buttons]
MaxClicks == 2   \* bound: unmatched presses of one button

Seat == [stack : Seq(Popups),      \* server->popups, newest first
         mapped : SUBSET Popups,   \* the popup's surface is mapped
         shown : SUBSET Popups,    \* pop->xpresent: it has an X11 window
         grabbing : SUBSET Popups, \* wlr_xdg_popup_grab.popups
         xdgGrab : BOOLEAN,        \* pointer_state.grab is the popup grab
         done : SUBSET Popups,     \* popup_done has been sent
         flag : BOOLEAN,           \* popup_pointer_grabbed
         pending : BOOLEAN,        \* popup_pointer_grab_pending
         held : [Buttons -> 0..MaxClicks], \* pointer_state.buttons[].n_pressed
         focus : Surfaces \cup {None},     \* pointer_state.focused_surface
         xgrab : Grabs]            \* the X server's pointer grab

NoButtons == [b \in Buttons |-> 0]
ButtonHeld(s) == s.held # NoButtons

(***************************************************************************)
(* Seat and pointer focus.  `pos' is where the pointer is.                  *)
(***************************************************************************)
\* surface_under_root_pointer
Hit(s, pos) == IF pos \in (s.shown \cap s.mapped) \cup {Top, Other} THEN pos ELSE None

\* wlr_seat_pointer_notify_enter through the default or the popup grab.
NotifyEnter(s, surface) ==
    LET focus == IF s.xdgGrab /\ surface = Other THEN None ELSE surface
    IN IF focus = s.focus THEN s ELSE [s EXCEPT !.focus = focus, !.held = NoButtons]

\* pointer_enter_surface_under_cursor, wlx_pointer_refresh_focus
RefreshFocusKeeping(s, pos) ==
    LET hit == Hit(s, pos)
    IN IF hit = None \/ (ButtonHeld(s) /\ s.focus \notin {None, hit})
       THEN s ELSE NotifyEnter(s, hit)
RefreshFocusUnguarded(s, pos) ==
    LET hit == Hit(s, pos)
    IN IF hit = None THEN [s EXCEPT !.focus = None] ELSE NotifyEnter(s, hit)
RefreshFocus(s, pos) ==
    LET hit == Hit(s, pos)
    IN CASE hit = None -> [s EXCEPT !.focus = None]
         [] hit # None /\ ButtonHeld(s) /\ s.focus \notin {None, hit} -> s
         [] OTHER -> NotifyEnter(s, hit)

\* process_cursor_motion
Motion(s, pos) ==
    LET hit == Hit(s, pos)
    IN CASE hit = s.focus \/ ButtonHeld(s) -> s
         [] hit = None /\ s.focus # None /\ ~ButtonHeld(s) -> [s EXCEPT !.focus = None]
         [] OTHER -> NotifyEnter(s, hit)

\* xdg_pointer_grab_button: a press outside the popups ends the grab, unless a
\* grabbing popup is not mapped yet.
GrabPress(s) ==
    IF s.grabbing \subseteq s.mapped /\ s.focus \notin s.grabbing
    THEN [s EXCEPT !.done = @ \cup s.grabbing, !.xdgGrab = FALSE]
    ELSE s

\* wlr_seat_pointer_notify_button
Press(s, b) ==
    LET s1 == [s EXCEPT !.held[b] = @ + 1]
    IN IF s.held[b] = 0 /\ s.xdgGrab THEN GrabPress(s1) ELSE s1
ReleaseUnmatched(s, b) == [s EXCEPT !.held[b] = @ - 1]
Release(s, b) == [s EXCEPT !.held[b] = IF @ > 0 THEN @ - 1 ELSE 0]

(***************************************************************************)
(* wlx_popup_update_pointer_grab.  `ok' says whether the X server finds the *)
(* window viewable: it was mapped through the other connection.             *)
(***************************************************************************)
Menus(s) == ToSet(s.stack) \cap s.mapped \cap s.shown
\* The list's order decides which of them the grab is taken for.
NewestMenu(s) ==
    LET places == {i \in DOMAIN s.stack : s.stack[i] \in Menus(s)}
    IN s.stack[CHOOSE i \in places : \A j \in places : i <= j]

Ungrab(s) ==
    [s EXCEPT !.flag = FALSE, !.pending = FALSE,
              !.xgrab = IF s.flag /\ @.kind = "active" THEN NoGrab ELSE @]

GrabPointer(s, pos, ok) ==
    IF ok /\ s.xgrab = NoGrab
    THEN RefreshFocus([s EXCEPT !.flag = TRUE, !.pending = FALSE,
                                !.xgrab = [kind |-> "active", win |-> NewestMenu(s)]],
                      pos)
    ELSE [s EXCEPT !.pending = FALSE]

UpdatePointerGrab(s, pos, ok) ==
    LET menus == Menus(s)
    IN CASE menus = {}                             -> Ungrab(s)
         [] menus # {} /\ s.flag                   -> s
         [] menus # {} /\ ~s.flag /\ ButtonHeld(s) -> [s EXCEPT !.pending = TRUE]
         [] OTHER                                  -> GrabPointer(s, pos, ok)

(***************************************************************************)
(* Popups.                                                                  *)
(***************************************************************************)
\* popup_destroy_xpresent: the X server drops a grab on a destroyed window.
DestroyWindow(s, p) ==
    [s EXCEPT !.shown = @ \ {p}, !.xgrab = IF @.win = p THEN NoGrab ELSE @]

\* popup_position_and_map
PositionAndMap(s, p, pos, ok) == UpdatePointerGrab([s EXCEPT !.shown = @ \cup {p}], pos, ok)

\* popup_unmap
UnmapWithoutUpdate(s, p, pos, ok) ==
    LET s1 == [s EXCEPT !.mapped = @ \ {p}, !.focus = IF @ = p THEN None ELSE @]
    IN RefreshFocus(DestroyWindow(s1, p), pos)
UnmapKeepsWindow(s, p, pos, ok) ==
    LET s1 == [s EXCEPT !.mapped = @ \ {p}, !.focus = IF @ = p THEN None ELSE @]
    IN RefreshFocus(UpdatePointerGrab(s1, pos, ok), pos)
Unmap(s, p, pos, ok) ==
    LET s1 == [s EXCEPT !.mapped = @ \ {p}, !.focus = IF @ = p THEN None ELSE @]
    IN RefreshFocus(UpdatePointerGrab(DestroyWindow(s1, p), pos, ok), pos)

\* reset_xdg_popup
LeaveGrab(s, p) ==
    LET others == s.grabbing \ {p}
    IN [s EXCEPT !.grabbing = others, !.done = @ \ {p},
                 !.xdgGrab = IF p \in s.grabbing /\ others = {} THEN FALSE ELSE @]

Live(s) == ToSet(s.stack)
Childless(p) == \A q \in Live(seat) : parent[q] # p
Position(p) == CHOOSE k \in DOMAIN seat.stack : seat.stack[k] = p

\* A window that appears may cover the pointer; one that goes uncovers
\* another popup or a place.
Covered(s, p) == IF p \in s.shown THEN {at} ELSE {at, p}
Uncovered(s, p) == IF at = p THEN Places \cup (s.shown \ {p}) ELSE {at}

CreatePopup(p, par) ==
    /\ p \notin Live(seat)
    /\ par = Top \/ par \in seat.mapped
    /\ parent' = [parent EXCEPT ![p] = par]
    /\ seat' = [seat EXCEPT !.stack = <<p>> \o @]
    /\ UNCHANGED <<at, down, xi, core>>

\* xdg_popup.grab; a popup that never grabs is a tooltip.
GrabPopup(p) ==
    /\ p \in Live(seat) \ (seat.mapped \cup seat.grabbing)
    /\ Childless(p)
    /\ seat' = [seat EXCEPT !.grabbing = @ \cup {p}, !.xdgGrab = TRUE]
    /\ UNCHANGED <<parent, at, down, xi, core>>

\* The popup's first buffer: popup_map, then popup_commit for the same commit.
\* A placement that cannot be computed yet leaves it without a window.
MapPopup(p, placed, ok) ==
    /\ p \in Live(seat) \ seat.mapped
    /\ at' \in IF placed THEN Covered(seat, p) ELSE {at}
    /\ LET Place(s) == IF placed THEN PositionAndMap(s, p, at', ok) ELSE s
           s1 == Place([seat EXCEPT !.mapped = @ \cup {p}])
           s2 == IF ButtonHeld(s1) THEN s1 ELSE RefreshFocus(s1, at')
       IN seat' = Place(s2)
    /\ UNCHANGED <<parent, down, xi, core>>

\* popup_commit of a mapped popup
CommitPopup(p, ok) ==
    /\ p \in seat.mapped
    /\ at' \in Covered(seat, p)
    /\ seat' = PositionAndMap(seat, p, at', ok)
    /\ UNCHANGED <<parent, down, xi, core>>

\* destroy_xdg_popup and popup_destroy
DestroyPopup(p, ok) ==
    /\ p \in Live(seat)
    /\ Childless(p)
    /\ at' \in Uncovered(seat, p)
    /\ LET s1 == IF p \in seat.mapped THEN Unmap(seat, p, at', ok) ELSE seat
           s2 == UpdatePointerGrab(LeaveGrab(s1, p), at', ok)
       IN seat' = [s2 EXCEPT !.stack = RemoveAt(@, Position(p))]
    /\ parent' = [parent EXCEPT ![p] = None]
    /\ UNCHANGED <<down, xi, core>>

\* The client takes the buffer away and keeps the popup.
UnmapPopup(p, ok) ==
    /\ p \in seat.mapped
    /\ Childless(p)
    /\ at' \in Uncovered(seat, p)
    /\ seat' = LeaveGrab(Unmap(seat, p, at', ok), p)
    /\ UNCHANGED <<parent, down, xi, core>>

(***************************************************************************)
(* The user and the X server.                                              *)
(***************************************************************************)
\* Where an event goes: to the owner of the grab, else to the window below.
Route(e) ==
    LET win == IF seat.xgrab.kind = "implicit" THEN seat.xgrab.win ELSE at'
    IN CASE seat.xgrab.kind = "active" ->
                Len(core) < MaxQueue /\ core' = Append(core, e) /\ UNCHANGED xi
         [] seat.xgrab.kind # "active" /\ win # Away ->
                Len(xi) < MaxQueue /\ xi' = Append(xi, e) /\ UNCHANGED core
         [] OTHER -> UNCHANGED <<xi, core>>

UserPresses(b) ==
    /\ b \notin down
    /\ down' = down \cup {b}
    /\ at' = at
    /\ Route([kind |-> "press", button |-> b])
    /\ seat' = IF seat.xgrab = NoGrab
               THEN [seat EXCEPT !.xgrab = [kind |-> "implicit", win |-> at]] ELSE seat
    /\ UNCHANGED parent

UserReleases(b) ==
    /\ b \in down
    /\ down' = down \ {b}
    /\ at' = at
    /\ Route([kind |-> "release", button |-> b])
    /\ seat' = IF seat.xgrab.kind = "implicit" /\ down' = {}
               THEN [seat EXCEPT !.xgrab = NoGrab] ELSE seat
    /\ UNCHANGED parent

UserMoves(to) ==
    /\ to # at
    /\ at' = to
    /\ \E b \in Buttons : Route([kind |-> "motion", button |-> b])
    /\ UNCHANGED <<seat, parent, down>>

(***************************************************************************)
(* Input handlers.                                                         *)
(***************************************************************************)
Deferred(s, pos, ok) ==
    IF s.pending /\ ~ButtonHeld(s) THEN UpdatePointerGrab(s, pos, ok) ELSE s

\* server_cursor_motion(_absolute), server_cursor_button
DispatchXi(ok) ==
    /\ xi # <<>>
    /\ xi' = Tail(xi)
    /\ LET e == Head(xi)
       IN CASE e.kind = "motion"  -> seat' = Motion(seat, at)
            [] e.kind = "press"   ->
                /\ seat.held[e.button] < MaxClicks
                /\ seat' = Press(RefreshFocus(seat, at), e.button)
            [] e.kind = "release" ->
                seat' = RefreshFocus(Deferred(Release(seat, e.button), at, ok), at)
    /\ UNCHANGED <<parent, at, down, core>>

\* handle_xcb_readable, handle_core_pointer_during_grab
DispatchCore(ok) ==
    /\ core # <<>>
    /\ core' = Tail(core)
    /\ LET e == Head(core)
       IN CASE ~seat.flag -> seat' = seat
            [] seat.flag /\ e.kind = "motion"  -> seat' = Motion(seat, at)
            [] seat.flag /\ e.kind = "press"   ->
                /\ seat.held[e.button] < MaxClicks
                /\ seat' = Press(RefreshFocus(seat, at), e.button)
            [] seat.flag /\ e.kind = "release" ->
                seat' = Deferred(RefreshFocus(Release(seat, e.button), at), at, ok)
    /\ UNCHANGED <<parent, at, down, xi>>

\* FocusIn on Top while the pointer is inside it, possibly below a popup.
FocusIn ==
    /\ at = Top \/ (Overlaps /\ at \in Popups)
    /\ seat' = NotifyEnter(seat, Top)
    /\ UNCHANGED <<parent, at, down, xi, core>>

(***************************************************************************)
(* The specification.                                                      *)
(***************************************************************************)
Init ==
    /\ seat = [stack |-> <<>>, mapped |-> {}, shown |-> {}, grabbing |-> {},
               xdgGrab |-> FALSE, done |-> {}, flag |-> FALSE, pending |-> FALSE,
               held |-> NoButtons, focus |-> None, xgrab |-> NoGrab]
    /\ parent = [p \in Popups |-> None]
    /\ at \in Places
    /\ down = {} /\ xi = <<>> /\ core = <<>>

Client ==
    \/ \E p \in Popups, par \in Popups \cup {Top} : CreatePopup(p, par)
    \/ \E p \in Popups : GrabPopup(p)
    \/ \E p \in Popups, placed \in BOOLEAN, ok \in Viewable : MapPopup(p, placed, ok)
    \/ \E p \in Popups, ok \in Viewable : CommitPopup(p, ok) \/ UnmapPopup(p, ok) \/ DestroyPopup(p, ok)

User ==
    \/ \E b \in Buttons : UserPresses(b) \/ UserReleases(b)
    \/ \E to \in Places \cup seat.shown : UserMoves(to)

Compositor == \E ok \in Viewable : DispatchXi(ok) \/ DispatchCore(ok)

Next == Client \/ User \/ Compositor \/ FocusIn
Spec == Init /\ [][Next]_vars

(***************************************************************************)
(* Properties.                                                             *)
(***************************************************************************)
TypeOK ==
    /\ seat \in Seat
    /\ parent \in [Popups -> Popups \cup {Top, None}]
    /\ at \in Places \cup Popups
    /\ down \subseteq Buttons
    /\ xi \in Seq(Events) /\ core \in Seq(Events)

\* The compositor never loses track of an X pointer grab it holds (the pointer
\* of the whole desktop would be dead): while the server reports every button to
\* a menu, popup_pointer_grabbed accepts those core events and that menu is up.
GrabIsKnown ==
    seat.xgrab.kind = "active" => seat.flag /\ seat.xgrab.win \in seat.shown \cap seat.mapped

\* With no menu shown there is neither a grab nor one waiting to be taken, in
\* whatever order popups map, commit, unmap and die.
GrabNeedsMenu == seat.flag \/ seat.pending => Menus(seat) # {}

Dispatches(kind) ==
    \/ xi # <<>> /\ xi' = Tail(xi) /\ Head(xi).kind = kind
    \/ core # <<>> /\ core' = Tail(core) /\ Head(core).kind = kind /\ seat.flag

\* "Never notify_enter when button_count > 0 if the focused surface would
\* change" (TODO.md): the surface under a pressed button keeps the pointer until
\* the release or its own end.
EntersMidClick ==
    /\ ButtonHeld(seat) /\ ~Dispatches("release")
    /\ seat.focus \in seat'.mapped \cup {Top, Other}
    /\ seat'.focus \notin {seat.focus, None}
NoEnterMidClick == [][EntersMidClick => FocusIn]_vars
NeverEnterMidClick == [][~EntersMidClick]_vars

\* A first press that lands outside the grabbing popups dismisses them, wherever
\* the pointer came from and whatever had focus before: the press never reaches
\* a popup the pointer has left.
OutsidePressDismisses ==
    [][/\ Dispatches("press") /\ ~ButtonHeld(seat)
       /\ seat.xdgGrab /\ seat.grabbing \subseteq seat.mapped
       /\ Hit(seat, at) \notin seat.grabbing
       => seat.grabbing \subseteq seat'.done]_vars

\* "X pointer grab while present-window menus are mapped" (server.h).
FlagIsGrab == seat.flag => seat.xgrab.kind = "active"

\* "Never switch focus while a button is held" (process_cursor_motion) reads
\* button_count: a button it counts is one the user holds.
Quiet == down = {} /\ xi = <<>> /\ core = <<>>
SeatButtonsAreHeld == Quiet => ~ButtonHeld(seat)
=============================================================================
