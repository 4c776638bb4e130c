-------------------------- MODULE InteractiveDrag --------------------------
(***************************************************************************)
(* Interactive move and resize of a decorated toplevel, in one dimension.   *)
(* wl-x11 drives the drag itself: on pointer motion, throttled, it asks the *)
(* server where the pointer is and the window manager to put the frame at   *)
(* the same offset from it.  The WM places a frame Inset away from what it  *)
(* was asked for, so wl-x11 learns a correction from the frame's            *)
(* ConfigureNotify events; nothing in an event says which request it        *)
(* answers.                                                                 *)
(*                                                                         *)
(* The drag ends with the button's release, if that comes through the       *)
(* backend's connection.  While a menu holds the X pointer grab (PopupGrab) *)
(* the server sends pointer events to the compositor's own connection, and  *)
(* the handler there ends no drag.  Its events and the frame's notifies     *)
(* share that connection; here they may be handled in any order.            *)
(***************************************************************************)
EXTENDS Integers, Sequences, Functions

CONSTANTS Pointers,    \* root x coordinates the pointer visits
          FirstX,      \* where the frame is at first
          FirstWidth,  \* and how wide
          MinWidth,    \* WLX_MIN_WINDOW_SIZE
          Inset,       \* where the WM puts a frame, less where it was asked to
          MaxMoves,    \* bound: motions of the pointer
          MaxInput,    \* bound: pointer events not handled
          MaxClicks,   \* bound: presses of the button
          MaxDrags,    \* bound: drags the client asks for
          Kinds        \* of drags: "move" and resize edges

ASSUME NumbersAssumption ==
    /\ Pointers \subseteq Int /\ FirstX \in Int /\ Inset \in Int
    /\ MinWidth \in Nat \ {0} /\ FirstWidth \in Nat /\ FirstWidth >= MinWidth
    /\ MaxMoves \in Nat /\ MaxInput \in Nat /\ MaxClicks \in Nat /\ MaxDrags \in Nat
ASSUME KindsAssumption == Kinds \subseteq {"move", "left", "right"}

VARIABLES
  \* the user and the client
    pointer, moves,  \* where the pointer is, how often it moved
    down, clicks,    \* the button is down, how often it was pressed
    grab,            \* the server's pointer grab: a click's ("implicit"), or
                     \* a menu's ("active": popup_pointer_grabbed)
    input,           \* XInput2 events not handled
    core,            \* core events under a menu's grab, not handled
    asks, drags,     \* xdg_toplevel.move and .resize requests: those not
                     \* handled, and how many there were
  \* the compositor
    held,            \* pointer_state.buttons[].n_pressed of the button
    moving,          \* move_win is the window
    edge,            \* resize_win and resize_edges, or "none"
    offset,          \* move_offset_x
    start,           \* resize_start_x, _w, resize_start_pointer_x
    fresh,           \* drag_last_send_at is zero
    requested,       \* drag_last_requested_x
    correction,      \* drag_correction_x
  \* the server and the window manager
    wm,              \* ConfigureRequests the WM has not answered
    notifies,        \* the frame's ConfigureNotify events not handled
    pos, width,      \* the frame
  \* history
    stage,           \* of the drag: "begun", "sent" a request, "learned" since
    sentAt,          \* {the pointer of the drag's last request} if that was
                     \* sent with nothing in flight and a correction learned
    stray            \* the drag was begun with no release left to come ("late"),
                     \* or a release since went elsewhere than to
                     \* server_cursor_button ("missed")

user == <<pointer, moves, down, clicks>>
queues == <<input, core>>
client == <<asks, drags>>
drag == <<moving, edge, offset, start>>
follow == <<fresh, requested, correction>>
host == <<wm, notifies, pos, width>>
history == <<stage, sentAt, stray>>
vars == <<user, queues, held, client, grab, drag, follow, host, history>>

Keep == 0    \* no width in the request
Dragging == moving \/ edge # "none"
Quiet == wm = <<>> /\ notifies = <<>>
Missed == stray' = IF Dragging /\ stray = "no" THEN "missed" ELSE stray
Queued(event) == event \in Range(input) \cup Range(core)
ReleaseComing == down \/ Queued("release")

(***************************************************************************)
(* The user and the client.                                                 *)
(***************************************************************************)
\* Under a menu's grab an event goes to the compositor's connection.
Sent(event) ==
    /\ Len(input) + Len(core) < MaxInput
    /\ IF grab = "active"
       THEN core' = Append(core, event) /\ UNCHANGED input
       ELSE input' = Append(input, event) /\ UNCHANGED core

MovePointer(p) ==
    /\ p # pointer /\ moves < MaxMoves
    /\ pointer' = p /\ moves' = moves + 1
    /\ Sent("motion")
    /\ UNCHANGED <<down, clicks, held, client, grab, drag, follow, host, history>>

Press ==
    /\ ~down /\ clicks < MaxClicks
    /\ down' = TRUE /\ clicks' = clicks + 1
    /\ grab' = IF grab = "none" THEN "implicit" ELSE grab
    /\ Sent("press")
    /\ UNCHANGED <<pointer, moves, held, client, drag, follow, host, history>>

\* If the grab under which the button was pressed is gone, nobody hears of the
\* release outside the window.
Release ==
    /\ down /\ down' = FALSE
    /\ grab' = IF grab = "implicit" THEN "none" ELSE grab
    /\ \/ Sent("release") /\ UNCHANGED stray
       \/ grab = "none" /\ Missed /\ UNCHANGED queues
    /\ UNCHANGED <<pointer, moves, clicks, held, client, drag, follow, host, stage, sentAt>>

\* A client asks for a drag while it has seen a press and no release.
Ask(kind) ==
    /\ held > 0 /\ asks = <<>> /\ drags < MaxDrags
    /\ asks' = Append(asks, kind) /\ drags' = drags + 1
    /\ UNCHANGED <<user, queues, held, grab, drag, follow, host, history>>

(***************************************************************************)
(* Menus: the outcomes of wlx_popup_update_pointer_grab.                    *)
(***************************************************************************)
\* When a menu is mapped, or after the release that this was deferred to.
MenuGrabs ==
    /\ held = 0 /\ grab = "none"
    /\ grab' = "active"
    /\ UNCHANGED <<user, queues, held, client, drag, follow, host, history>>

\* With the last menu; pointer focus moves off it if it was there.
MenuCloses ==
    /\ grab = "active" /\ grab' = "none"
    /\ held' \in {held, 0}
    /\ UNCHANGED <<user, queues, client, drag, follow, host, history>>

(***************************************************************************)
(* The compositor: beginning and ending a drag.                             *)
(***************************************************************************)
\* begin_interactive_move, begin_interactive_resize; the frame's position and
\* size and the pointer's are queried from the server.
Begin ==
    /\ asks # <<>>
    /\ asks' = Tail(asks)
    /\ LET kind == Head(asks)
       IN \/ /\ kind = "move"
             /\ moving' = TRUE
             /\ offset' = pos - pointer
             /\ UNCHANGED <<edge, start>>
          \/ /\ kind # "move"
             /\ edge' = kind
             /\ start' = [x |-> pos, w |-> width, p |-> pointer]
             /\ UNCHANGED <<moving, offset>>
    /\ fresh' = TRUE /\ correction' = 0 /\ requested' = pos
    /\ stage' = "begun" /\ sentAt' = {}
    /\ stray' = IF ReleaseComing THEN "no" ELSE "late"
    /\ UNCHANGED <<user, queues, held, drags, grab, host>>

Handles(event) ==
    input # <<>> /\ Head(input) = event /\ input' = Tail(input) /\ UNCHANGED core
HandlesCore(event) ==
    core # <<>> /\ Head(core) = event /\ core' = Tail(core) /\ UNCHANGED input

\* wlr_seat_pointer_notify_button
CountPress == held' = held + 1
CountRelease == held' = IF held > 0 THEN held - 1 ELSE 0

\* server_cursor_button
HandlePress ==
    /\ Handles("press") /\ CountPress
    /\ UNCHANGED <<user, client, grab, drag, follow, host, history>>
HandleReleaseOne ==
    /\ Handles("release") /\ CountRelease
    /\ moving' = FALSE /\ edge' = IF moving THEN edge ELSE "none"
    /\ stage' = "begun" /\ sentAt' = {} /\ stray' = "no"
    /\ UNCHANGED <<user, client, grab, offset, start, follow, host>>
HandleRelease ==
    /\ Handles("release") /\ CountRelease
    /\ moving' = FALSE /\ edge' = "none"
    /\ stage' = "begun" /\ sentAt' = {} /\ stray' = "no"
    /\ UNCHANGED <<user, client, grab, offset, start, follow, host>>

\* handle_core_pointer_during_grab: no drag ends here.
CorePress ==
    /\ grab = "active" /\ HandlesCore("press") /\ CountPress
    /\ UNCHANGED <<user, client, grab, drag, follow, host, history>>
CoreRelease ==
    /\ grab = "active" /\ HandlesCore("release") /\ CountRelease
    /\ Missed
    /\ UNCHANGED <<user, client, grab, drag, follow, host, stage, sentAt>>

\* handle_xcb_readable, once the flag is clear
DropCore ==
    /\ grab # "active" /\ core # <<>>
    /\ core' = Tail(core)
    /\ IF Head(core) = "release" THEN Missed ELSE UNCHANGED stray
    /\ UNCHANGED <<user, input, held, client, grab, drag, follow, host, stage, sentAt>>

(***************************************************************************)
(* The compositor: following the pointer.                                   *)
(***************************************************************************)
Moved == pointer - start.p
TargetXUncorrected ==
    IF moving THEN pointer + offset
    ELSE IF edge = "left" THEN start.x + Moved ELSE start.x
TargetX == TargetXUncorrected - correction
AsAsked(w) == w
AtLeast(w) == IF w < MinWidth THEN MinWidth ELSE w
\* A move sends no width: the frame keeps the one it has by then.
TargetWidth ==
    IF moving THEN Keep
    ELSE AtLeast(IF edge = "left" THEN start.w - Moved ELSE start.w + Moved)

\* process_cursor_motion, update_interactive_drag
FollowPointer ==
    /\ \/ /\ ~Dragging \/ ~fresh    \* within WLX_DRAG_THROTTLE_MS of a request
          /\ UNCHANGED <<fresh, requested, wm, stage, sentAt>>
       \/ /\ Dragging
          /\ fresh' = FALSE
          /\ requested' = TargetX
          /\ wm' = Append(wm, [x |-> TargetX, w |-> TargetWidth])
          /\ stage' = IF stage = "begun" THEN "sent" ELSE stage
          /\ sentAt' = IF stage = "learned" /\ Quiet THEN {pointer} ELSE {}
    /\ UNCHANGED <<user, held, client, grab, drag, correction, notifies, pos, width, stray>>
HandleMotion == Handles("motion") /\ FollowPointer
CoreMotion == grab = "active" /\ HandlesCore("motion") /\ FollowPointer

\* handle_xcb_readable: ConfigureNotify of the frame
LearntTwice(x) == x - requested + correction
Learnt(x) == x - requested
HandleNotify ==
    /\ notifies # <<>>
    /\ notifies' = Tail(notifies)
    /\ correction' = IF Dragging THEN Learnt(Head(notifies)) ELSE correction
    /\ stage' = IF Dragging /\ stage = "sent" THEN "learned" ELSE stage
    /\ UNCHANGED <<user, queues, held, client, grab, drag, fresh, requested, wm, pos, width,
                   sentAt, stray>>

(***************************************************************************)
(* The window manager; a frame that stays as it is is not notified.         *)
(***************************************************************************)
Place ==
    /\ wm # <<>>
    /\ wm' = Tail(wm)
    /\ pos' = Head(wm).x + Inset
    /\ width' = IF Head(wm).w = Keep THEN width ELSE Head(wm).w
    /\ notifies' = IF pos' = pos /\ width' = width THEN notifies ELSE Append(notifies, pos')
    /\ UNCHANGED <<user, queues, held, client, grab, drag, follow, history>>

Init ==
    /\ pointer \in Pointers /\ moves = 0 /\ down = FALSE /\ clicks = 0 /\ input = <<>> /\ core = <<>>
    /\ held = 0 /\ asks = <<>> /\ drags = 0 /\ grab = "none"
    /\ moving = FALSE /\ edge = "none" /\ offset = 0 /\ start = [x |-> 0, w |-> 0, p |-> 0]
    /\ fresh = TRUE /\ requested = 0 /\ correction = 0
    /\ wm = <<>> /\ notifies = <<>> /\ pos = FirstX /\ width = FirstWidth
    /\ stage = "begun" /\ sentAt = {} /\ stray = "no"

User == Press \/ Release \/ \E p \in Pointers : MovePointer(p)
Menus == MenuGrabs \/ MenuCloses
Compositor == \/ Begin \/ HandlePress \/ HandleRelease \/ HandleMotion \/ HandleNotify
              \/ CorePress \/ CoreRelease \/ CoreMotion \/ DropCore
Next == User \/ (\E k \in Kinds : Ask(k)) \/ Menus \/ Compositor \/ Place

Spec == Init /\ [][Next]_vars

(***************************************************************************)
(* Properties.                                                              *)
(***************************************************************************)
Widths == {w \in Nat : w >= MinWidth}
Request == [x : Int, w : Widths \cup {Keep}]
TypeOK ==
    /\ pointer \in Pointers /\ moves \in 0..MaxMoves /\ down \in BOOLEAN /\ clicks \in 0..MaxClicks
    /\ input \in Seq({"motion", "press", "release"})
    /\ core \in Seq({"motion", "press", "release"})
    /\ grab \in {"none", "implicit", "active"}
    /\ held \in Nat /\ asks \in Seq(Kinds) /\ drags \in 0..MaxDrags
    /\ moving \in BOOLEAN /\ edge \in Kinds \cup {"none"} /\ edge # "move"
    /\ offset \in Int /\ start \in [x : Int, w : Int, p : Int]
    /\ fresh \in BOOLEAN /\ requested \in Int /\ correction \in Int
    /\ wm \in Seq(Request) /\ notifies \in Seq(Int)
    /\ pos \in Int /\ width \in Widths
    /\ stage \in {"begun", "sent", "learned"}
    /\ sentAt \in SUBSET Pointers /\ stray \in {"no", "late", "missed"}

\* Whatever notifies of earlier requests, or of an earlier drag, were taken for
\* answers on the way: once nothing is in flight, a correction learned in this
\* drag is the WM's displacement, no more and no less.
CorrectionIsInset == Quiet /\ Dragging /\ stage = "learned" => correction = Inset

\* A request sent from such a state puts the window where the drag wants it: a
\* moved one at its offset from the pointer, a resized one with the edge that is
\* not dragged where it was, unless MinWidth stops it.
LandsUnderPointer ==
    Quiet /\ Dragging => \A p \in sentAt :
      \/ moving /\ pos = p + offset
      \/ /\ ~moving /\ edge = "left" /\ pos = start.x + p - start.p
         /\ width > MinWidth => pos + width = start.x + start.w
      \/ /\ ~moving /\ edge = "right" /\ pos = start.x
         /\ width > MinWidth => width = start.w + p - start.p

\* Without a button down and with every event handled no drag is left, but for
\* one that was begun with no release left to come and one whose release went
\* another way than to server_cursor_button: under a menu's grab, dropped with
\* the flag, or to nobody.
EndsWithItsRelease ==
    ~down /\ ~Queued("press") /\ ~Queued("release") /\ Dragging => stray # "no"

(***************************************************************************)
(* Claims that do not hold.                                                 *)
(***************************************************************************)
\* server.h:195: the discrepancy is gone after the first real round trip.
ConvergesAtOnce == Dragging /\ stage = "learned" => correction = Inset
\* The window comes to where the pointer stopped: the last motions may have
\* been throttled, and nothing repeats them.
CatchesUp == Quiet /\ moving /\ input = <<>> /\ core = <<>> /\ stage = "learned" => pos = pointer + offset
\* The edge that is not dragged stays in place.
EdgeStays == Quiet /\ ~moving /\ edge = "left" /\ sentAt # {} => pos + width = start.x + start.w
\* "ending self-driven interactive move" (input.c:492): the release ends the drag,
\* but not if it comes through handle_core_pointer_during_grab, or to
\* handle_xcb_readable with the flag clear.
OnlyLateDragsOutlive ==
    ~down /\ ~Queued("press") /\ ~Queued("release") /\ Dragging => stray = "late"
\* No drag without a button.
DragNeedsButton == ~down /\ input = <<>> /\ core = <<>> => ~Dragging
=============================================================================
