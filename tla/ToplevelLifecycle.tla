------------------------- MODULE ToplevelLifecycle -------------------------
(***************************************************************************)
(* From get_toplevel to the X11 window and back: the handshake that lets a  *)
(* client map a toplevel, the output and X11 window that live while it is   *)
(* mapped, and the pointers of struct wlx_server that name a toplevel       *)
(* (focused_window, move_win and resize_win).                               *)
(*                                                                         *)
(* wlroots asserts that a configure is only scheduled for an initialized    *)
(* surface; wl-x11's handlers run on requests of the client, on events of   *)
(* the host and on map and unmap, in any order.  They are functions on the  *)
(* record `server'.  Sizes are SizeNegotiation's subject: here a handler of *)
(* the size policy schedules a configure or does not.                       *)
(***************************************************************************)
EXTENDS Naturals, Sequences

CONSTANTS Toplevels,      \* identities of xdg_toplevels
          None,           \* no toplevel: another application's window, the root
          Unmaps,         \* clients may commit a null buffer and keep the toplevel
          Decorates,      \* clients use xdg-decoration
          MenuAnswers,    \* subset of BOOLEAN: may a menu of the window be open
          MaxConfigures,  \* bound: configures in flight to a client
          MaxEvents       \* bound: focus events in flight when the host moves focus

ASSUME LifecycleAssumption ==
    /\ None \notin Toplevels
    /\ Unmaps \in BOOLEAN /\ Decorates \in BOOLEAN /\ MenuAnswers \subseteq BOOLEAN
    /\ MaxConfigures \in Nat \ {0} /\ MaxEvents \in Nat

VARIABLES server,     \* struct wlx_server and its windows
          hostFocus,  \* the toplevel whose X11 window has the host's input focus
          pointer,    \* the toplevel whose X11 window is under the pointer
          events,     \* FocusIn and FocusOut events not yet dispatched
          settled     \* history: no window was mapped or clicked since the host last moved focus

host == <<hostFocus, pointer, events, settled>>
vars == <<server, host>>

Window == [live : BOOLEAN,         \* the toplevel and its struct wlx_window exist
           initialized : BOOLEAN,  \* base->initialized
           configured : BOOLEAN,   \* base->configured
           output : BOOLEAN,       \* mapped: win->output and the X11 window exist
           sent : BOOLEAN,         \* initial_configure_sent
           decoration : BOOLEAN,   \* the client has a decoration object
           deferred : BOOLEAN,     \* pending_decoration
           activated : BOOLEAN,    \* toplevel->scheduled.activated
           idle : BOOLEAN,         \* base->configure_idle
           unacked : 0..MaxConfigures]

Drags == {"move", "resize"}

Server == [win : [Toplevels -> Window],
           focused : Toplevels \cup {None},  \* focused_window
           drags : [Drags -> Toplevels \cup {None}],  \* move_win, resize_win
           asserted : BOOLEAN]               \* assert(surface->initialized) has failed

NoWindow == [live |-> FALSE, initialized |-> FALSE, configured |-> FALSE, output |-> FALSE,
             sent |-> FALSE, decoration |-> FALSE, deferred |-> FALSE,
             activated |-> FALSE, idle |-> FALSE, unacked |-> 0]

NoDrag == [d \in Drags |-> None]

Mapped(s) == {t \in Toplevels : s.win[t].output}

(***************************************************************************)
(* Helpers.                                                                *)
(***************************************************************************)
\* wlr_xdg_surface_schedule_configure
Schedule(s, t) ==
    [s EXCEPT !.win[t].idle = TRUE, !.asserted = @ \/ ~s.win[t].initialized]

SetActivated(s, t, on) == Schedule([s EXCEPT !.win[t].activated = on], t)

\* set_active_window
SetActiveLeavingOld(s, t) ==
    IF s.focused = t \/ t = None THEN [s EXCEPT !.focused = t]
    ELSE SetActivated([s EXCEPT !.focused = t], t, TRUE)
SetActiveIfNone(s, t) ==
    IF s.focused # None /\ t # None THEN s
    ELSE LET left == IF s.focused # None THEN SetActivated(s, s.focused, FALSE) ELSE s
             moved == [left EXCEPT !.focused = t]
         IN IF t # None THEN SetActivated(moved, t, TRUE) ELSE moved
SetActiveWindow(s, t) ==
    IF s.focused = t THEN s
    ELSE LET left == IF s.focused # None THEN SetActivated(s, s.focused, FALSE) ELSE s
             moved == [left EXCEPT !.focused = t]
         IN IF t # None THEN SetActivated(moved, t, TRUE) ELSE moved

\* output_destroy, which wlr_output_destroy runs at once.
OutputDestroyKeepsDrag(s, t) ==
    [s EXCEPT !.win[t].output = FALSE, !.focused = IF @ = t THEN None ELSE @]
OutputDestroy(s, t) ==
    [s EXCEPT !.win[t].output = FALSE,
              !.focused = IF @ = t THEN None ELSE @,
              !.drags = [d \in Drags |-> IF @[d] = t THEN None ELSE @[d]]]

\* xdg_toplevel_map, with create_output_for_window
Map(s, t) == SetActiveWindow(Schedule([s EXCEPT !.win[t].output = TRUE], t), t)

\* reset_xdg_surface, after xdg_toplevel_unmap
UnmapStaysConfigured(s, t) ==
    LET gone == IF s.win[t].output THEN OutputDestroy(s, t) ELSE s
    IN [gone EXCEPT !.win[t].initialized = FALSE, !.win[t].idle = FALSE, !.win[t].unacked = 0]
Unmap(s, t) ==
    LET gone == IF s.win[t].output THEN OutputDestroy(s, t) ELSE s
    IN [gone EXCEPT !.win[t].initialized = FALSE, !.win[t].configured = FALSE,
                    !.win[t].idle = FALSE, !.win[t].unacked = 0]

\* surface_commit: the initial configure, the decoration mode that waited for
\* it, then the size policy, which may schedule a configure of its own.
SurfaceCommitSilent(s, t, policy) ==
    [s EXCEPT !.win[t].sent = TRUE, !.win[t].deferred = FALSE]
SurfaceCommit(s, t, policy) ==
    LET first == IF s.win[t].sent THEN s
                 ELSE Schedule([s EXCEPT !.win[t].sent = TRUE], t)
        decorated == IF first.win[t].deferred
                     THEN Schedule([first EXCEPT !.win[t].deferred = FALSE], t) ELSE first
    IN IF s.win[t].output /\ policy THEN Schedule(decorated, t) ELSE decorated

\* wlx_decoration_apply_mode
ApplyMode(s, t) ==
    IF s.win[t].sent THEN Schedule(s, t) ELSE [s EXCEPT !.win[t].deferred = TRUE]

(***************************************************************************)
(* Requests of the client.                                                 *)
(***************************************************************************)
\* get_toplevel, server_new_xdg_toplevel
CreateToplevel(t) ==
    /\ ~server.win[t].live
    /\ server' = [server EXCEPT !.win[t].live = TRUE]
    /\ UNCHANGED host

\* A commit that leaves the surface mapped or unmapped as it is: the initial
\* commit, or a later frame.
CommitFrame(t, policy) ==
    /\ server.win[t].live
    /\ server' = SurfaceCommit([server EXCEPT !.win[t].initialized = TRUE], t, policy)
    /\ server' # server
    /\ UNCHANGED host

\* The first buffer, which wlroots accepts only from a configured surface, maps
\* the surface before the commit listener runs.
CommitFirstBuffer(t, policy) ==
    /\ server.win[t].live /\ server.win[t].configured /\ ~server.win[t].output
    /\ server' = SurfaceCommit(Map([server EXCEPT !.win[t].initialized = TRUE], t), t, policy)
    /\ settled' = FALSE
    /\ UNCHANGED <<hostFocus, pointer, events>>

\* The X11 window of t goes: window_from_xwin finds nothing for its events, not
\* even when t is mapped again with another X11 window.
WindowGoes(t) ==
    /\ hostFocus' = IF hostFocus = t THEN None ELSE hostFocus
    /\ pointer' = IF pointer = t THEN None ELSE pointer
    /\ events' = [i \in DOMAIN events |->
                     IF events[i].win = t THEN [events[i] EXCEPT !.win = None] ELSE events[i]]
    /\ UNCHANGED settled

CommitNull(t, policy) ==
    /\ Unmaps
    /\ server.win[t].output
    /\ server' = SurfaceCommit(Unmap(server, t), t, policy)
    /\ WindowGoes(t)

\* destroy_xdg_toplevel: unmap, then xdg_toplevel_destroy, then the reset.  The
\* decoration object goes first, as the protocol asks.
DestroyToplevel(t) ==
    /\ server.win[t].live /\ ~server.win[t].decoration
    /\ server' = [Unmap(server, t) EXCEPT !.win[t] = NoWindow]
    /\ WindowGoes(t)

\* toplevel_request_maximize, toplevel_request_fullscreen
RequestStateAlways(t) ==
    /\ server.win[t].live
    /\ server' = Schedule(server, t)
    /\ UNCHANGED host
RequestState(t) ==
    /\ server.win[t].live
    /\ server' = IF server.win[t].sent THEN Schedule(server, t) ELSE server
    /\ UNCHANGED host

\* server_new_toplevel_decoration; decoration_request_mode
CreateDecoration(t) ==
    /\ Decorates
    /\ server.win[t].live /\ ~server.win[t].decoration
    /\ server' = ApplyMode([server EXCEPT !.win[t].decoration = TRUE], t)
    /\ UNCHANGED host

RequestDecoration(t) ==
    /\ server.win[t].decoration
    /\ server' = ApplyMode(server, t)
    /\ UNCHANGED host

\* decoration_destroy
DestroyDecorationOnly(t) ==
    /\ server.win[t].decoration
    /\ server' = [server EXCEPT !.win[t].decoration = FALSE]
    /\ UNCHANGED host
DestroyDecoration(t) ==
    /\ server.win[t].decoration
    /\ server' = [server EXCEPT !.win[t].decoration = FALSE, !.win[t].deferred = FALSE]
    /\ UNCHANGED host

\* toplevel_request_move, toplevel_request_resize: without an X11 window
\* begin_interactive_move and begin_interactive_resize return.
RequestDrag(t, d) ==
    /\ server.win[t].configured
    /\ server' = IF server.win[t].output THEN [server EXCEPT !.drags[d] = t] ELSE server
    /\ UNCHANGED host

\* surface_send_configure, from the event loop's idle queue
SendConfigure(t) ==
    /\ server.win[t].idle
    /\ server.win[t].unacked < MaxConfigures
    /\ server' = [server EXCEPT !.win[t].idle = FALSE, !.win[t].unacked = @ + 1]
    /\ UNCHANGED host

\* xdg_surface.ack_configure; the older configures are dropped.
AckConfigure(t) ==
    \E left \in 0..MaxConfigures :
        /\ left < server.win[t].unacked
        /\ server' = [server EXCEPT !.win[t].unacked = left, !.win[t].configured = TRUE]
        /\ UNCHANGED host

(***************************************************************************)
(* The host.                                                               *)
(***************************************************************************)
\* The user or the WM gives the input focus to another window.
HostFocuses(t) ==
    /\ t # hostFocus /\ t \in Mapped(server) \cup {None}
    /\ Len(events) < MaxEvents
    /\ hostFocus' = t
    /\ events' = events
          \o (IF hostFocus # None THEN <<[in |-> FALSE, win |-> hostFocus]>> ELSE <<>>)
          \o (IF t # None THEN <<[in |-> TRUE, win |-> t]>> ELSE <<>>)
    /\ settled' = TRUE
    /\ UNCHANGED <<server, pointer>>

PointerMoves(t) ==
    /\ t # pointer /\ t \in Mapped(server) \cup {None}
    /\ pointer' = t
    /\ UNCHANGED <<server, hostFocus, events, settled>>

\* A size or a state of the host's reaches output_request_state or
\* win_handle_net_wm_state_notify, which configure the client.
HostConfigures(t) ==
    /\ t \in Mapped(server)
    /\ server' = Schedule(server, t)
    /\ UNCHANGED host

\* FocusIn in handle_xcb_readable
HandleFocusIn ==
    /\ events # <<>> /\ Head(events).in
    /\ events' = Tail(events)
    /\ server' = IF Head(events).win # None
                 THEN SetActiveWindow(server, Head(events).win) ELSE server
    /\ UNCHANGED <<hostFocus, pointer, settled>>

\* FocusOut: kept while the pointer is over one of our windows or a menu is open.
HandleFocusOut(menu) ==
    /\ events # <<>> /\ ~Head(events).in
    /\ events' = Tail(events)
    /\ server' = IF /\ Head(events).win # None /\ server.focused = Head(events).win
                    /\ pointer = None /\ ~menu
                 THEN SetActiveWindow(server, None) ELSE server
    /\ UNCHANGED <<hostFocus, pointer, settled>>

\* The toplevels surface_under_root_pointer may find: the one under the pointer,
\* or the owner of a menu that is there.
UnderPointer == {pointer} \cup (IF TRUE \in MenuAnswers THEN Mapped(server) ELSE {})

\* pointer_enter_surface_under_cursor
EnterSurface(s, t) == IF t # None THEN SetActiveWindow(s, t) ELSE s

\* A button press, or a menu that comes or goes under the pointer.
PointerEnters(t) ==
    /\ t \notin {None, server.focused}
    /\ server' = EnterSurface(server, t)
    /\ settled' = FALSE
    /\ UNCHANGED <<hostFocus, pointer, events>>

\* server_cursor_button: a release ends the interactive move or resize.
ButtonReleased(t) ==
    /\ server.drags # NoDrag
    /\ server' = [EnterSurface(server, t) EXCEPT !.drags = NoDrag]
    /\ settled' = (settled /\ server'.focused = server.focused)
    /\ UNCHANGED <<hostFocus, pointer, events>>

(***************************************************************************)
(* The specification.                                                      *)
(***************************************************************************)
Init ==
    /\ server = [win |-> [t \in Toplevels |-> NoWindow], focused |-> None,
                 drags |-> NoDrag, asserted |-> FALSE]
    /\ hostFocus = None /\ pointer = None /\ events = <<>> /\ settled = TRUE

Client(t) ==
    \/ CreateToplevel(t) \/ DestroyToplevel(t)
    \/ \E policy \in BOOLEAN :
          CommitFrame(t, policy) \/ CommitFirstBuffer(t, policy) \/ CommitNull(t, policy)
    \/ RequestState(t) \/ (\E d \in Drags : RequestDrag(t, d))
    \/ CreateDecoration(t) \/ RequestDecoration(t) \/ DestroyDecoration(t)

Host ==
    \/ \E t \in Toplevels \cup {None} : HostFocuses(t) \/ PointerMoves(t)
    \/ \E t \in Toplevels : HostConfigures(t)

Dispatch ==
    \/ HandleFocusIn \/ (\E menu \in MenuAnswers : HandleFocusOut(menu))
    \/ \E t \in UnderPointer : PointerEnters(t) \/ ButtonReleased(t)

Next ==
    \/ \E t \in Toplevels : Client(t) \/ SendConfigure(t) \/ AckConfigure(t)
    \/ Host \/ Dispatch

Spec == Init /\ [][Next]_vars

\* Idle callbacks run and clients answer configures.
FairSpec == Spec /\ \A t \in Toplevels : WF_vars(SendConfigure(t)) /\ WF_vars(AckConfigure(t))

(***************************************************************************)
(* Properties.                                                             *)
(***************************************************************************)
\* pending_decoration, in particular, names a decoration that still exists.
TypeOK ==
    /\ server \in Server
    /\ \A t \in Toplevels :
          server.win[t].deferred => server.win[t].decoration /\ ~server.win[t].sent
    /\ hostFocus \in Toplevels \cup {None} /\ pointer \in Toplevels \cup {None}
    /\ events \in Seq([in : BOOLEAN, win : Toplevels \cup {None}])
    /\ settled \in BOOLEAN

\* wlroots' assert(surface->initialized) holds in every handler: no request that
\* comes before the initial commit, and no event of the host's, schedules a
\* configure too early.
ConfiguresAreLegal == ~server.asserted

\* A client that has committed its surface and waits to be configured is
\* configured: otherwise it never attaches a buffer and its window never appears.
Waits(t) == server.win[t].initialized /\ ~server.win[t].configured
InitialCommitAnswered == \A t \in Toplevels : Waits(t) ~> ~Waits(t)

\* Of the windows on the screen exactly focused_window has been told it is
\* active, across maps, unmaps, destructions and focus events of other windows.
ActiveIsFocused ==
    \A t \in Mapped(server) : server.win[t].activated <=> server.focused = t

\* focused_window, move_win and resize_win never name a toplevel that has no X11
\* window: drag and focus handlers read its window ids.
NamedWindowsMapped ==
    /\ server.focused \in Mapped(server) \cup {None}
    /\ \A d \in Drags : server.drags[d] \in Mapped(server) \cup {None}

\* When the host has given one of the windows the focus, that window is active
\* once the events are dispatched, although FocusOut and FocusIn cross maps,
\* unmaps and pointer moves.  (A window mapped or clicked later takes activation.)
HostFocusWins ==
    events = <<>> /\ settled /\ hostFocus # None => server.focused = hostFocus

\* "keep keyboard activation aligned with real host WM focus" (FocusIn handler):
\* when the host has moved the focus away, no window stays active.
HostFocusAligned ==
    events = <<>> /\ settled /\ hostFocus = None => server.focused = None
=============================================================================
