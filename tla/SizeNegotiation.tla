-------------------------- MODULE SizeNegotiation --------------------------
(***************************************************************************)
(* Who decides how large a toplevel is: the host window manager (through   *)
(* ConfigureNotify and _NET_WM_STATE), the Wayland client (through the     *)
(* geometry it commits) or wl-x11, which stands between them.              *)
(*                                                                         *)
(* The module follows one mapped toplevel from the end of                  *)
(* create_output_for_window.  The compositor's handlers are written as     *)
(* functions on the record `win' (struct wlx_window plus the `scheduled'   *)
(* half of wlr_xdg_toplevel), in the order in which the code calls them.   *)
(* The X11 backend's filtering of ConfigureNotify is X11Output's subject;  *)
(* here a host size that differs from the output mode reaches              *)
(* output_request_state.                                                   *)
(***************************************************************************)
EXTENDS ContentSize, Sequences

CONSTANTS PreferCsd,      \* --csd: buffer-sized host window
          SetsGeometry,   \* the client uses xdg_surface.set_window_geometry
          ClientSizes,    \* content sizes the client may choose
          ClientMargins,  \* buffer minus geometry (client-drawn shadow)
          HostSizes,      \* content sizes the host WM may give the window
          States,         \* subset of {"maximized", "fullscreen"}
          ClientStates,   \* those the client asks for itself
          HostMayRefuse,  \* the host may keep its size when asked for another
          PromptClient,   \* the client draws a configure within WLX_FIT_OSCILLATION_MS
          MaxConfigures   \* bound: configures in flight to the client

ASSUME ModeAssumption ==
    /\ PreferCsd \in BOOLEAN /\ SetsGeometry \in BOOLEAN
    /\ HostMayRefuse \in BOOLEAN /\ PromptClient \in BOOLEAN
ASSUME ClientAssumption ==
    /\ ClientSizes \subseteq Size /\ \A s \in ClientSizes : Positive(s)
    /\ ClientMargins \subseteq Size
    /\ MaxConfigures \in Nat
\* The host WM keeps the content window at WLX_MIN_OUTPUT_SIZE or larger;
\* below it resize_output_to refuses and the reparent path alone would still
\* configure the client.
ASSUME HostAssumption ==
    /\ HostSizes \subseteq Size
    /\ \A s \in HostSizes : Positive(s) /\ ~BelowMinimum(s)
ASSUME StatesAssumption ==
    States \subseteq {"maximized", "fullscreen"} /\ ClientStates \subseteq States

VARIABLES win,          \* the compositor's record of the toplevel
          configures,   \* xdg_toplevel.configure events the client has not acked
          pending,      \* toplevel->pending: states of the last acked configure
          current,      \* toplevel->current: states in effect since the last commit
          geo, buf,     \* surface current: window geometry and buffer size
          hint,         \* size the client has acked and still owes a buffer for
          real,         \* size of the X11 content window
          hostStates,   \* _NET_WM_STATE of the X11 window
          stateNotify   \* a PropertyNotify for _NET_WM_STATE is queued

client == <<configures, pending, current, geo, buf, hint>>
host == <<real, hostStates, stateNotify>>
vars == <<win, client, host>>

Window == [mode : Size,            \* output->width, output->height
           sizeFromWm : BOOLEAN,   \* size_from_wm
           margin : Size,          \* csd_margin_w, csd_margin_h
           lastConf : Size,        \* last_client_conf_w, last_client_conf_h
           fitLast : Size,         \* fit_last_w, fit_last_h
           fitPrev : Size,         \* fit_prev_w, fit_prev_h
           fitRecent : BOOLEAN,    \* fit_last_msec < WLX_FIT_OSCILLATION_MS ago
           fillRecent : BOOLEAN,   \* fill_host_last_msec < 500 ms ago
           sched : Size,           \* toplevel->scheduled.width, height
           schedStates : SUBSET States, \* toplevel->scheduled.maximized, fullscreen
           idle : BOOLEAN]         \* base->configure_idle: a configure is scheduled

Configure == [size : Size, states : SUBSET States]

(***************************************************************************)
(* The compositor's helpers.  `g' is the committed window geometry and     *)
(* `tiled' the code's test that the toplevel is, or has acked being,       *)
(* maximized or fullscreen.                                                *)
(***************************************************************************)
IsTiledFullscreenOnly(pend, cur) == "fullscreen" \in pend \cup cur
IsTiled(pend, cur) == (pend \cup cur) # {}

\* toplevel_preferred_size
PreferredSize(g, b) ==
    LET wanted == IF ~PreferCsd /\ Positive(g) THEN g ELSE b
        OrDefault(i) == IF wanted[i] < MinOutputSize THEN DefaultSize[i] ELSE wanted[i]
    IN <<OrDefault(1), OrDefault(2)>>

\* wlx_toplevel_size_for_output
SizeForOutputNoMargin(w, tiled) == Unscale(w.mode)
SizeForOutputUnclamped(w, tiled) ==
    IF PreferCsd /\ ~tiled
    THEN <<Unscale(w.mode)[1] - w.margin[1], Unscale(w.mode)[2] - w.margin[2]>>
    ELSE Unscale(w.mode)
SizeForOutput(w, tiled) ==
    IF PreferCsd /\ ~tiled THEN SizeMinus(Unscale(w.mode), w.margin, 1)
                           ELSE Unscale(w.mode)

\* wlx_toplevel_set_size
SetSizeForgetting(w, s) == [w EXCEPT !.sched = s, !.idle = TRUE]
SetSize(w, s) ==
    [w EXCEPT !.sched = s, !.idle = TRUE,
              !.lastConf = IF Positive(s) THEN s ELSE @]

\* wlx_toplevel_fill_host
FillHostAlwaysLimited(w, g, tiled) ==
    LET fill == SizeForOutput(w, tiled)
    IN IF w.fillRecent THEN w ELSE [SetSize(w, fill) EXCEPT !.fillRecent = TRUE]
FillHost(w, g, tiled) ==
    LET fill == SizeForOutput(w, tiled)
        lastOk == Positive(w.lastConf) /\ Near(fill, w.lastConf)
        confOk == Positive(g) /\ Near(fill, g)
    IN IF lastOk /\ (confOk \/ w.fillRecent)
       THEN w
       ELSE [SetSize(w, fill) EXCEPT !.fillRecent = @ \/ lastOk]

\* wlr_output_commit_state with a mode, and the output_commit listener it runs.
CommitMode(w, s, g, tiled) ==
    IF s = w.mode THEN w ELSE FillHost([w EXCEPT !.mode = s], g, tiled)

\* resize_output_to
ResizeOutputTo(w, s, g, tiled) ==
    IF BelowMinimum(s) THEN w ELSE CommitMode(w, s, g, tiled)

\* win_handle_net_wm_state_notify, after it has read the property `want'.
\* maximized is mirrored before fullscreen, so fullscreen has the last word
\* on size_from_wm; fill_host runs if either is set.  (The property can always be
\* read: an EWMH host keeps it on the window it manages.)
MirrorOne(w, f, want, mirrored) ==
    IF (f \in want) = (f \in mirrored) THEN w
    ELSE [w EXCEPT !.sizeFromWm = f \in want,
                   !.margin = IF f \in want THEN Unset ELSE @,
                   !.schedStates = IF f \in want THEN @ \cup {f} ELSE @ \ {f},
                   !.idle = TRUE]

HandleNetWmState(w, want) ==
    LET mirrored == pending \cup current
        w1 == IF "maximized" \in States THEN MirrorOne(w, "maximized", want, mirrored) ELSE w
        w2 == IF "fullscreen" \in States THEN MirrorOne(w1, "fullscreen", want, mirrored) ELSE w1
    IN IF want # {} THEN FillHost(w2, geo, IsTiled(pending, current)) ELSE w2

\* surface_commit, after wlroots has applied the client's state: geometry g,
\* buffer b, states in effect `pending'.
TrackMargin(w, g, b) ==
    IF Positive(g) /\ Positive(b) THEN [w EXCEPT !.margin = SizeMinus(b, g, 0)] ELSE w

ConfigureIfNew(w, conf) == IF w.lastConf = conf THEN w ELSE SetSize(w, conf)

OscillationIgnored(w, out) == FALSE
\* A fit within WLX_FIT_OSCILLATION_MS that returns to the size before the last.
Oscillation(w, out) ==
    w.fitRecent /\ Positive(w.fitPrev) /\ out = w.fitPrev /\ w.fitLast # w.fitPrev

FitHost(w, out, conf, g, tiled) ==
    LET fitted == [w EXCEPT !.fitPrev = w.fitLast, !.fitLast = out, !.fitRecent = TRUE]
    IN ConfigureIfNew(ResizeOutputTo(fitted, out, g, tiled), conf)

SurfaceCommit(w, g, b) ==
    LET tiled == IsTiled(pending, pending)
        preferred == PreferredSize(g, b)
        conf == IF Positive(g) THEN g ELSE preferred
        out == Scale(preferred)
        mismatch == ~Near(out, w.mode)
        confDiffers == ~Positive(w.lastConf) \/ ~Near(conf, w.lastConf)
        assertShrink == mismatch /\ confDiffers /\ ~tiled /\ Shrinks(out, w.mode)
        fromWm == w.sizeFromWm /\ ~assertShrink
        wantFit == mismatch /\ ~tiled /\ ~fromWm
        kept == [TrackMargin(w, g, b) EXCEPT !.sizeFromWm = fromWm]
    IN CASE wantFit /\ ~Oscillation(w, out) -> FitHost(kept, out, conf, g, tiled)
         [] mismatch /\ ~wantFit            -> FillHost(kept, g, tiled)
         [] OTHER                           -> kept

(***************************************************************************)
(* The host.                                                               *)
(***************************************************************************)
\* The X server or the WM grants a ConfigureWindow of the compositor, or
\* keeps the size it has (a WM that owns a maximized window).
HostAnswers ==
    \/ win'.mode # win.mode /\ real' = win'.mode
    \/ (win'.mode = win.mode \/ HostMayRefuse) /\ real' = real

\* The user or the WM resizes the window.
HostResizes(s) ==
    /\ s # real
    /\ real' = s
    /\ UNCHANGED <<win, client, hostStates, stateNotify>>

\* The WM rewrites _NET_WM_STATE; st = hostStates is a change of another atom.
HostChangesStates(st) ==
    /\ hostStates' = st
    /\ stateNotify' = TRUE
    /\ (st # hostStates \/ ~stateNotify)
    /\ UNCHANGED <<win, client, real>>

(***************************************************************************)
(* Handlers of host events.                                                *)
(***************************************************************************)
\* output_request_state.  The property is read at once, whether or not its
\* PropertyNotify has been dispatched, and before the mode is committed.
OutputRequestState ==
    /\ real # win.mode
    /\ LET w == HandleNetWmState([win EXCEPT !.sizeFromWm = TRUE], hostStates)
       IN win' = CommitMode(w, real, geo, IsTiled(pending, current))
    /\ UNCHANGED <<client, host>>

\* PropertyNotify of _NET_WM_STATE in handle_xcb_readable.
NetWmStateNotify ==
    /\ stateNotify
    /\ stateNotify' = FALSE
    /\ win' = HandleNetWmState(win, hostStates)
    /\ UNCHANGED <<client, real, hostStates>>

\* ReparentNotify: the WM has framed the window.  wl-x11 asks again for the
\* output's size and reads the geometry back without waiting for the WM: s is
\* what it reads, granted already (s = mode) or not.
ReparentNotify(s) ==
    /\ real' = s
    /\ win' = IF s = win.mode THEN win
              ELSE SetSize(ResizeOutputTo(win, s, geo, IsTiled(pending, current)),
                           Unscale(s))
    /\ UNCHANGED <<client, hostStates, stateNotify>>

(***************************************************************************)
(* The xdg-shell side.                                                     *)
(***************************************************************************)
\* toplevel_request_maximize / toplevel_request_fullscreen.  The EWMH message
\* only asks the WM, which answers with HostChangesStates, or not.
ClientRequestsState(f, want) ==
    /\ win' = [win EXCEPT !.schedStates = IF want THEN @ \cup {f} ELSE @ \ {f},
                          !.idle = TRUE]
    /\ win' # win
    /\ UNCHANGED <<client, host>>

\* surface_send_configure, from the event loop's idle queue.
SendConfigure ==
    /\ win.idle
    /\ Len(configures) < MaxConfigures
    /\ win' = [win EXCEPT !.idle = FALSE]
    /\ configures' = Append(configures, [size |-> win.sched, states |-> win.schedStates])
    /\ UNCHANGED <<pending, current, geo, buf, hint, host>>

\* xdg_surface.ack_configure of the k-th unacked configure; older ones are
\* dropped, and the acked states are in force before the client commits.
ClientAcks(k) ==
    /\ pending' = configures[k].states
    /\ hint' = configures[k].size
    /\ configures' = SubSeq(configures, k + 1, Len(configures))
    /\ UNCHANGED <<win, current, geo, buf, host>>

\* wl_surface.commit with content size c and shadow margin m.
ClientCommits(c, m) ==
    /\ geo' = IF SetsGeometry THEN c ELSE Unset
    /\ buf' = SizePlus(c, m)
    /\ current' = pending
    /\ win' = SurfaceCommit(win, geo', buf')
    /\ HostAnswers
    /\ UNCHANGED <<configures, pending, hostStates, stateNotify>>

\* The content and shadow the client shows now.
Content == IF SetsGeometry THEN geo ELSE buf
Shadow == IF SetsGeometry THEN SizeMinus(buf, geo, 0) ELSE Unset

\* The client draws the size it has acked.
ClientCatchesUp ==
    /\ Positive(hint)
    /\ hint' = Unset
    /\ \E m \in ClientMargins : ClientCommits(hint, m)

\* The client redraws what it shows: an animation frame, or a frame that was
\* on its way when a configure arrived.
ClientRedraws ==
    /\ ClientCommits(Content, Shadow)
    /\ UNCHANGED hint

\* The client picks a size of its own, not the one it was told.
ClientPicksSize(c, m) ==
    /\ <<c, m>> # <<Content, Shadow>> /\ c # hint
    /\ hint' = Unset
    /\ ClientCommits(c, m)

FitWindowExpires ==   \* WLX_FIT_OSCILLATION_MS after the last fit
    /\ win.fitRecent
    /\ PromptClient => ~win.idle /\ configures = <<>> /\ hint = Unset
    /\ win' = [win EXCEPT !.fitRecent = FALSE]
    /\ UNCHANGED <<client, host>>

FillWindowExpires ==  \* 500 ms after the last re-assertion
    /\ win.fillRecent
    /\ win' = [win EXCEPT !.fillRecent = FALSE]
    /\ UNCHANGED <<client, host>>

(***************************************************************************)
(* The specification.                                                      *)
(***************************************************************************)
\* After create_output_for_window: the output has the preferred size of the
\* first buffer, which the host may or may not have granted, and set_size(0, 0)
\* has scheduled a configure that lets the client choose.
Init ==
    \E c \in ClientSizes, m \in ClientMargins :
        /\ geo = IF SetsGeometry THEN c ELSE Unset
        /\ buf = SizePlus(c, m)
        /\ win = [mode |-> Scale(PreferredSize(geo, buf)), sizeFromWm |-> FALSE,
                  margin |-> IF SetsGeometry THEN m ELSE Unset, lastConf |-> Unset,
                  fitLast |-> Unset, fitPrev |-> Unset,
                  fitRecent |-> FALSE, fillRecent |-> FALSE,
                  sched |-> Unset, schedStates |-> {}, idle |-> TRUE]
        /\ configures = <<>> /\ pending = {} /\ current = {} /\ hint = Unset
        /\ real \in HostSizes \cup {win.mode}
        /\ hostStates = {} /\ stateNotify = FALSE

HostMoves ==
    \/ \E s \in HostSizes : HostResizes(s)
    \/ \E st \in SUBSET States : HostChangesStates(st)
    \/ \E s \in HostSizes \cup {win.mode} : ReparentNotify(s)

ClientMoves ==
    \/ \E c \in ClientSizes, m \in ClientMargins : ClientPicksSize(c, m)
    \/ \E f \in ClientStates, want \in BOOLEAN : ClientRequestsState(f, want)

Compositor ==
    OutputRequestState \/ NetWmStateNotify \/ SendConfigure
        \/ FitWindowExpires \/ FillWindowExpires

ClientFollows ==
    (\E k \in 1..Len(configures) : ClientAcks(k)) \/ ClientCatchesUp \/ ClientRedraws

Next == HostMoves \/ ClientMoves \/ Compositor \/ ClientFollows

Spec == Init /\ [][Next]_vars

\* What eventually happens: the event loop dispatches queued events and idle
\* callbacks, timers run out, and the client reads its configures and draws the
\* sizes it has acked.  The two conditions on commits are weak fairness with
\* ENABLED <<A>>_vars written out: a catch-up is possible when a size is owed,
\* a redraw changes nothing when the policy leaves the window as it is.
Fairness ==
    /\ WF_vars(OutputRequestState) /\ WF_vars(NetWmStateNotify) /\ WF_vars(SendConfigure)
    /\ WF_vars(FitWindowExpires) /\ WF_vars(FillWindowExpires)
    /\ WF_vars(\E k \in 1..Len(configures) : ClientAcks(k))
    /\ []<>(~Positive(hint)) \/ []<><<ClientCatchesUp>>_vars

RedrawIdle == current = pending /\ SurfaceCommit(win, geo, buf) = win

FairSpec == Spec /\ Fairness
\* A client that redraws again and again (an animation, a blinking cursor).
RedrawingSpec == FairSpec /\ ([]<>RedrawIdle \/ []<><<ClientRedraws>>_vars)

\* The host or the client starts something.  A ReparentNotify that finds what
\* output_request_state would find starts nothing.
Disturb == (HostMoves \/ ClientMoves) /\ ~OutputRequestState

(***************************************************************************)
(* Properties.                                                             *)
(***************************************************************************)
TypeOK ==
    /\ win \in Window
    /\ configures \in Seq(Configure)
    /\ pending \in SUBSET States /\ current \in SUBSET States
    /\ geo \in Size /\ buf \in Size /\ hint \in Size
    /\ real \in Size /\ hostStates \in SUBSET States /\ stateNotify \in BOOLEAN

\* While the host owns the size, the client has been told that size: whatever
\* order ConfigureNotify, PropertyNotify, acks and commits arrive in, no handler
\* leaves size_from_wm set with last_client_conf describing another size (the
\* letterbox that nothing would re-assert).
HostAuthorityTold ==
    ~PreferCsd /\ win.sizeFromWm => /\ Positive(win.lastConf)
                                   /\ Near(Unscale(win.mode), win.lastConf)

\* last_client_conf is the size of the newest configure the client has been or
\* will be sent, whatever sends it; surface_commit's test "the client asserts
\* a geometry we did not request" rests on that.
LastConfIsNewestTold ==
    LET newest == IF win.idle \/ configures = <<>> THEN win.sched
                                                   ELSE configures[Len(configures)].size
    IN Positive(newest) => newest = win.lastConf

\* While the client has acked a maximized or fullscreen state the output only
\* ever takes sizes the X11 window really has: nothing the client commits moves
\* the host (SIZE.md, "NEVER resize_output_to from preferred").
TiledModeIsHosts ==
    [][pending # {} /\ pending' # {} /\ win'.mode # win.mode => win'.mode = real']_vars

\* Left alone, the negotiation ends: nothing moves the output any more, and
\* output, X11 window and client content agree.
Settled == win.mode = real /\ Near(Content, SizeForOutput(win, current # {}))
Settles ==
    []<><<Disturb>>_vars \/ (<>[][win'.mode = win.mode]_vars /\ <>[]Settled)
=============================================================================
