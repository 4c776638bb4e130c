# A TLA+ development of wl-x11

wl-x11 is a rootless Wayland compositor: every `xdg_toplevel` of a Wayland client
becomes an X11 window of its own, managed by whatever window manager the X server
runs. It stands between two parties that both believe they decide (the Wayland
client and the host WM), on two X11 connections, and in one process with one event
loop. There are no threads; what makes it hard is that every message is about a
state that may have changed since.

This directory models the parts of the program where that matters, checks them
with TLC on small instances and proves the most important of the invariants with
TLAPS for all instances.

## 1. Inventory

`src/src` is the compositor, `src/subprojects/wlroots` a vendored and patched
wlroots.

| part | code | state | operations | what is hard |
|---|---|---|---|---|
| size policy | `xdg.c` (surface_commit), `output.c` (fill_host, set_size), `x11.c` (output_request_state, `_NET_WM_STATE`, ReparentNotify) | `size_from_wm`, `last_client_conf_*`, `csd_margin_*`, `fit_*`, `fill_host_last_msec`, output mode; wlroots' scheduled / pending / current | client commit, ack, state request; ConfigureNotify, PropertyNotify, ReparentNotify | three parties, stale commits, two timers, rounding |
| content scale | `output.c` | none | scale, unscale | does not round-trip |
| X11 backend output | `backend/x11/output.c` | `win_width/height`, `pending_*`, `last_configure_seq` | set a mode, handle ConfigureNotify | events without an origin, 16-bit sequence numbers |
| popups and the menu grab | `xdg.c`, `input.c`, `x11.c`, wlroots seat and xdg_popup | popup list, `popup_pointer_grabbed`, `..._pending`, seat focus and buttons, the X grab | map, commit, unmap, destroy, grab; motion, press, release on two connections; FocusIn | deferred grab, implicit grabs, events routed away in mid-click |
| clipboard and primary | `clipboard.c`, `x11.c` | the read in flight, `clip_out_text`, `clip_we_own_x11`, the seat's selection | copy, pipe read, SelectionClear / Request / Notify, XFixes | two directions crossing, one read for two selections, hangup |
| toplevel lifecycle, decoration, focus | `xdg.c`, `output.c`, `x11.c`, `input.c`, wlroots xdg_surface | `initialized`, `configured`, `initial_configure_sent`, `pending_decoration`, `focused_window`, `move_win`, `resize_win` | create, commit, map, unmap, destroy, request, FocusIn/Out, press, release | raw pointers, requests before initialization, unmap without destruction |
| interactive move, resize | `move_resize.c`, `input.c`, `x11.c` | offsets, start geometry | begin, drag, end, correct | request later than the release, release taken by a menu's grab, learned correction |
| drag and drop | `dnd.c` | outbound target, accepted flag, text | enter, position, status, drop, finished | foreign peer, nested event dispatch |
| subsurface present windows | `subpresent.c` | list of promoted subsurfaces | promote, demote, reposition | lifetime against parent and backend |
| client tracking, event loop | `main.c` | `active_clients`, descriptors | connect, disconnect, terminate | events stranded in xcb's queue |
| rendering, input devices, cursors | `output.c`, `input.c` | buffers, keymaps | draw, plug | no state the properties depend on |

How the parts talk to each other:

* The X11 backend turns ConfigureNotify into `request_state`; the size policy
  answers with a mode commit, which the backend turns into ConfigureWindow, and
  with `set_size`, which wlroots turns into a configure from its idle queue.
* The lifecycle creates and destroys the output and X window; the other parts find
  a window through `window_from_xwin` or through pointers in `struct wlx_server`.
* Popups, focus and interactive drags share the seat's pointer and button state.
* The clipboard shares only the connection with the rest.
* Drag and drop hears of pointer events through the backend's connection and of XDND
  messages through the compositor's own; the two are not ordered.
* Subsurface windows follow the commits of their surface and of its toplevel, and the
  host's moves of that toplevel.

Correctness, part by part: the client is told the size the host enforces and the
exchange ends; the backend never loses a resize; a menu's grab ends with the menu
and a click stays where it began; both sides paste what was copied last; exactly
one window is active, no pointer dangles and wlroots' preconditions hold; no foreign
window is left with a drag over it and a dropped drag ends; a menu of subsurfaces is
shown once, where the client put it; a dragged window ends under the pointer.

## 2. Modules

| module | what it is |
|---|---|
| `ContentSize` | sizes, scaling, hysteresis; operators only |
| `SizeNegotiation` | one mapped toplevel, its client and its host |
| `SizeClaims` | sentences of SIZE.md and of comments, as properties of SizeNegotiation |
| `X11Output` | the backend's ConfigureNotify filter against a FIFO X server and a WM |
| `PopupGrab` | popups of one client, the X pointer grab, seat pointer state, two event queues |
| `ClipboardBridge` | both selections in both directions |
| `ToplevelLifecycle` | any number of toplevels: handshake, mapping, decoration, activation, drags |
| `WindowStages` | what client and host see of the toplevels: the abstract specification |
| `ToplevelRefinement` | the refinement mapping from ToplevelLifecycle to WindowStages |
| `InteractiveDrag` | moving and resizing one window against a WM that displaces and lags |
| `DragAndDrop` | outbound and inbound XDND with foreign targets and sources |
| `Subpresent` | subsurfaces that reach out of their toplevel and their X windows |
| `MC...` | small values for the constants of each |
| `...Proofs` | inductive invariants and theorems (section 5) |

Correspondence with the code. Each handler of the compositor runs to its end before
the next event, so a handler is one action. Inside it, the helpers it calls are
operators on a record (`win`, `seat`, `server`) with the C function's name in
CamelCase, composed in the order of the calls; `PROJECT.json` maps each of them to
its lines. What other parties do (X server, WM, client, user) are actions of
their own, and so is everything the code defers: idle configures, the release that
takes the deferred grab, the XFixes event after a claim. Synchronous X requests
(`xcb_grab_pointer_reply`, `xcb_get_property_reply`) read the server's state of the
moment inside the handler, and so do the models.

*SizeNegotiation.* `win` is `struct wlx_window` plus the `scheduled` half of
`wlr_xdg_toplevel`; `pending`, `current`, `geo`, `buf` are wlroots' and the
surface's committed state; `real` and `hostStates` are the X window's size and
`_NET_WM_STATE`. `HandleNetWmState` is called from PropertyNotify and from
`output_request_state`. A commit that moves the output may be granted by the host
at once or refused (`HostAnswers`). The two time windows (400 ms fit, 500 ms
fill_host) are Booleans that a step of their own clears. The property can always
be read in the model (`got` in win_handle_net_wm_state_notify).

*X11Output.* Here the opposite is abstracted: the policy is "accept whatever the
host says and now and then fit the window", the X server and the WM are spelled out
request by request. The sequence number is kept modulo `SeqMod` (2^16 in the code).

*PopupGrab.* Windows are places, not rectangles. `ok` says whether the X server
finds a menu window viewable when it is asked for the grab: it was mapped through
the other connection, so it may not be. A click may begin on one connection and
end on the other.

*ClipboardBridge.* A text takes `Chunks` writes; `ClosesLate` distinguishes clients
that close the pipe after it is drained from those that write and close.

*ToplevelLifecycle.* `assert(surface->initialized)` of wlroots is the history field
`asserted`. The size policy's own configures are the parameter `policy` of a commit:
it may or may not schedule one. `UnderPointer` over-approximates which toplevel a
menu under the pointer belongs to.

*WindowStages* and *ToplevelRefinement.* A toplevel is absent, waiting for a configure,
ready to map, or shown. A state of ToplevelLifecycle maps to its stage by `live`,
`configured` and `output`; the active window is the one whose *client was told* so, not
the one `focused_window` names. That the two are the same is part of what is shown.

*InteractiveDrag.* One dimension and one window. `wm` and `notifies` are the requests
the window manager has not answered and the answers wl-x11 has not read; an answer does
not say what it answers, and `HandleNotify` learns from it what `x11.c:835-860` learns.
The WM displaces every frame by `Inset` and obeys. Time is not modelled: once the drag
has sent a request (`fresh` is false), any motion may be throttled. `input` is the
backend's connection, whose releases `server_cursor_button` gets; `core` is the
compositor's own, to which the server sends pointer events while a menu holds the
pointer grab. `handle_core_pointer_during_grab` (`x11.c:609`) counts its buttons but ends
no drag, and once the flag is clear what is still queued is dropped (`x11.c:659`). One
menu at a time may come and go; how a grab is deferred, fails or is lost is the subject
of PopupGrab. `stage`, `sentAt` and `stray` are history.

*DragAndDrop.* The handlers are functions on the record `dnd`, which also holds the
messages they send and who owns XdndSelection at the server. `drag` is wlroots'
`seat->drag`. Reading the source's text dispatches the event loop from within
`start_drag`: events are handled in between, a further `start_drag` included, whose read
returns first (`pumping` holds the drags whose text is being read). A source that is idle
may give XdndSelection up; one that dies in the middle of a drag is not modelled. `taken`
is history. `Paths` says by which handler
a release arrives: only the XInput2 one calls `dnd_out_on_button_release` (the core
one, `x11.c:609`, also does not end a move or resize). `LayoutHits` lets
`surface_at_cursor` find a surface under the *clamped* layout cursor while the pointer
is over a foreign window.

*Subpresent.* One dimension at scale 1. `node` is the buffer node of the scene that
paints the subsurface inside its toplevel, `present` the `struct wlx_subpresent`. Both
listen to the same commit, and which one hears it first (`late`) depends on when the
scene last rebuilt its tree. A synchronized subsurface is a commit of the child followed
by one of the toplevel. The X window of an unmapped surface stays until the toplevel
commits, in the model as in the code.

## 3. Runs

`PROJECT.json` lists the runs; these are the questions they answer.

| run | bound | shows |
|---|---|---|
| `size_host` | scale 1, two client and two host sizes, maximized, two configures in flight, slow client, host may refuse | authority, bookkeeping and tiled mode hold under every interleaving (1.2 M states) |
| `size_settles` | scale 3/2, `--csd`, a 44 px shadow against an odd host size, prompt client | margins are clamped and the exchange ends although sizes do not round-trip |
| `x11_managed` | three sizes, sequence numbers modulo 8, three messages in flight, a WM up to two requests behind | no resize lost; no echo unless the WM keeps having two of our sizes to answer |
| `popup_menus` | two popups (symmetric), one button, event queue of one | grab, click and dismissal |
| `clip_copies` | three copies of two texts in two chunks; either both sides copy to one selection, or each side owns one of the two | ownership converges, no echo, both sides paste the last copy (66 000 states) |
| `life_start` | two toplevels with decorations, clients that do not unmap | preconditions of wlroots, initial configure |
| `life_focus` | two toplevels (symmetric), unmapping, two focus events | one active window, no dangling pointer, host focus wins; the handlers implement WindowStages |
| `drag_moves` | three motions between places 0 and 3, two clicks, two drags of any kind, two events in flight, a menu's grab, Inset 1, widths 4 down to 2 | corrections, landing, drags that outlive the button (7.1 M states) |
| `dnd_drags` | one Wayland drag, one foreign target, one foreign source, any release path, nested dispatch | sessions closed, selection held, drops finished and answered |
| `sub_windows` | two toplevels, two positions and widths, windows that may fail to be created | no orphan, lost, doubled or misplaced window |
| `life_claim_assert` | one toplevel that unmaps | violated: a configure for an uninitialized surface |
| `clip_claim_hangup` | a client that writes and closes | violated: the copy is not published |

Why the bounds suffice. Sizes enter the policy only through comparisons with the
1 px hysteresis, with the minimum and with each other; two client sizes and two host
sizes more than 1 px apart, and for rounding two odd sizes, let every comparison go
both ways. Two configures in flight let a commit lag by one and an ack skip one.
Modulo 8, with requests at most two older than the last ConfigureWindow, the counter
wraps many times and keeps the distance below half the modulus as the code assumes.
With `MaxAge = 8` (`x11_claim_wrap`) it does not, see below. Two popups give parent
and child; two toplevels the old and the new focus. Queues of one or two events give
the interleavings: each property relates at most one event in flight to one change.

For drags, the places are further apart than the displacement, a width of 4 can be dragged
past the least one, two drags let an answer to the first be taken for one of the second,
three motions put two requests in flight and one after them, and with two clicks a press
or release of the second can be taken by the menu's grab or lost with it. The run's `VIEW`
identifies states that differ in what only a drag reads while no drag is on (`Begin`
writes it anew). TLAPS proves the run's four invariants for all values of these bounds. For drag and drop, one
target and "our own windows" and "nothing" make three places to be entered and left;
a second target and a second source are needed only for claims of `dnd_claims`. For subsurfaces, a position
that fits and one that overflows at the left edge, and two toplevels to move between.

Deadlock is checked everywhere but in `dnd_drags` and `drag_moves`: there the numbers of
drags, and of clicks and motions, are bounded, and once they are used up the system may
stop.

### Configurations kept for use by hand

These answer narrower questions, or show the limits of the listed runs. Run them
with `tlc -config <name>.cfg <MC module>`; where several properties are violated, one at
a time.

| configuration | outcome | meaning |
|---|---|---|
| `size_maximize` | holds | the exchange also ends with an EWMH state on both sides |
| `size_rounding` | holds | `size_settles` without `--csd` |
| `size_claims` (three properties) | violated | "Do *not* let client preferred size override that" (`xdg.c:154-155`): a redraw of old content does, once it counts as a shrink assert; "EWMH still has the window maximized" (SIZE.md:71-73): a commit before the ack still shrinks the host; "after unmaximize the WM restores e.g. 500x350 (size_from_wm=1)" (`xdg.c:184-185`): the flag may be clear after the restored size is committed |
| `x11_override` | holds | an override-redirect window: no WM in between |
| `x11_claim_chase` | violated | "Events older than our last ConfigureWindow are stale … and must not undo a compositor-initiated resize" (`output.c:763-764`): a WM one request behind answers the older of two after the server has passed the newer; that answer is not stale and is set again, and two sizes can chase each other for ever |
| `x11_claim_wrap` | violated | half a cycle (32768 requests) after the last ConfigureWindow a fresh event looks stale and the resize is lost (`output.c:766-767`; `has_configure_seq` is never cleared) |
| `popup_buttons` | holds | two buttons, grabs that fail |
| `popup_claim_held` | violated | a release dropped with the flag leaves a button counted (`input.c:323-326` relies on the count) |
| `popup_claim_grab` | violated | the X server drops the grab with the window of the first menu; the flag stays (`server.h:133-134`) |
| `popup_claim_enter` | violated | FocusIn enters the toplevel in mid-click (TODO.md:246-248, `x11.c:666-700`) |
| `clip_claim_import` | violated | an offer may be older than the X selection (`clipboard.c:419-466`) |
| `clip_claim_shared` | violated | a copy to PRIMARY cancels the read for CLIPBOARD (`clipboard.c:166`) |
| `life_claim_remap` | violated | the initial commit after an unmap is not answered (`xdg.c:109`; compare `xdg.c:38`, "e.g. re-map") |
| `life_claim_focus` | violated | the FocusOut kept for a menu or pointer leaves a window active that the host has left (`x11.c:668-669`) |
| `drag_claims` (five properties) | violated | a correction converges after one answer (`server.h:195`); the window reaches the pointer (`input.c:213`: a throttled motion is not repeated); the edge that is not dragged stays in place (`input.c:268`: the width is clamped after the position is computed); a drag has its button down (`move_resize.c:25`: a request handled after the release); "ending self-driven interactive move" (`input.c:492`) at the release: not if a menu's grab takes it to the core handler, or it is dropped with the flag (`x11.c:636`, `659`) |
| `dnd_drags` with `MaxDrags = 2` | holds | a drag begun over an older one, and one begun while the text of another is read (550 000 states, three minutes) |
| `dnd_claims` (five properties) | violated | "Keep selection data until XdndFinished" (`dnd.c:238`): a click elsewhere, or another application's drag, before the target has asked for the text, takes it away; an XdndFinished is for the source that dropped: with two sources at once the second one's XdndEnter overwrites `dnd_in_source` (`dnd.c:307`) and takes the first one's; "otherwise tear the outbound drag down now" (`dnd.c:519`): an accepted drag that is cancelled stays; "bit0 = accept" (`dnd.c:295`): the late answer of a target just left counts as the new one's; "seat already handles that" (`dnd.c:197`): with the button down and no focus, motion never reaches the drag |
| `sub_claim_once` | violated | a promoted subsurface is not painted in the scene too (`subpresent.c:276`): it is while another toplevel adopts it |

## 4. Fairness

Weak fairness only, and only for what the program or a live peer must eventually do:
the event loop dispatches queued X events and runs wlroots' idle callbacks
(`SendConfigure`, `OutputRequestState`, `Dispatch`, `ReadFd`, ...), timers run out,
the X server processes its queue, the WM answers ConfigureRequests, a client acks
its configures, draws the sizes it has acked and writes the text it was asked for.
No user, and no party that starts something, is fair. Each `Settles` or `ComesToRest`
property therefore has the form "somebody keeps disturbing, or it ends".
X11Output's also excuses a WM that keeps having two of our sizes to answer at once
(`Chase`): with such a WM the exchange need not end (`x11_claim_chase`).
`InitialCommitAnswered` needs only SendConfigure and AckConfigure.

Two assumptions on peers are constants so that they can be turned off.
`PromptClient`: a client draws a configure within the 400 ms of the oscillation
guard; without it a slow client and the policy exchange their sizes for ever.
`HostMayRefuse = FALSE` in the liveness runs: a WM that refuses the size and then
restores its own defeats the guard, as `xdg.c:154-158` and TODO.md:19-32 fear (with it
TRUE, `size_maximize` and `size_rounding` are violated). `RedrawingSpec` adds a client
that keeps redrawing, without which an inconsistent state could rest for want of a
commit. The guard itself only knows the last two sizes: a client that cycles through
three is not detected, and the runs do not claim it is.

In DragAndDrop the event loop handles pointer events and messages and leaves the nested
dispatch, and foreign targets and sources read their messages. A target may refuse, a
source may cancel or answer with nothing, but neither is silent for ever: against a
target that never sends XdndFinished the code has no timeout, and `DroppedEnds` would
not hold. Subpresent and InteractiveDrag state safety only.

## 5. Proofs

    for m in SizeNegotiation ToplevelLifecycle InteractiveDrag X11Output PopupGrab \
             ClipboardBridge Subpresent DragAndDrop; do tlapm ${m}Proofs.tla; done

checks every theorem, for all values of the constants that satisfy the named assumptions
of the modules: any scale, sizes, places and margins, any set of toplevels, popups,
selections, subsurfaces and foreign windows, any number of messages in flight. Only
X11Output's agreement needs a condition on the behaviour besides.

*SizeNegotiation.* `HostAuthorityTold` is not inductive: to keep `size_from_wm` and the
told size together one must know that `last_client_conf` describes the newest
configure, and that `last_client_conf` follows the output whenever `size_from_wm` is
set. `IInv` is `TypeOK`, `sizeFromWm => Told(win)`, `LastIsScheduled(win)` and
`NewestIsScheduled` (the last configure in flight carries the scheduled size unless a
new one waits). Lemmas follow the helpers: what `SetSize` and `FillHost` leave, what
`CommitMode` adds, what the mirror may clear, what a commit keeps. Theorems: `Inductive`,
`TypeCorrect`, `HostAuthority`, `LastConfTold` and the action property `TiledMode`.
Three more are about the arithmetic. `ObeyingHost`: while the host decides, a client that
draws what it was told last changes nothing, whatever the rounding. `ObeyingOutput`: up to
scale 3 so does one that draws the output's size in logical pixels, whoever decided it,
because two roundings stay within the 1 px of `Near` (`UnscaledBack`). It fails above: at
scale 4 a ReparentNotify of 130 px tells the client 33, and its commit of 33 moves the host
to 132. `FitsExactly`: from scale 1 upwards unscaling undoes scaling. The first two are
about `--ssd`, where no shadow is subtracted, and clients that set a geometry.

*ToplevelLifecycle.* `LInv` is `Safe(server) /\ HostOK`. `Safe` says that mapped windows
are initialized, that without unmapping `initial_configure_sent` implies
`initialized`, that a deferred decoration exists and that activation and pointers
agree with the mapped windows; `HostOK` that the host's focus, the pointer and every
queued event name a mapped window, without which a stale FocusIn could activate a
window that is gone. `SafeBut(s, x)` is the same with one window excepted: between its
mapping and its activation inside `Map` the new window breaks `OneActive`. Theorems:
`Inductive`, `TypeCorrect`, `OneActiveWindow`, `NoDanglingWindow`, and `LegalConfigures`
under the assumption `~Unmaps`, which the run `life_claim_assert` shows to be needed.
`HostFocus` adds `FocusComing`: once the host gave a window the focus, the newest queued
focus event is that window's FocusIn until it is dispatched.

*ToplevelRefinement.* `Refinement`, in ToplevelLifecycleProofs, shows that ToplevelLifecycle implements WindowStages:
`RInv` adds to `LInv` that a toplevel that does not exist has nothing scheduled, on its
states `ActiveIsFocusedWindow` identifies the told window with the focused one, and each
handler is then one step of WindowStages or a stutter.

*InteractiveDrag.* Answers are mistaken for others', so "the correction is right" is not
inductive. `DInv` says that a wrong correction does not last: a notify is on its way, or
a request whose answer will be one, that corrects it. With nothing in flight follow
`Correct` and `Lands` (for a move and for both edges). `EndsWithRelease` follows from
`StillComing`: a drag begun with the button down, or its release queued, has that release
still to come, until it is handled by `server_cursor_button` or goes elsewhere; the latter
is what `stray` records.

*X11Output.* `XInv`: the newest ConfigureWindow still among the requests asks for the
backend's size, and `Since` requests were issued after it. While `Since` is below half
the sequence numbers (`Recent`), what is notified while no ConfigureWindow is under way
does not look stale, and `QuietAgreement` follows. The theorem is conditional,
`Spec /\ []Recent => []QuietAgreement`, because the code does nothing to ensure
`Recent`: 32768 requests for frames, cursors and properties without a ConfigureWindow
falsify it, and `x11_claim_wrap` shows a resize lost then. Types hold unconditionally.

*PopupGrab.* `PInv`: windows shown are mapped, mapped popups are in the stack, an active
grab has the flag and a shown window, and flag or deferred grab imply that a menu is up.
Inside a handler a window may be gone and the flag not yet; `Half` is the part that
holds there. `ClicksStay` and `OutsideDismisses` are the two action properties; closing
a stack of popups is by well-founded induction on fixed predicates.

*ClipboardBridge.* `CInv`: of the queued events about a selection's owner the newest is an
XFixes notify, never a SelectionClear, and names the present owner; hence `Ownership`.
`LastCopyPasted` needs to know where the last copy is while it travels: `BInv` says that
it has arrived, or is in the read, or an event or an answer that brings it is queued and
nothing older comes after it (`Imports`, `Exports`). It holds under `OneSource`: clients
close the pipe after it is drained, and at most one selection is copied to from the
Wayland side. `clip_claim_hangup` and `clip_claim_shared` show that both are needed.

*Subpresent.* `NeverLost` and `BoxesFollow` speak of mapped surfaces. They become inductive
with facts about unmapped ones: a hidden node has its X window (`HiddenHasWindow`), the
stored offset is the committed position (`OffsetsCurrent`), a subsurface that was added
has a parent. `CommitPromotes` is an action property.

*DragAndDrop.* `DInv` is `Sane(dnd)` with what holds between handlers of the input, the
seat's drag and the sources. `Sane` has the two safety properties (theorems `TargetsLeft`
and `SelectionKept`) and `DropsPending`; each lemma on a handler says that it keeps
`Sane`. `TypeOK` itself needs `InputTells`: what is queued brings the buttons the seat
counts to those the user holds. Three theorems are the safety halves of statements that
need fairness or a quiet environment. `DropAnswerComing`, of `DroppedEnds`: while a drop
of ours is open, the target still holds its XdndDrop or an XdndFinished is on its way.
`FinishedTold`: an XdndFinished is for the source that dropped; `OneAnswer` (the messages
of an inbound drop exist one at a time) makes it inductive under `OneSource`, and
`dnd_claims` shows that two sources break it. `DropperAnswered`, of `InboundAnswered`: a
source that has dropped has its XdndDrop, the conversion, the text or the XdndFinished
under way; it assumes that no conversion is refused, because a refused one is never
answered. `Attends` is its invariant: what the source has sent is still followed by what
wl-x11 needs to answer it, and the session it was sent in is the one that is open.

Only model-checked: the liveness properties (`Settles`, `ComesToRest`, `DroppedEnds`,
`InboundAnswered`, `InitialCommitAnswered`), which rest on fairness and are outside what
the prover handles.

## 6. Not modelled

* Launching a command and exit: `active_clients` is a counter with two callers and no
  schedule of its own (an allocation failure in `main.c:80` leaves it high). Event loop:
  the two connections are queues of their own in PopupGrab and DragAndDrop, and `pumping`
  is the nested dispatch; that a synchronous reply strands events in xcb's queue until
  the descriptor is readable again is a matter of libxcb and is not modelled.
* Rendering, buffers, frame callbacks, cursors, keyboards, input devices, output layout,
  min/max size hints, titles, icons, and the rest of wlroots (other backends, renderers,
  protocols that wl-x11 does not use): no property depends on them.
* Size policy: the correction after an interactive move (`x11.c:835`, in InteractiveDrag
  instead), the parts of a commit that are about popups.
* Popups: reposition, `wlx_dismiss_all_popups` (never called), failure to create a
  present window, unmapping the toplevel below.
* Clipboard: texts above 1 MiB, INCR, the choice of a mime type, clients that die or
  clear a selection.
* Lifecycle: failure to create an output; objects destroyed in an order the protocol
  forbids.
* Drag and drop: the descent to an XdndAware child (`dnd.c:81`), protocol versions, mime
  types, copying the imported text into the seat's selection.
* Interactive drags: a second dimension, a WM that refuses, failed X queries.
* Subpresent: subsurfaces of subsurfaces and of popups, scaled buffers, pointer hits, the
  destruction of X windows by the backend at exit.
* Allocation failures.

Observations that the models make visible and no property states: beginning an outbound
drag over a window forgets the old target without an XdndLeave (`dnd.c:483`, `forgotten`
in the model); a refused conversion is never answered with XdndFinished (`dnd.c:347`);
the offset of a drag begun while requests of the last one are in flight is measured from
a place the window is about to leave.

## 7. What is left

1. Clients that clear a selection or die while a read or an import is under way.
2. Subsurfaces of popups, composed with PopupGrab.
3. SizeNegotiation over X11Output in place of the host that answers at once: QuietAgreement
   is what the composition would need of the backend.
4. An abstract specification "the host decides, the client follows" implemented by
   SizeNegotiation.
5. An event loop module: queued events against synchronous replies.
