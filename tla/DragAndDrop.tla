---------------------------- MODULE DragAndDrop ----------------------------
(***************************************************************************)
(* The two directions of drag and drop in dnd.c.  Outbound: a Wayland drag *)
(* (wlr_drag) whose text is read ahead of time and offered to the foreign  *)
(* X11 window under the pointer by the XDND messages Enter, Position,      *)
(* Leave and Drop; the window answers with Status and Finished.  Inbound:  *)
(* a foreign source drops on one of our windows and the text is imported.  *)
(*                                                                         *)
(* Pointer events come through the backend's X connection, XDND messages   *)
(* through the compositor's own, so the two are not ordered.  The handlers *)
(* are functions on the record `dnd', which also holds the messages        *)
(* they send.                                                              *)
(***************************************************************************)
EXTENDS Naturals, Sequences

CONSTANTS Targets,   \* foreign windows with XdndAware
          Sources,   \* foreign windows that start a drag
          None,      \* no window
          Own,       \* the compositor's windows
          Buttons,   \* buttons of the pointer
          Paths,     \* subset of {"xi2", "core"}: by which handler a release comes
          LayoutHits, \* subset of BOOLEAN: does surface_at_cursor find one off our windows
          Cancels,   \* clients may destroy the source of a drag that goes on
          Pumps,     \* events may be dispatched while the text is read
          Answers,   \* how a source may answer: subset of {"text", "empty", "refused"}
          MaxDrags,  \* bound: Wayland drags in a behaviour
          MaxInput,  \* bound: pointer events in flight
          MaxMail    \* bound: messages in flight when the user goes on

ASSUME DragAssumption ==
    /\ None \notin Targets \cup Sources /\ Own \notin Targets \cup Sources /\ None # Own
    /\ Paths \subseteq {"xi2", "core"} /\ LayoutHits \subseteq BOOLEAN
    /\ Cancels \in BOOLEAN /\ Pumps \in BOOLEAN
    /\ Answers \subseteq {"text", "empty", "refused"}
    /\ MaxDrags \in Nat /\ MaxInput \in Nat /\ MaxMail \in Nat

VARIABLES dnd,      \* dnd_out_*, dnd_in_*, the X server's selection and the messages
          drag,     \* seat->drag, with the number of the drag
          seat,     \* buttons the seat believes pressed
          pointer,  \* the window under the pointer
          held,     \* buttons the user holds
          input,    \* pointer events not yet dispatched
          source    \* what each foreign source does

user == <<pointer, held>>
vars == <<dnd, drag, seat, pointer, held, input, source>>

Peers == Targets \cup Sources
Texts == 0..MaxDrags

\* XdndEnter and XdndLeave ask for no answer: they are kept in `open' only.
ToPeer == {"Position", "Drop", "Text", "Refused", "Status", "Convert", "Finished"}
ToUs == [type : {"Status", "Finished", "Request", "Enter", "Position", "Leave", "Drop", "Notify"},
         from : Peers \cup {None, Own}, answer : {"", "yes", "no", "text", "empty", "refused"}]

Dnd == [text : Texts,                   \* dnd_out_active and dnd_out_text; 0: inactive
        target : Targets \cup {None},   \* dnd_out_target
        accepted : BOOLEAN,             \* dnd_out_accepted
        receives : BOOLEAN,             \* dnd_in_active
        from : Sources \cup {None},     \* dnd_in_source
        owner : Sources \cup {None, Own},  \* owner of XdndSelection at the X server
        taken : BOOLEAN,                \* history: claimed by another in this drag
        mail : [Peers -> Seq(ToPeer)],  \* messages not yet read by a foreign window
        inbox : Seq(ToUs),              \* events not yet read by the compositor
        open : SUBSET Targets,          \* sent XdndEnter, not yet XdndLeave or XdndDrop
        forgotten : SUBSET Targets,     \* history: targets a new drag was begun over
        drop : [Targets -> Texts],      \* history: the drag whose Drop it has not finished
        lost : BOOLEAN]                 \* history: a target did not get what was dropped on it

Wire(type, from, answer) == [type |-> type, from |-> from, answer |-> answer]
Post(s, message) == [s EXCEPT !.inbox = Append(@, message)]
Send(s, w, message) == [s EXCEPT !.mail[w] = Append(@, message)]

(***************************************************************************)
(* The outbound drag.                                                      *)
(***************************************************************************)
\* dnd_out_leave
OutLeaveSilently(s) == [s EXCEPT !.target = None, !.accepted = FALSE]
OutLeave(s) ==
    IF s.target = None THEN s
    ELSE [s EXCEPT !.target = None, !.accepted = FALSE, !.open = @ \ {s.target}]

\* dnd_out_finish
OutFinishKeepsSelection(s) == [OutLeave(s) EXCEPT !.text = 0]
OutFinish(s) ==
    [OutLeave(s) EXCEPT !.text = 0, !.owner = IF @ = Own THEN None ELSE @, !.taken = FALSE]

\* dnd_out_update_position: hit tells whether surface_at_cursor finds a surface.
OutUpdatePosition(s, hit) ==
    IF s.text = 0 THEN s
    ELSE IF hit \/ pointer \notin Targets THEN OutLeave(s)
    ELSE LET entered ==
                 IF pointer = s.target THEN s
                 ELSE [OutLeave(s) EXCEPT !.target = pointer, !.accepted = FALSE,
                                          !.open = @ \cup {pointer}]
         IN Send(entered, pointer, "Position")

\* dnd_out_on_button_release
OutRelease(s) ==
    IF s.text = 0 THEN s
    ELSE IF s.target # None /\ s.accepted
    THEN [Send(s, s.target, "Drop") EXCEPT !.open = @ \ {s.target}, !.drop[s.target] = s.text]
    ELSE OutFinish(s)

\* drag_destroy
DragDestroyed(s) == IF s.text # 0 /\ s.target # None /\ s.accepted THEN s ELSE OutFinish(s)

\* dnd_out_begin_from_source once it has read the text of drag number n
OutBegin(s, n, hit) ==
    OutUpdatePosition([s EXCEPT !.text = n, !.target = None, !.accepted = FALSE,
                                !.owner = Own, !.taken = FALSE, !.forgotten = @ \cup s.open], hit)

\* surface_at_cursor looks up the layout's cursor, which is clamped to the
\* outputs: what it finds while the pointer is elsewhere depends on their layout.
Hits == IF pointer = Own THEN {TRUE} ELSE LayoutHits

(***************************************************************************)
(* wlroots' drag and the pointer events.                                   *)
(***************************************************************************)
\* data_device_start_drag, wlr_seat_start_pointer_drag and server_start_drag; the
\* client's serial is that of the one button pressed.
StartDrag(b) ==
    /\ seat = {b} /\ ~drag.live /\ drag.number < MaxDrags
    /\ LET n == drag.number + 1
           begun(pumping) == [live |-> TRUE, number |-> n, button |-> b, focus |-> FALSE,
                              pumping |-> pumping]
       IN \/ /\ Pumps
             /\ drag' = begun(drag.pumping \cup {n})
             /\ UNCHANGED dnd
          \/ /\ drag' = begun(drag.pumping)
             /\ \/ UNCHANGED dnd  \* no text in it
                \/ \E hit \in Hits : dnd' = OutBegin(dnd, n, hit)
    /\ UNCHANGED <<seat, user, input, source>>

\* dnd_out_begin_from_source goes on after wl_event_loop_dispatch; one that was
\* called by that returns first.
PumpEnds ==
    /\ \E n \in drag.pumping :
          /\ \A m \in drag.pumping : m <= n
          /\ drag' = [drag EXCEPT !.pumping = @ \ {n}]
          /\ \E hit \in Hits : dnd' \in {dnd, OutBegin(dnd, n, hit)}
    /\ UNCHANGED <<seat, user, input, source>>

\* The client destroys the data source, or dies.
CancelDrag ==
    /\ Cancels /\ drag.live
    /\ drag' = [drag EXCEPT !.live = FALSE, !.focus = FALSE]
    /\ dnd' = DragDestroyed(dnd)
    /\ UNCHANGED <<seat, user, input, source>>

\* process_cursor_motion.  During a drag the seat has no pointer focus, and
\* while a button is pressed the early return leaves it so.
HandleMotion ==
    /\ input # <<>> /\ Head(input).type = "motion"
    /\ input' = Tail(input)
    /\ \E hit \in Hits : dnd' = OutUpdatePosition(dnd, hit)
    /\ drag' = IF drag.live /\ seat = {}
               THEN [drag EXCEPT !.focus = (pointer = Own)] ELSE drag
    /\ UNCHANGED <<seat, user, source>>

\* server_cursor_button, a press: pointer_enter_surface_under_cursor first
HandlePressUnseen ==
    /\ input # <<>> /\ Head(input).type = "press"
    /\ input' = Tail(input)
    /\ UNCHANGED <<dnd, drag, seat, user, source>>
HandlePress ==
    /\ input # <<>> /\ Head(input).type = "press"
    /\ input' = Tail(input)
    /\ seat' = seat \cup {Head(input).button}
    /\ drag' = IF drag.live /\ pointer = Own THEN [drag EXCEPT !.focus = TRUE] ELSE drag
    /\ UNCHANGED <<dnd, user, source>>

\* drag_handle_pointer_button: does the drag end?  The surface under it may take
\* the drop, which leaves the drag to the last button.
DragEnds(b, takes) ==
    /\ drag.live
    /\ seat \ {b} = {} \/ (b = drag.button /\ ~takes)

\* server_cursor_button, a release, or the same in handle_core_pointer_during_grab,
\* which does not call dnd_out_on_button_release
HandleRelease ==
    /\ input # <<>> /\ Head(input).type = "release"
    /\ input' = Tail(input)
    /\ seat' = seat \ {Head(input).button}
    /\ \E path \in Paths, takes \in {FALSE, drag.focus} :
          LET ends == DragEnds(Head(input).button, takes)
              ended == IF ends THEN DragDestroyed(dnd) ELSE dnd
          IN /\ drag' = IF ends THEN [drag EXCEPT !.live = FALSE, !.focus = FALSE]
                        ELSE IF drag.live /\ pointer = Own
                        THEN [drag EXCEPT !.focus = TRUE] ELSE drag
             /\ dnd' = IF path = "xi2" THEN OutRelease(ended) ELSE ended
    /\ UNCHANGED <<user, source>>

(***************************************************************************)
(* Events of the compositor's own connection.                              *)
(***************************************************************************)
Received(type) == dnd.inbox # <<>> /\ Head(dnd.inbox).type = type
Rest == [dnd EXCEPT !.inbox = Tail(@)]
From == Head(dnd.inbox).from

\* dnd_handle_client_message, the answers to an outbound drag
HandleStatus ==
    /\ Received("Status")
    /\ dnd' = IF dnd.text = 0 THEN Rest
              ELSE [Rest EXCEPT !.accepted = (Head(dnd.inbox).answer = "yes")]
    /\ UNCHANGED <<drag, seat, user, input, source>>

HandleFinishedIgnored ==
    /\ Received("Finished")
    /\ dnd' = Rest
    /\ UNCHANGED <<drag, seat, user, input, source>>
HandleFinished ==
    /\ Received("Finished")
    /\ dnd' = IF dnd.text = 0 THEN Rest ELSE OutFinish(Rest)
    /\ UNCHANGED <<drag, seat, user, input, source>>

\* dnd_handle_selection_request; without a drag clipboard.c refuses.
HandleRequest ==
    /\ Received("Request")
    /\ dnd' = IF From = Own
              THEN Post(Rest, Wire("Notify", Own, IF dnd.text = 0 THEN "refused" ELSE "text"))
              ELSE [Send(Rest, From, IF dnd.text = 0 THEN "Refused" ELSE "Text")
                       EXCEPT !.lost = @ \/ dnd.text # dnd.drop[From]]
    /\ UNCHANGED <<drag, seat, user, input, source>>

\* XConvertSelection: the X server asks the owner of XdndSelection.
Convert(s) ==
    CASE s.owner = None -> Post(s, Wire("Notify", None, "refused"))
      [] s.owner = Own  -> Post(s, Wire("Request", Own, ""))
      [] OTHER          -> Send(s, s.owner, "Convert")

\* dnd_handle_client_message, the messages of an inbound drag
HandleEnter ==
    /\ Received("Enter")
    /\ dnd' = [Rest EXCEPT !.receives = TRUE, !.from = From]
    /\ UNCHANGED <<drag, seat, user, input, source>>

HandlePositionFetches ==
    /\ Received("Position")
    /\ dnd' = IF dnd.receives THEN Convert(Send(Rest, dnd.from, "Status")) ELSE Rest
    /\ UNCHANGED <<drag, seat, user, input, source>>
HandlePosition ==
    /\ Received("Position")
    /\ dnd' = IF dnd.receives THEN Send(Rest, dnd.from, "Status") ELSE Rest
    /\ UNCHANGED <<drag, seat, user, input, source>>

HandleLeave ==
    /\ Received("Leave")
    /\ dnd' = [Rest EXCEPT !.receives = FALSE, !.from = None]
    /\ UNCHANGED <<drag, seat, user, input, source>>

HandleDrop ==
    /\ Received("Drop")
    /\ dnd' = IF dnd.receives THEN Convert(Rest) ELSE Rest
    /\ UNCHANGED <<drag, seat, user, input, source>>

\* dnd_handle_selection_notify; a property that is there but empty fails the drop.
Finish(s) == IF s.from # None THEN Send(s, s.from, "Finished") ELSE s
HandleNotifyKeepsSource ==
    /\ Received("Notify")
    /\ dnd' = IF Head(dnd.inbox).answer = "refused" THEN Rest
              ELSE [Rest EXCEPT !.receives = FALSE, !.from = None]
    /\ UNCHANGED <<drag, seat, user, input, source>>
HandleNotify ==
    /\ Received("Notify")
    /\ dnd' = CASE Head(dnd.inbox).answer = "refused" -> Rest
                [] Head(dnd.inbox).answer = "empty" -> [Finish(Rest) EXCEPT !.receives = FALSE]
                [] OTHER -> [Finish(Rest) EXCEPT !.receives = FALSE, !.from = None]
    /\ UNCHANGED <<drag, seat, user, input, source>>

(***************************************************************************)
(* The user.                                                               *)
(***************************************************************************)
MailRoom == \A w \in Peers : Len(dnd.inbox) + Len(dnd.mail[w]) < MaxMail

\* A foreign source that drags has the pointer and a button of its own.
Foreign == \E f \in Sources : source[f] \in {"over", "asked", "told"}

Event(type, b) == [type |-> type, button |-> b]

\* Motion is reported over our windows and, while a button pressed there holds
\* the pointer, everywhere.  Motions that wait together count as one.
Reported(w) == ~Foreign /\ (w = Own \/ held # {})
Waiting == input # <<>> /\ input[Len(input)].type = "motion"
MovePointer(w) ==
    /\ MailRoom /\ w # pointer
    /\ Reported(w) => Waiting \/ Len(input) < MaxInput
    /\ pointer' = w
    /\ input' = IF Reported(w) /\ ~Waiting THEN Append(input, Event("motion", None)) ELSE input
    /\ UNCHANGED <<dnd, drag, seat, held, source>>

PressButton(b) ==
    /\ Len(input) < MaxInput /\ MailRoom
    /\ b \notin held /\ ~Foreign
    /\ pointer = Own \/ held # {}
    /\ held' = held \cup {b}
    /\ input' = Append(input, Event("press", b))
    /\ UNCHANGED <<dnd, drag, seat, pointer, source>>

ReleaseButton(b) ==
    /\ Len(input) < MaxInput /\ b \in held
    /\ held' = held \ {b}
    /\ input' = Append(input, Event("release", b))
    /\ UNCHANGED <<dnd, drag, seat, pointer, source>>

(***************************************************************************)
(* Foreign windows.                                                        *)
(***************************************************************************)
Mail(w) == Head(dnd.mail[w])
ReadMail(w) == [dnd EXCEPT !.mail[w] = Tail(@)]

\* A target answers every Position, fetches what is dropped and then finishes.
Fetch(s, w) ==
    IF s.owner = Own THEN Post(s, Wire("Request", w, ""))
    ELSE [Send(s, w, "Refused") EXCEPT !.lost = TRUE]
TargetReads(w) ==
    /\ dnd.mail[w] # <<>>
    /\ \/ /\ Mail(w) = "Position"
          /\ \E answer \in {"yes", "no"} : dnd' = Post(ReadMail(w), Wire("Status", w, answer))
       \/ Mail(w) = "Drop" /\ dnd' = Fetch(ReadMail(w), w)
       \/ /\ Mail(w) \in {"Text", "Refused"}
          /\ dnd' = [Post(ReadMail(w), Wire("Finished", w, "")) EXCEPT !.drop[w] = 0]
    /\ UNCHANGED <<drag, seat, user, input, source>>

\* A source starts its drag where the pointer is, not in our windows, and claims
\* XdndSelection; then it enters one of our windows, asks, and leaves or drops.
Claim(f) == [dnd EXCEPT !.owner = f, !.taken = (dnd.text # 0)]
SourceStep(f, before, after, message) ==
    /\ source[f] = before
    /\ MailRoom
    /\ source' = [source EXCEPT ![f] = after]
    /\ dnd' = Post(IF before = "idle" THEN Claim(f) ELSE dnd, Wire(message, f, ""))
    /\ UNCHANGED <<drag, seat, user, input>>

SourceDrags(f) ==
    \/ held = {} /\ ~Foreign /\ SourceStep(f, "idle", "over", "Enter")
    \/ SourceStep(f, "over", "asked", "Position")
    \/ SourceStep(f, "told", "asked", "Position")
    \/ \E state \in {"over", "asked", "told"} : SourceStep(f, state, "idle", "Leave")
    \/ SourceStep(f, "told", "dropped", "Drop")

SourceReads(f) ==
    /\ dnd.mail[f] # <<>>
    /\ \/ /\ Mail(f) = "Status"
          /\ source' = [source EXCEPT ![f] = IF @ = "asked" THEN "told" ELSE @]
          /\ dnd' = ReadMail(f)
       \/ /\ Mail(f) = "Convert"
          /\ \E answer \in Answers : dnd' = Post(ReadMail(f), Wire("Notify", f, answer))
          /\ UNCHANGED source
       \/ /\ Mail(f) = "Finished"
          /\ source' = [source EXCEPT ![f] = "idle"]
          /\ dnd' = ReadMail(f)
    /\ UNCHANGED <<drag, seat, user, input>>

\* Between its drags a source may give the selection up.
SourceReleases(f) ==
    /\ source[f] = "idle" /\ dnd.owner = f
    /\ dnd' = [dnd EXCEPT !.owner = None]
    /\ UNCHANGED <<drag, seat, user, input, source>>

(***************************************************************************)
(* The specification.                                                      *)
(***************************************************************************)
Init ==
    /\ dnd = [text |-> 0, target |-> None, accepted |-> FALSE, receives |-> FALSE,
              from |-> None, owner |-> None, taken |-> FALSE,
              mail |-> [w \in Peers |-> <<>>], inbox |-> <<>>, open |-> {},
              forgotten |-> {}, drop |-> [w \in Targets |-> 0], lost |-> FALSE]
    /\ drag = [live |-> FALSE, number |-> 0, button |-> None, focus |-> FALSE, pumping |-> {}]
    /\ seat = {} /\ pointer = Own /\ held = {} /\ input = <<>>
    /\ source = [f \in Sources |-> "idle"]

HandleInput == HandleMotion \/ HandlePress \/ HandleRelease
HandleX ==
    \/ HandleStatus \/ HandleFinished \/ HandleRequest
    \/ HandleEnter \/ HandlePosition \/ HandleLeave \/ HandleDrop \/ HandleNotify

Client == PumpEnds \/ CancelDrag \/ \E b \in Buttons : StartDrag(b)
User ==
    \/ \E w \in Targets \cup {None, Own} : MovePointer(w)
    \/ \E b \in Buttons : PressButton(b) \/ ReleaseButton(b)

Next ==
    \/ HandleInput \/ HandleX \/ Client \/ User
    \/ \E w \in Targets : TargetReads(w)
    \/ \E f \in Sources : SourceDrags(f) \/ SourceReads(f) \/ SourceReleases(f)

Spec == Init /\ [][Next]_vars

\* The event loop serves both connections and foreign windows answer.
FairSpec ==
    /\ Spec /\ WF_vars(HandleInput) /\ WF_vars(HandleX) /\ WF_vars(PumpEnds)
    /\ \A w \in Targets : WF_vars(TargetReads(w))
    /\ \A f \in Sources : WF_vars(SourceReads(f))

(***************************************************************************)
(* Properties.                                                             *)
(***************************************************************************)
\* The seat knows which buttons are pressed once it has seen every event.
TypeOK ==
    /\ dnd \in Dnd
    /\ drag \in [live : BOOLEAN, number : Texts, button : Buttons \cup {None},
                 focus : BOOLEAN, pumping : SUBSET (1..MaxDrags)]
    /\ seat \subseteq Buttons /\ held \subseteq Buttons /\ (input = <<>> => seat = held)
    /\ pointer \in Targets \cup {None, Own}
    /\ input \in Seq([type : {"motion", "press", "release"}, button : Buttons \cup {None}])
    /\ source \in [Sources -> {"idle", "over", "asked", "told", "dropped"}]

\* No window is left believing that a drag hovers over it once the compositor has
\* turned to another window or given the drag up, whether the drag was released,
\* cancelled or never had text: dnd_out_leave goes with every change of target.
\* Only a drag begun over an older one forgets that one's target.
SessionsMatch == dnd.open \subseteq {dnd.target} \cup dnd.forgotten

\* The compositor owns XdndSelection for as long as there is text to serve, unless
\* another application has claimed it in this drag (and perhaps given it up), and
\* does not hold it any longer than that.
SelectionHeld ==
    /\ dnd.text # 0 => dnd.owner = Own \/ dnd.taken
    /\ dnd.text = 0 => dnd.owner # Own

\* An outbound drag whose XdndDrop was sent comes to its end (or gives way to a new
\* one): it does not stay active for good, "Keep selection data until XdndFinished".
DroppedEnds ==
    \A n \in 1..MaxDrags :
        (dnd.text = n /\ \E w \in Targets : dnd.drop[w] = n) ~> dnd.text # n

\* XdndFinished goes to a source that has dropped, and not to one that still drags.
FinishedToDropper ==
    \A f \in Sources :
        (\E i \in DOMAIN dnd.mail[f] : dnd.mail[f][i] = "Finished") => source[f] = "dropped"

\* A source that drops on one of our windows, and can deliver text, is told that it
\* is finished, unless another drag has claimed XdndSelection meanwhile.
InboundAnswered ==
    \A f \in Sources :
        (source[f] = "dropped" /\ dnd.owner = f) ~> (source[f] # "dropped" \/ dnd.owner # f)

\* Claim (dnd.c:238, "Keep selection data until XdndFinished"): a window that was
\* sent XdndDrop gets the text of that drag.
NothingLost == ~dnd.lost

\* Claim (dnd.c:519, "If XdndDrop was sent and we are waiting for XdndFinished, keep
\* selection data; otherwise tear the outbound drag down now"): when the wlr_drag
\* ends and no drop is on its way, so does the outbound drag.
TornDown ==
    [][drag.live /\ ~drag'.live /\ (\A w \in Targets : dnd'.drop[w] = 0) => dnd'.text = 0]_vars

\* Claim (dnd.c:295, "data[0]=target window, data[1] bit0 = accept"): the answer that
\* counts is the target's.
StatusIsTargets ==
    [][HandleStatus /\ dnd'.accepted /\ ~dnd.accepted => dnd.target \in {None, From}]_vars

\* Claim (dnd.c:197, "Prefer Wayland surface under cursor: seat already handles
\* that."): when a drag moves over one of our surfaces, the seat lets the drag enter it.
SeatHandlesDrag ==
    [][HandleMotion /\ drag.live /\ pointer = Own => drag'.focus]_vars
=============================================================================
