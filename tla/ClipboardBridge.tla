-------------------------- MODULE ClipboardBridge --------------------------
(***************************************************************************)
(* The text bridge between the selections of the X server (CLIPBOARD and    *)
(* PRIMARY) and those of the Wayland seat.                                  *)
(*                                                                         *)
(* Wayland to X11: a client that copies is asked for its text through a     *)
(* pipe; when the pipe ends, wl-x11 takes the X selection and serves the    *)
(* text.  X11 to Wayland: XFixes tells wl-x11 of a new owner, which it      *)
(* asks to convert the selection into a property of its own window; what    *)
(* it finds there becomes the seat's selection.  Nothing waits for anything *)
(* else, so the two directions cross.                                       *)
(***************************************************************************)
EXTENDS Naturals, Sequences, FiniteSets, SequencesExt

CONSTANTS Selections,     \* {"clipboard", "primary"} or a part of it
          Texts,          \* what users copy
          Habits,         \* who may copy to what (see habit)
          ClosesLate,     \* a client closes the pipe only once it is drained
          MaxCopies,      \* bound: copies in flight when another is made
          Chunks          \* writes a text takes

ASSUME SelectionsAssumption ==
    /\ IsFiniteSet(Selections)
    /\ Habits \subseteq [wayland : SUBSET Selections, x11 : SUBSET Selections, oneApp : BOOLEAN]
    /\ ClosesLate \in BOOLEAN
    /\ Chunks \in Nat \ {0} /\ MaxCopies \in Nat

NoText == "no text"        \* a null buffer, a deleted property
Truncated == "truncated"   \* the beginning of a text
NoRead == <<>>             \* clip_read_fd = -1
NoOwner == "nobody"
Wlx == "wlx"               \* clipboard_window
App == "app"               \* an X11 application
ASSUME TextsAssumption == {NoText, Truncated} \cap Texts = {}

\* habit.wayland and habit.x11 are the selections Wayland clients and X11
\* applications copy to; habit.oneApp says that those of X11 belong to one
\* application, which answers in order with its newest text.  It never changes.
VARIABLES habit,
          seat,     \* the seat's selection: who set it and its text
          read,     \* the export in flight and its pipe: <<>> or <<Read>>
          outText,  \* clip_out_text, pri_out_text
          weOwn,    \* clip_we_own_x11, pri_we_own_x11
          xOwner,   \* the owner of the X selection, in the server
          appText,  \* what the owning application serves
          property, \* _WLX_CLIPBOARD, _WLX_PRIMARY on clipboard_window
          asked,    \* conversions the application has not answered
          events,   \* the compositor's X event queue
          latest    \* history: the text copied last

compositor == <<seat, read, outText, weOwn>>
x11 == <<xOwner, appText, property, asked, events>>
vars == <<compositor, x11, latest>>

Source == [from : {"nobody", "client", "x11"}, text : Texts \cup {NoText, Truncated}]
Read == [sel : Selections, text : Texts, written : 0..Chunks, got : 0..Chunks, closed : BOOLEAN]
Event == [kind : {"clear", "owner", "notify", "request"}, sel : Selections,
          owner : {NoOwner, Wlx, App}, ok : BOOLEAN]

Request == [sel : Selections, text : Texts]

Ev(kind, sel, owner, ok) == [kind |-> kind, sel |-> sel, owner |-> owner, ok |-> ok]
InFlight == Len(events) + Len(asked) + Len(read)

(***************************************************************************)
(* The X server.  A change of owner clears the old one and is reported      *)
(* through XFixes; a conversion goes to the owner of the moment.            *)
(***************************************************************************)
OwnerEvents(sel, owner) ==
    (IF xOwner[sel] = Wlx /\ owner # Wlx THEN <<Ev("clear", sel, owner, TRUE)>> ELSE <<>>)
        \o <<Ev("owner", sel, owner, TRUE)>>

\* xcb_convert_selection, after xcb_delete_property
Convert(sel, queue) ==
    /\ property' = [property EXCEPT ![sel] = NoText]
    /\ \/ xOwner[sel] = App /\ events' = queue
          /\ asked' = Append(asked, [sel |-> sel, text |-> appText[sel]])
       \/ xOwner[sel] = Wlx /\ UNCHANGED asked
          /\ events' = Append(queue, Ev("request", sel, Wlx, TRUE))
       \/ xOwner[sel] = NoOwner /\ UNCHANGED asked
          /\ events' = Append(queue, Ev("notify", sel, NoOwner, FALSE))

(***************************************************************************)
(* Wayland to X11.                                                         *)
(***************************************************************************)
\* clipboard_export_wayland_source, primary_export_wayland_source: the one read
\* in flight is dropped, whichever selection it was for.
ExportWhenIdle(sel, text) ==
    read' = IF read # NoRead THEN read
            ELSE <<[sel |-> sel, text |-> text, written |-> 0, got |-> 0, closed |-> FALSE]>>
Export(sel, text) ==
    read' = <<[sel |-> sel, text |-> text, written |-> 0, got |-> 0, closed |-> FALSE]>>

\* server_request_set_selection, server_request_set_primary_selection
WaylandClientCopies(sel, text) ==
    /\ InFlight < MaxCopies
    /\ seat' = [seat EXCEPT ![sel] = [from |-> "client", text |-> text]]
    /\ Export(sel, text)
    /\ latest' = [latest EXCEPT ![sel] = text]
    /\ UNCHANGED <<outText, weOwn, x11>>

ClientWrites ==
    /\ read # NoRead
    /\ ~read[1].closed /\ read[1].written < Chunks
    /\ read' = [read EXCEPT ![1].written = @ + 1]
    /\ UNCHANGED <<seat, outText, weOwn, x11, latest>>

ClientCloses ==
    /\ read # NoRead
    /\ ~read[1].closed /\ read[1].written = Chunks
    /\ ClosesLate => read[1].got = read[1].written
    /\ read' = [read EXCEPT ![1].closed = TRUE]
    /\ UNCHANGED <<seat, outText, weOwn, x11, latest>>

\* clipboard_set_x11_owner
SetX11Owner(sel, text) ==
    /\ outText' = [outText EXCEPT ![sel] = text]
    /\ xOwner' = [xOwner EXCEPT ![sel] = Wlx]
    /\ events' = events \o OwnerEvents(sel, Wlx)
    /\ weOwn' = [weOwn EXCEPT ![sel] = TRUE]

\* clipboard_clear_read
EndReadForgotten == UNCHANGED read
EndRead == read' = NoRead

\* clipboard_read_fd: a hangup ends the read, whatever the pipe still holds.
ReadFd ==
    /\ read # NoRead
    /\ \/ /\ read[1].closed
          /\ EndRead
          /\ IF read[1].got = 0 THEN UNCHANGED <<outText, weOwn, x11>>
             ELSE /\ SetX11Owner(read[1].sel, IF read[1].got = Chunks THEN read[1].text ELSE Truncated)
                  /\ UNCHANGED <<appText, property, asked>>
       \/ /\ ~read[1].closed /\ read[1].got < read[1].written
          /\ read' = [read EXCEPT ![1].got = read[1].written]
          /\ UNCHANGED <<outText, weOwn, x11>>
    /\ UNCHANGED <<seat, latest>>

(***************************************************************************)
(* X11 applications.                                                       *)
(***************************************************************************)
AppCopies(sel, text) ==
    /\ InFlight < MaxCopies
    /\ xOwner' = [xOwner EXCEPT ![sel] = App]
    /\ appText' = [appText EXCEPT ![sel] = text]
    /\ events' = events \o OwnerEvents(sel, App)
    /\ latest' = [latest EXCEPT ![sel] = text]
    /\ UNCHANGED <<compositor, property, asked>>

AppQuits(sel) ==
    /\ xOwner[sel] = App
    /\ InFlight < MaxCopies
    /\ xOwner' = [xOwner EXCEPT ![sel] = NoOwner]
    /\ events' = events \o OwnerEvents(sel, NoOwner)
    /\ UNCHANGED <<compositor, appText, property, asked, latest>>

\* The k-th conversion is answered with the text its owner had, or refused by an
\* application that has lost the selection in the meantime.
AppAnswers(k, ok) ==
    /\ habit.oneApp => k = 1
    /\ asked' = RemoveAt(asked, k)
    /\ LET sel == asked[k].sel
           text == IF habit.oneApp /\ xOwner[sel] = App THEN appText[sel] ELSE asked[k].text
       IN /\ ok \/ xOwner[sel] # App
          /\ property' = IF ok THEN [property EXCEPT ![sel] = text] ELSE property
          /\ events' = Append(events, Ev("notify", sel, App, ok))
    /\ UNCHANGED <<compositor, xOwner, appText, latest>>

(***************************************************************************)
(* handle_xcb_readable.                                                    *)
(***************************************************************************)
\* SelectionClear
HandleSelectionClear ==
    /\ events # <<>> /\ Head(events).kind = "clear"
    /\ events' = Tail(events)
    /\ weOwn' = [weOwn EXCEPT ![Head(events).sel] = FALSE]
    /\ UNCHANGED <<seat, read, outText, xOwner, appText, property, asked, latest>>

WeOwnUnlessCleared(ev) == weOwn[ev.sel] /\ ev.owner = Wlx
WeOwnAfter(ev) == ev.owner = Wlx
\* XFixes selection notify, then clipboard_request_from_x11.
HandleOwnerChange ==
    /\ events # <<>> /\ Head(events).kind = "owner"
    /\ LET ev == Head(events)
       IN /\ weOwn' = [weOwn EXCEPT ![ev.sel] = WeOwnAfter(ev)]
          /\ IF ev.owner = App THEN Convert(ev.sel, Tail(events))
             ELSE events' = Tail(events) /\ UNCHANGED <<property, asked>>
    /\ UNCHANGED <<seat, read, outText, xOwner, appText, latest>>

\* clipboard_handle_selection_request for wl-x11's own window; requests of other
\* applications are served alike and change nothing.
HandleSelectionRequest ==
    /\ events # <<>> /\ Head(events).kind = "request"
    /\ LET sel == Head(events).sel
           served == outText[sel] # NoText
       IN /\ property' = IF served THEN [property EXCEPT ![sel] = outText[sel]] ELSE property
          /\ events' = Append(Tail(events), Ev("notify", sel, Wlx, served))
    /\ UNCHANGED <<compositor, xOwner, appText, asked, latest>>

\* clipboard_offer_x11_text_to_wayland: setting the seat's selection is not a
\* client's request, so nothing is exported.
Offer(sel, text) ==
    /\ seat' = [seat EXCEPT ![sel] = [from |-> "x11", text |-> text]]
    /\ UNCHANGED read

HasAnswer(ev) == ev.ok
\* No property, or one that a later request has deleted already.
HasText(ev) == ev.ok /\ property[ev.sel] # NoText

\* clipboard_handle_selection_notify
HandleSelectionNotify ==
    /\ events # <<>> /\ Head(events).kind = "notify"
    /\ events' = Tail(events)
    /\ LET ev == Head(events)
       IN IF HasText(ev)
          THEN Offer(ev.sel, property[ev.sel])
          ELSE UNCHANGED <<seat, read>>
    /\ UNCHANGED <<outText, weOwn, xOwner, appText, property, asked, latest>>

(***************************************************************************)
(* The specification.  clipboard_init asks for what the host already has.  *)
(***************************************************************************)
Init ==
    /\ habit \in Habits
    /\ seat = [s \in Selections |-> [from |-> "nobody", text |-> NoText]]
    /\ read = NoRead
    /\ outText = [s \in Selections |-> NoText]
    /\ weOwn = [s \in Selections |-> FALSE]
    /\ xOwner \in [Selections -> {NoOwner, App}]
    /\ appText \in [Selections -> Texts \cup {NoText}]
    /\ \A s \in Selections : appText[s] = NoText <=> xOwner[s] = NoOwner
    /\ \A s \in Selections : xOwner[s] = App => s \in habit.x11
    /\ property = [s \in Selections |-> NoText]
    /\ events = <<>>
    /\ asked = SetToSeq({[sel |-> s, text |-> appText[s]] :
                            s \in {t \in Selections : xOwner[t] = App}})
    /\ latest = appText

Users ==
    \/ \E s \in habit.wayland, t \in Texts : WaylandClientCopies(s, t)
    \/ \E s \in habit.x11, t \in Texts : AppCopies(s, t)
    \/ \E s \in habit.x11 : AppQuits(s)

Dispatch ==
    HandleSelectionClear \/ HandleOwnerChange \/ HandleSelectionRequest \/ HandleSelectionNotify

Answers == \E k \in 1..Len(asked), ok \in BOOLEAN : AppAnswers(k, ok)

Step == Users \/ ClientWrites \/ ClientCloses \/ ReadFd \/ Answers \/ Dispatch
Next == Step /\ UNCHANGED habit
Spec == Init /\ [][Next]_<<vars, habit>>

\* Events are dispatched, clients write and applications answer.
FairSpec == /\ Spec
            /\ WF_vars(ClientWrites) /\ WF_vars(ClientCloses) /\ WF_vars(ReadFd)
            /\ WF_vars(Answers) /\ WF_vars(Dispatch)

(***************************************************************************)
(* Properties.                                                             *)
(***************************************************************************)
TypeOK ==
    /\ habit \in Habits
    /\ seat \in [Selections -> Source]
    /\ \A s \in Selections : seat[s].from = "nobody" <=> seat[s].text = NoText
    /\ read \in Seq(Read) /\ Len(read) <= 1
    /\ outText \in [Selections -> Texts \cup {NoText, Truncated}]
    /\ weOwn \in [Selections -> BOOLEAN]
    /\ xOwner \in [Selections -> {NoOwner, Wlx, App}]
    /\ appText \in [Selections -> Texts \cup {NoText}]
    /\ property \in [Selections -> Texts \cup {NoText, Truncated}]
    /\ asked \in Seq(Request) /\ events \in Seq(Event)
    /\ latest \in [Selections -> Texts \cup {NoText}]

Served(sel) == IF xOwner[sel] = Wlx THEN outText[sel] ELSE appText[sel]
Quiet == InFlight = 0

\* Ownership is known: when every event is handled, clip_we_own_x11 agrees with
\* the server, although SelectionClear and XFixes events may be older than the
\* claim that clipboard_set_x11_owner has just verified.
OwnershipKnown ==
    Quiet => \A s \in Selections : weOwn[s] <=> xOwner[s] = Wlx

\* What was copied last is what both sides paste, once nothing is in flight, of
\* a selection that is only copied to from one of them.
Bridged ==
    Quiet /\ habit.oneApp =>
       \A s \in Selections \ (habit.wayland \cap habit.x11) :
          xOwner[s] # NoOwner => Served(s) = latest[s] /\ seat[s].text = latest[s]

\* The two directions do not feed each other: an import is not exported again,
\* so after the users' last copy everything comes to rest.
ComesToRest == []<><<Users>>_vars \/ <>[]Quiet

\* "Text offered as Wayland clipboard from X11 CLIPBOARD" (server.h): an offer that
\* stands is what the X selection holds.
OfferIsX11Text ==
    Quiet => \A s \in Selections :
                seat[s].from = "x11" /\ xOwner[s] # NoOwner => seat[s].text = Served(s)

\* "Text published onto X11 CLIPBOARD (Wayland -> X11)" (server.h): what a Wayland
\* client copied is what the X selection holds.
CopyIsPublished ==
    Quiet => \A s \in Selections :
                seat[s].from = "client" => xOwner[s] = Wlx /\ outText[s] = seat[s].text
=============================================================================
