----------------------------- MODULE X11Output -----------------------------
(***************************************************************************)
(* The X11 backend's half of size negotiation: how it tells, from          *)
(* ConfigureNotify events that carry no origin, the answers to its own     *)
(* ConfigureWindow requests from the sizes the host decided.               *)
(*                                                                         *)
(* Requests and events travel in FIFO order on one connection.  The server *)
(* stamps an event with the 16-bit sequence number of the last request it  *)
(* has processed.  A managed window's ConfigureWindow is redirected to the *)
(* window manager, which answers in its own time; an override-redirect     *)
(* window's is carried out at once.                                        *)
(***************************************************************************)
EXTENDS Integers, Sequences

CONSTANTS Sizes,        \* sizes of the content window
          FitSizes,     \* those wl-x11 asks for (resize_output_to)
          Managed,      \* FALSE: override-redirect
          MayRefuse,    \* the WM may keep the size the window has
          WmBacklog,    \* bound: ConfigureRequests the WM has not answered
          SeqMod,       \* 2^16
          MaxAge,       \* bound: requests since the last ConfigureWindow
          MaxTraffic    \* bound: messages in flight when somebody moves

ASSUME SizesAssumption ==
    FitSizes \subseteq Sizes /\ Managed \in BOOLEAN /\ MayRefuse \in BOOLEAN
ASSUME BoundsAssumption ==
    /\ SeqMod \in Nat \ {0} /\ SeqMod % 2 = 0 /\ MaxAge \in Nat
    /\ WmBacklog \in Nat \ {0} /\ MaxTraffic \in Nat

VARIABLES winSize,     \* output->win_width, win_height; also the wlr_output mode
          pendingSize, \* pending_width, pending_height, or NoSize
          lastSeq,     \* last_configure_seq
          requests,    \* requests the server has not processed
          done,        \* sequence number of the last request it has processed
          asked,       \* ConfigureRequests the WM has not answered
          events,      \* ConfigureNotify events not yet dispatched
          real         \* the size of output->win in the server

backend == <<winSize, pendingSize, lastSeq>>
server == <<requests, done, asked, real>>
vars == <<backend, server, events>>

SeqNumbers == 0..(SeqMod - 1)
Event == [seq : SeqNumbers, size : Sizes]
NoSize == "none"    \* has_pending_configure is false
Other == "other"    \* any request that does not configure the window

ASSUME TagsAssumption == NoSize \notin Sizes /\ Other \notin Sizes

Issued == (done + Len(requests)) % SeqMod
Since == (Issued - lastSeq) % SeqMod    \* issued after the newest ConfigureWindow
Traffic == Len(requests) + Len(asked) + Len(events)

\* (int16_t)(sequence - last_configure_seq) < 0
NeverStale(seq) == FALSE
StaleByOrder(seq) == seq < lastSeq
Stale(seq) == (seq - lastSeq) % SeqMod >= SeqMod \div 2

\* The server or the WM reports the window's size.
Notify(size) == events' = Append(events, [seq |-> done', size |-> size])

(***************************************************************************)
(* The backend.                                                            *)
(***************************************************************************)
\* output_set_custom_mode
SetModeWideSeq(s) ==
    IF s = winSize /\ pendingSize = NoSize
    THEN UNCHANGED <<backend, requests>>
    ELSE /\ requests' = Append(requests, s)
         /\ lastSeq' = Issued + 1
         /\ pendingSize' = s
         /\ winSize' = s
SetCustomMode(s) ==
    IF s = winSize /\ pendingSize = NoSize
    THEN UNCHANGED <<backend, requests>>
    ELSE /\ requests' = Append(requests, s)
         /\ lastSeq' = (Issued + 1) % SeqMod
         /\ pendingSize' = s
         /\ winSize' = s

\* resize_output_to: the policy fits the window to its client.
FitWindow(s) ==
    /\ s # winSize
    /\ Traffic < MaxTraffic
    /\ SetCustomMode(s)
    /\ UNCHANGED <<done, asked, real, events>>

\* Rendering, cursors and properties use the connection too.
SendOther ==
    /\ Traffic < MaxTraffic
    /\ Since < MaxAge
    /\ requests' = Append(requests, Other)
    /\ UNCHANGED <<backend, done, asked, real, events>>

\* handle_x11_configure_notify; output_request_state accepts every size it is
\* given, so that the mode commit runs before the handler returns.
SelfAck(size) == size = pendingSize
HandleConfigureNotify ==
    /\ events # <<>>
    /\ events' = Tail(events)
    /\ LET ev == Head(events)
       IN \/ /\ Stale(ev.seq) \/ (~SelfAck(ev.size) /\ ev.size = winSize)
             /\ UNCHANGED <<backend, requests>>
          \/ /\ ~Stale(ev.seq) /\ SelfAck(ev.size)
             /\ pendingSize' = NoSize
             /\ UNCHANGED <<winSize, lastSeq, requests>>
          \/ /\ ~Stale(ev.seq) /\ ~SelfAck(ev.size) /\ ev.size # winSize
             /\ SetCustomMode(ev.size)
    /\ UNCHANGED <<done, asked, real>>

(***************************************************************************)
(* The X server and the window manager.                                    *)
(***************************************************************************)
ServerProcesses ==
    /\ requests # <<>>
    /\ requests' = Tail(requests)
    /\ done' = (done + 1) % SeqMod
    /\ LET r == Head(requests)
       IN \/ /\ r = Other
             /\ UNCHANGED <<asked, real, events>>
          \/ /\ r # Other /\ Managed
             /\ Len(asked) < WmBacklog
             /\ asked' = Append(asked, r)
             /\ UNCHANGED <<real, events>>
          \/ /\ r # Other /\ ~Managed
             /\ real' = r
             /\ IF r = real THEN UNCHANGED events ELSE Notify(r)
             /\ UNCHANGED asked
    /\ UNCHANGED backend

\* A size the WM grants is notified by the server, one it keeps by the WM
\* itself (ICCCM 4.1.5): the client sees the window's size either way.
WmAnswers ==
    /\ asked # <<>>
    /\ asked' = Tail(asked)
    /\ real' = Head(asked) \/ (MayRefuse /\ real' = real)
    /\ UNCHANGED <<backend, requests, done>>
    /\ Notify(real')

HostResizes(s) ==
    /\ s # real
    /\ Traffic < MaxTraffic
    /\ real' = s
    /\ UNCHANGED <<backend, requests, done, asked>>
    /\ Notify(s)

(***************************************************************************)
(* The specification, from the end of the handshake that maps the window.  *)
(***************************************************************************)
Init ==
    /\ real \in Sizes /\ winSize = real /\ pendingSize = NoSize
    /\ done = 0 /\ lastSeq = 0
    /\ requests = <<>> /\ asked = <<>> /\ events = <<>>

Moves == (\E s \in FitSizes : FitWindow(s)) \/ (\E s \in Sizes : HostResizes(s))
Next == Moves \/ SendOther \/ HandleConfigureNotify \/ ServerProcesses \/ WmAnswers

Spec == Init /\ [][Next]_vars

\* The event loop dispatches what has arrived, the server processes requests
\* and the WM answers them.
FairSpec == /\ Spec
            /\ WF_vars(HandleConfigureNotify)
            /\ WF_vars(ServerProcesses) /\ WF_vars(WmAnswers)

(***************************************************************************)
(* Properties.                                                             *)
(***************************************************************************)
TypeOK ==
    /\ winSize \in Sizes /\ real \in Sizes
    /\ pendingSize \in Sizes \cup {NoSize}
    /\ lastSeq \in SeqNumbers /\ done \in SeqNumbers
    /\ requests \in Seq(Sizes \cup {Other})
    /\ asked \in Seq(Sizes)
    /\ events \in Seq(Event)

\* The backend believes the size the window has and waits for no other; for a
\* managed window it waits for none.  (A ConfigureWindow that changes nothing is
\* never notified if no WM is there to do it, so pending_width may stay set.)
Agreement ==
    winSize = real /\ pendingSize \in {NoSize, real} /\ (Managed => pendingSize = NoSize)

\* When every message has been answered, backend and server agree: no resize of
\* the host was dropped as stale or taken for an answer, however requests,
\* rewrites and resizes crossed.
QuietAgreement == Traffic = 0 => Agreement

\* Once the host and the policy stop moving, the exchange stops too: sizes the
\* backend accepts from the host do not come back to it as new ones.  Not so if
\* the WM keeps having two of our sizes to answer at once (SettlesAlways).
Chase == \E i, j \in DOMAIN asked : asked[i] # asked[j]
Settles == []<><<Moves>>_vars \/ []<>Chase \/ <>[]Agreement

(***************************************************************************)
(* Claims that do not hold.                                                *)
(***************************************************************************)
\* "Events older than our last ConfigureWindow are stale (out-of-order) and
\* must not undo a compositor-initiated resize" (backend/x11/output.c:763-764).
\* A WM that has not answered one ConfigureWindow when the next is issued
\* answers the first after the server has passed the second: the answer is not
\* stale, not what is pending, and is set again (output.c:799-821).  That request
\* is then the newest while the second is answered, and so on without end.
SettlesAlways == []<><<Moves>>_vars \/ <>[]Agreement
=============================================================================
