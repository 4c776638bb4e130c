---------------------- MODULE ToplevelLifecycleProofs ----------------------
(***************************************************************************)
(* Safety of ToplevelLifecycle for any number of toplevels, configures and *)
(* focus events in flight, and that it implements WindowStages.            *)
(*                                                                         *)
(* The handlers are functions on the record `server'.  Safe collects what  *)
(* every one of them keeps; each helper has a lemma, each action a step.   *)
(***************************************************************************)
EXTENDS ToplevelRefinement, SequenceTheorems, TLAPS

(***************************************************************************)
(* The inductive invariant.                                                *)
(***************************************************************************)
\* A mapped toplevel is initialized, so the host's events may configure it.
MappedInitialized(s) == \A t \in Mapped(s) : s.win[t].initialized

\* Unless clients unmap, a toplevel that was sent its initial configure stays
\* initialized: initial_configure_sent is then as good as base->initialized.
SentInitialized(s) ==
    ~Unmaps => ~s.asserted /\ \A t \in Toplevels : s.win[t].sent => s.win[t].initialized

DeferredAlive(s) ==
    \A t \in Toplevels : s.win[t].deferred => s.win[t].decoration /\ ~s.win[t].sent

OneActive(s, x) == \A t \in Mapped(s) \ {x} : s.win[t].activated <=> s.focused = t

Named(s) ==
    /\ s.focused \in Mapped(s) \cup {None}
    /\ \A d \in Drags : s.drags[d] \in Mapped(s) \cup {None}

\* x is a window that is being mapped and is not yet active, or None.
SafeBut(s, x) ==
    /\ s \in Server
    /\ MappedInitialized(s)
    /\ SentInitialized(s)
    /\ DeferredAlive(s)
    /\ OneActive(s, x)
    /\ Named(s)

Safe(s) == SafeBut(s, None)

\* The host, and the events on their way, name mapped windows.
HostOK ==
    /\ hostFocus \in Mapped(server) \cup {None} /\ pointer \in Mapped(server) \cup {None}
    /\ events \in Seq([in : BOOLEAN, win : Mapped(server) \cup {None}])
    /\ settled \in BOOLEAN

LInv == Safe(server) /\ HostOK

(***************************************************************************)
(* Helpers.                                                                *)
(***************************************************************************)
\* v is s with another record for t.
Updated(s, v, t, w) ==
    /\ v \in Server
    /\ v.win[t] = w /\ \A u \in Toplevels \ {t} : v.win[u] = s.win[u]
    /\ v.focused = s.focused /\ v.drags = s.drags

\* wlr_xdg_surface_schedule_configure touches nothing but the idle callback.
LEMMA ScheduleUpdates ==
    ASSUME NEW s \in Server, NEW t \in Toplevels
    PROVE  /\ Updated(s, Schedule(s, t), t, [s.win[t] EXCEPT !.idle = TRUE])
           /\ Schedule(s, t).asserted = (s.asserted \/ ~s.win[t].initialized)
<1> DEFINE w == [s.win[t] EXCEPT !.idle = TRUE]
           bad == s.asserted \/ ~s.win[t].initialized
           v == [s EXCEPT !.win = [s.win EXCEPT ![t] = w], !.asserted = bad]
<1>1. s.win[t] \in Window /\ s.win \in [Toplevels -> Window]
  BY DEF Server
<1>2. w \in Window /\ bad \in BOOLEAN
  BY <1>1 DEF Window
<1>3. Schedule(s, t) = v
  BY <1>1 DEF Schedule, Server
<1> HIDE DEF w, bad
<1>4. v \in Server /\ v.win = [s.win EXCEPT ![t] = w] /\ v.asserted = bad
      /\ v.focused = s.focused /\ v.drags = s.drags
  BY <1>1, <1>2 DEF Server
<1> HIDE DEF v
<1>5. Updated(s, v, t, w) /\ v.asserted = bad
  BY <1>1, <1>4 DEF Updated
<1> QED BY <1>3, <1>5 DEF w, bad

\* The six fields the invariant reads are those of s.
SameFields(w, v) ==
    /\ v.output = w.output /\ v.initialized = w.initialized /\ v.sent = w.sent
    /\ v.decoration = w.decoration /\ v.deferred = w.deferred /\ v.activated = w.activated

SchedulesOnly(s, v, t) ==
    /\ v \in Server /\ v.focused = s.focused /\ v.drags = s.drags
    /\ \A u \in Toplevels : SameFields(s.win[u], v.win[u])
    /\ s.win[t].initialized => v.asserted = s.asserted

LEMMA ScheduleSchedulesOnly ==
    ASSUME NEW s \in Server, NEW t \in Toplevels
    PROVE  SchedulesOnly(s, Schedule(s, t), t)
<1> DEFINE v == Schedule(s, t)
<1>1. /\ v \in Server /\ v.focused = s.focused /\ v.drags = s.drags
      /\ v.win[t] = [s.win[t] EXCEPT !.idle = TRUE]
      /\ \A u \in Toplevels \ {t} : v.win[u] = s.win[u]
      /\ v.asserted = (s.asserted \/ ~s.win[t].initialized)
  BY ScheduleUpdates DEF Updated
<1> HIDE DEF v
<1>2. s.win[t] \in Window /\ s.asserted \in BOOLEAN
  BY DEF Server
<1>3. \A u \in Toplevels : SameFields(s.win[u], v.win[u])
  BY <1>1, <1>2 DEF Window, SameFields
<1>4. s.win[t].initialized => v.asserted = s.asserted
  BY <1>1, <1>2
<1>5. SchedulesOnly(s, v, t)
  BY <1>1, <1>3, <1>4 DEF SchedulesOnly
<1> QED BY <1>5 DEF v

LEMMA ScheduleSafe ==
    ASSUME NEW x, NEW s, SafeBut(s, x),
           NEW t \in Toplevels, ~Unmaps => s.win[t].initialized
    PROVE  SafeBut(Schedule(s, t), x)
<1> DEFINE v == Schedule(s, t)
<1>1. SchedulesOnly(s, v, t)
  BY ScheduleSchedulesOnly, Zenon DEF SafeBut
<1> HIDE DEF v
<1>2. Mapped(v) = Mapped(s)
  BY <1>1 DEF Mapped, SchedulesOnly, SameFields
<1>3. MappedInitialized(v) /\ DeferredAlive(v) /\ OneActive(v, x) /\ Named(v)
  BY <1>1, <1>2 DEF SafeBut, MappedInitialized, DeferredAlive, OneActive, Named, Mapped,
                    SchedulesOnly, SameFields
<1>4. SentInitialized(v)
  BY <1>1 DEF SafeBut, SentInitialized, SchedulesOnly, SameFields
<1> QED BY <1>1, <1>3, <1>4 DEF SafeBut, SchedulesOnly, v

\* v differs from s in activation, focus and scheduled configures at most.
Alike(s, v) ==
    /\ v \in Server /\ v.drags = s.drags /\ v.asserted = s.asserted
    /\ \A u \in Toplevels :
         /\ v.win[u].output = s.win[u].output /\ v.win[u].initialized = s.win[u].initialized
         /\ v.win[u].sent = s.win[u].sent /\ v.win[u].decoration = s.win[u].decoration
         /\ v.win[u].deferred = s.win[u].deferred

OnlyActivates(s, v, t, on) ==
    /\ Alike(s, v) /\ v.focused = s.focused /\ v.win[t].activated = on
    /\ \A u \in Toplevels \ {t} : v.win[u].activated = s.win[u].activated

\* Activating an initialized toplevel trips no assertion.
LEMMA SetActivatedAlike ==
    ASSUME NEW s \in Server, NEW t \in Toplevels, NEW on \in BOOLEAN, s.win[t].initialized
    PROVE  OnlyActivates(s, SetActivated(s, t, on), t, on)
<1> DEFINE w == [s.win[t] EXCEPT !.activated = on]
           m == [s EXCEPT !.win = [s.win EXCEPT ![t] = w]]
           v == Schedule(m, t)
<1>1. s.win[t] \in Window /\ s.win \in [Toplevels -> Window] /\ s.asserted \in BOOLEAN
  BY DEF Server
<1>2. /\ w \in Window /\ w.output = s.win[t].output /\ w.initialized = s.win[t].initialized
      /\ w.sent = s.win[t].sent /\ w.decoration = s.win[t].decoration
      /\ w.deferred = s.win[t].deferred /\ w.activated = on
  BY <1>1 DEF Window
<1>3. SetActivated(s, t, on) = v
  BY <1>1 DEF SetActivated, Server
<1> HIDE DEF w
<1>4. /\ m \in Server /\ m.win = [s.win EXCEPT ![t] = w] /\ m.asserted = s.asserted
      /\ m.focused = s.focused /\ m.drags = s.drags
  BY <1>1, <1>2 DEF Server
<1> HIDE DEF m
<1>5. /\ m.win[t] = w /\ \A u \in Toplevels \ {t} : m.win[u] = s.win[u]
  BY <1>1, <1>4
<1>6. /\ Updated(m, v, t, [w EXCEPT !.idle = TRUE])
      /\ v.asserted = (m.asserted \/ ~m.win[t].initialized)
  BY <1>4, <1>5, ScheduleUpdates
<1> HIDE DEF v
<1>7. v.asserted = s.asserted
  BY <1>1, <1>2, <1>4, <1>5, <1>6
<1>8. /\ v.win[t].output = w.output /\ v.win[t].initialized = w.initialized
      /\ v.win[t].sent = w.sent /\ v.win[t].decoration = w.decoration
      /\ v.win[t].deferred = w.deferred /\ v.win[t].activated = w.activated
  BY <1>2, <1>6 DEF Updated, Window
<1>9. \A u \in Toplevels \ {t} : v.win[u] = s.win[u]
  BY <1>5, <1>6 DEF Updated
<1>10. v \in Server /\ v.focused = s.focused /\ v.drags = s.drags
  BY <1>4, <1>6 DEF Updated
<1>11. OnlyActivates(s, v, t, on)
  BY <1>2, <1>7, <1>8, <1>9, <1>10 DEF Alike, OnlyActivates
<1> QED BY <1>3, <1>11, Zenon

MovesActivation(s, v, t) ==
    /\ Alike(s, v) /\ v.focused = t
    /\ t # None => v.win[t].activated = TRUE
    /\ s.focused # None => v.win[s.focused].activated = FALSE
    /\ \A u \in Toplevels \ {t, s.focused} : v.win[u].activated = s.win[u].activated

\* set_active_window moves activation from the old window to the new one.  The
\* new one need not be in order yet: xdg_toplevel_map calls it before that.
LEMMA SetActiveMoves ==
    ASSUME NEW s \in Server, NEW t \in Toplevels \cup {None}, s.focused # t,
           s.focused # None => s.win[s.focused].initialized,
           t # None => s.win[t].initialized
    PROVE  MovesActivation(s, SetActiveWindow(s, t), t)
<1> DEFINE left == IF s.focused # None THEN SetActivated(s, s.focused, FALSE) ELSE s
           moved == [left EXCEPT !.focused = t]
           v == IF t # None THEN SetActivated(moved, t, TRUE) ELSE moved
<1>1. SetActiveWindow(s, t) = v
  BY DEF SetActiveWindow
<1>2. /\ Alike(s, left)
      /\ s.focused # None => left.win[s.focused].activated = FALSE
      /\ \A u \in Toplevels \ {s.focused} : left.win[u].activated = s.win[u].activated
  <2>1. CASE s.focused # None
    <3>1. s.focused \in Toplevels /\ s.win[s.focused].initialized
      BY <2>1 DEF Server
    <3>2. OnlyActivates(s, SetActivated(s, s.focused, FALSE), s.focused, FALSE)
      BY <3>1, SetActivatedAlike, Zenon
    <3>3. left = SetActivated(s, s.focused, FALSE)
      BY <2>1
    <3> HIDE DEF left
    <3> QED BY <2>1, <3>2, <3>3 DEF OnlyActivates
  <2>2. CASE s.focused = None
    BY <2>2, LifecycleAssumption DEF Alike
  <2> QED BY <2>1, <2>2
<1> HIDE DEF left
<1>3. /\ moved \in Server /\ moved.focused = t /\ moved.win = left.win
      /\ moved.drags = left.drags /\ moved.asserted = left.asserted
  BY <1>2 DEF Alike, Server
<1> HIDE DEF moved
<1>4. Alike(s, moved)
  BY <1>2, <1>3 DEF Alike
<1>5. CASE t # None
  <2>1. t \in Toplevels /\ moved.win[t].initialized
    BY <1>4, <1>5 DEF Alike
  <2>2. v = SetActivated(moved, t, TRUE)
    BY <1>5
  <2> HIDE DEF v
  <2>3. OnlyActivates(moved, v, t, TRUE)
    BY <1>3, <2>1, <2>2, SetActivatedAlike, Zenon
  <2>4. /\ v.focused = t /\ v.win[t].activated = TRUE
        /\ \A u \in Toplevels \ {t} : v.win[u].activated = left.win[u].activated
    BY <1>3, <2>3 DEF OnlyActivates
  <2>5. Alike(s, v)
    BY <1>4, <2>3 DEF Alike, OnlyActivates
  <2>6. s.focused # None => s.focused \in Toplevels \ {t}
    BY DEF Server
  <2>7. MovesActivation(s, v, t)
    BY <1>2, <2>4, <2>5, <2>6 DEF MovesActivation
  <2> QED BY <1>1, <2>7, Zenon
<1>6. CASE t = None
  <2>1. v = moved
    BY <1>6
  <2>2. MovesActivation(s, moved, t)
    BY <1>2, <1>3, <1>4, <1>6, LifecycleAssumption DEF MovesActivation
  <2> QED BY <1>1, <2>1, <2>2
<1> QED BY <1>5, <1>6

LEMMA MovedSafe ==
    ASSUME NEW x, NEW s, SafeBut(s, x), NEW t \in Mapped(s) \cup {None},
           x \in {t, None}, NEW v, MovesActivation(s, v, t)
    PROVE  Safe(v) /\ Mapped(v) = Mapped(s)
<1>1. Alike(s, v) /\ v.focused = t
  BY DEF MovesActivation
<1>2. Mapped(v) = Mapped(s)
  BY <1>1 DEF Mapped, Alike
<1>3. MappedInitialized(v) /\ SentInitialized(v) /\ DeferredAlive(v)
  BY <1>1, <1>2
     DEF Alike, SafeBut, MappedInitialized, SentInitialized, DeferredAlive, Mapped
<1>4. Named(v)
  BY <1>1, <1>2 DEF Alike, SafeBut, Named
<1>5. OneActive(v, None)
  <2> SUFFICES ASSUME NEW u \in Mapped(v) PROVE v.win[u].activated <=> t = u
    BY <1>1 DEF OneActive
  <2>1. u \in Toplevels /\ u # None
    BY <1>2, LifecycleAssumption DEF Mapped
  <2>2. CASE u = t
    BY <2>1, <2>2 DEF MovesActivation
  <2>3. CASE u # t /\ u = s.focused
    BY <2>1, <2>3 DEF MovesActivation
  <2>4. CASE u # t /\ u # s.focused
    <3>1. s.win[u].activated <=> s.focused = u
      BY <1>2, <2>1, <2>4 DEF SafeBut, OneActive
    <3> QED BY <2>1, <2>4, <3>1 DEF MovesActivation
  <2> QED BY <2>2, <2>3, <2>4
<1> QED BY <1>1, <1>2, <1>3, <1>4, <1>5 DEF Safe, SafeBut, Alike

LEMMA SetActiveSafe ==
    ASSUME NEW x, NEW s, SafeBut(s, x), NEW t \in Mapped(s) \cup {None},
           x = None \/ (x = t /\ s.focused # t)
    PROVE  Safe(SetActiveWindow(s, t)) /\ Mapped(SetActiveWindow(s, t)) = Mapped(s)
<1>1. CASE s.focused = t
  BY <1>1 DEF SetActiveWindow, Safe
<1>2. CASE s.focused # t
  <2> DEFINE v == SetActiveWindow(s, t)
  <2>1. s \in Server /\ t \in Toplevels \cup {None}
    BY DEF SafeBut, Mapped
  <2>2. /\ s.focused # None => s.win[s.focused].initialized
        /\ t # None => s.win[t].initialized
    BY DEF SafeBut, Named, MappedInitialized
  <2>3. MovesActivation(s, v, t)
    BY <1>2, <2>1, <2>2, SetActiveMoves, Zenon
  <2> HIDE DEF v
  <2>4. Safe(v) /\ Mapped(v) = Mapped(s)
    BY <2>3, MovedSafe
  <2> QED BY <2>4 DEF v
<1> QED BY <1>1, <1>2

\* v is s with the record w for t.
LEMMA PutWindow ==
    ASSUME NEW s \in Server, NEW t \in Toplevels, NEW w \in Window
    PROVE  /\ Updated(s, [s EXCEPT !.win[t] = w], t, w)
           /\ [s EXCEPT !.win[t] = w].asserted = s.asserted
  BY DEF Server, Updated

\* xdg_toplevel_map: the window it maps is the active one afterwards.
LEMMA MapSafe ==
    ASSUME NEW s, Safe(s), NEW t \in Toplevels, s.win[t].initialized, ~s.win[t].output
    PROVE  /\ Safe(Map(s, t)) /\ Map(s, t).win[t].initialized
           /\ Mapped(Map(s, t)) = Mapped(s) \cup {t}
<1> DEFINE w == [s.win[t] EXCEPT !.output = TRUE]
           m == [s EXCEPT !.win[t] = w]
           v == Schedule(m, t)
<1>1. s \in Server /\ s.win[t] \in Window
  BY DEF Safe, SafeBut, Server
<1>2. /\ w \in Window /\ w.output = TRUE /\ w.initialized = s.win[t].initialized
      /\ w.sent = s.win[t].sent /\ w.decoration = s.win[t].decoration
      /\ w.deferred = s.win[t].deferred
  BY <1>1 DEF Window
<1>3. Map(s, t) = SetActiveWindow(v, t)
  BY <1>1 DEF Map, Server
<1> HIDE DEF w
<1>4. Updated(s, m, t, w) /\ m.asserted = s.asserted
  BY <1>1, <1>2, PutWindow
<1> HIDE DEF m
<1>5. Mapped(m) = Mapped(s) \cup {t}
  BY <1>2, <1>4 DEF Mapped, Updated
<1>6. s.focused # t
  BY LifecycleAssumption DEF Safe, SafeBut, Named, Mapped
<1>7. MappedInitialized(m) /\ SentInitialized(m) /\ DeferredAlive(m) /\ Named(m)
  BY <1>2, <1>4, <1>5
     DEF Updated, Safe, SafeBut, MappedInitialized, SentInitialized, DeferredAlive, Named, Mapped
<1>8. OneActive(m, t)
  BY <1>4, <1>5, LifecycleAssumption DEF Updated, Safe, SafeBut, OneActive, Mapped
<1>9. SafeBut(m, t) /\ m.win[t].initialized
  BY <1>2, <1>4, <1>7, <1>8 DEF SafeBut, Updated
<1>10. SafeBut(v, t)
  BY <1>9, ScheduleSafe
<1>11. SchedulesOnly(m, v, t)
  BY <1>9, ScheduleSchedulesOnly DEF SafeBut
<1> HIDE DEF v
<1>12. v.focused # t /\ t \in Mapped(v) /\ v.win[t].initialized /\ v \in Server
  BY <1>2, <1>4, <1>6, <1>9, <1>11 DEF Updated, SchedulesOnly, SameFields, Mapped
<1>13. Safe(SetActiveWindow(v, t)) /\ Mapped(SetActiveWindow(v, t)) = Mapped(v)
  BY <1>10, <1>12, SetActiveSafe
<1>14. SetActiveWindow(v, t).win[t].initialized
  <2>1. v.focused # None => v.win[v.focused].initialized
    BY <1>10 DEF SafeBut, Named, MappedInitialized
  <2>2. MovesActivation(v, SetActiveWindow(v, t), t)
    BY <1>12, <2>1, SetActiveMoves
  <2> QED BY <1>12, <2>2 DEF MovesActivation, Alike
<1>15. Mapped(v) = Mapped(m)
  BY <1>11 DEF SchedulesOnly, SameFields, Mapped
<1> QED BY <1>3, <1>5, <1>13, <1>14, <1>15


\* output_destroy and the reset: t is neither mapped, nor focused, nor dragged.
Unmapped(s, v, t) ==
    /\ v \in Server /\ v.asserted = s.asserted
    /\ \A u \in Toplevels \ {t} : v.win[u] = s.win[u]
    /\ ~v.win[t].output /\ v.focused # t
    /\ \A d \in Drags : v.drags[d] # t /\ v.drags[d] \in {s.drags[d], None}
    /\ v.focused \in {s.focused, None}
    /\ s.focused # t => v.focused = s.focused

Reset(w) == [w EXCEPT !.initialized = FALSE, !.configured = FALSE,
                      !.idle = FALSE, !.unacked = 0]

LEMMA ResetWindow ==
    ASSUME NEW w \in Window
    PROVE  /\ Reset(w) \in Window /\ Reset(w).output = w.output /\ Reset(w).sent = w.sent
           /\ Reset(w).decoration = w.decoration /\ Reset(w).deferred = w.deferred
<1>1. 0 \in 0..MaxConfigures
  BY LifecycleAssumption
<1> DEFINE bound == 0..MaxConfigures
<1> HIDE DEF bound
<1>2. 0 \in bound
  BY <1>1 DEF bound
<1>3. Window = [live : BOOLEAN, initialized : BOOLEAN, configured : BOOLEAN,
                output : BOOLEAN, sent : BOOLEAN, decoration : BOOLEAN,
                deferred : BOOLEAN, activated : BOOLEAN, idle : BOOLEAN,
                unacked : bound]
  BY DEF Window, bound
<1> QED BY <1>2, <1>3 DEF Reset

LEMMA UnmapUnmaps ==
    ASSUME NEW s, Safe(s), NEW t \in Toplevels
    PROVE  /\ Unmapped(s, Unmap(s, t), t)
           /\ Unmap(s, t).win[t].sent = s.win[t].sent
           /\ Unmap(s, t).win[t].decoration = s.win[t].decoration
           /\ Unmap(s, t).win[t].deferred = s.win[t].deferred
<1> DEFINE gone == IF s.win[t].output THEN OutputDestroy(s, t) ELSE s
           w == Reset(gone.win[t])
           v == [gone EXCEPT !.win[t] = w]
<1>1. s \in Server /\ s.win[t] \in Window
  BY DEF Safe, SafeBut, Server
<1>2. /\ gone \in Server /\ gone.asserted = s.asserted
      /\ \A u \in Toplevels \ {t} : gone.win[u] = s.win[u]
      /\ gone.win[t] = [s.win[t] EXCEPT !.output = FALSE]
      /\ gone.focused = (IF s.focused = t THEN None ELSE s.focused)
      /\ gone.drags = [d \in Drags |-> IF s.drags[d] = t THEN None ELSE s.drags[d]]
  <2>1. CASE s.win[t].output
    <3> DEFINE x == [s.win[t] EXCEPT !.output = FALSE]
               f == IF s.focused = t THEN None ELSE s.focused
               g == [d \in Drags |-> IF s.drags[d] = t THEN None ELSE s.drags[d]]
    <3>1. x \in Window /\ f \in Toplevels \cup {None} /\ g \in [Drags -> Toplevels \cup {None}]
      BY <1>1 DEF Window, Server
    <3>2. gone = [s EXCEPT !.win[t] = x, !.focused = f, !.drags = g]
      BY <1>1, <2>1 DEF OutputDestroy, Server
    <3> HIDE DEF x, f, g, gone
    <3>3. /\ gone \in Server /\ gone.asserted = s.asserted
          /\ \A u \in Toplevels \ {t} : gone.win[u] = s.win[u]
          /\ gone.win[t] = x /\ gone.focused = f /\ gone.drags = g
      BY <1>1, <3>1, <3>2 DEF Server
    <3> QED BY <3>3 DEF x, f, g
  <2>2. CASE ~s.win[t].output
    <3>1. s.focused # t /\ \A d \in Drags : s.drags[d] # t
      BY <2>2, LifecycleAssumption DEF Safe, SafeBut, Named, Mapped
    <3>3. s.drags = [d \in Drags |-> IF s.drags[d] = t THEN None ELSE s.drags[d]]
      BY <1>1, <3>1 DEF Server
    <3>2. s.win[t] = [s.win[t] EXCEPT !.output = FALSE]
      BY <1>1, <2>2 DEF Window
    <3> QED BY <1>1, <2>2, <3>1, <3>2, <3>3
  <2> QED BY <2>1, <2>2
<1> DEFINE reset == [gone EXCEPT !.win[t].initialized = FALSE, !.win[t].configured = FALSE,
                                 !.win[t].idle = FALSE, !.win[t].unacked = 0]
<1>3. Unmap(s, t) = reset
  BY DEF Unmap
<1> HIDE DEF gone
<1>4. reset = v
  BY <1>2 DEF Server, Reset
<1>5. Unmap(s, t) = v
  BY <1>3, <1>4
<1> HIDE DEF reset
<1>6. /\ gone.win[t] \in Window /\ gone.win[t].output = FALSE
      /\ gone.win[t].sent = s.win[t].sent
      /\ gone.win[t].decoration = s.win[t].decoration
      /\ gone.win[t].deferred = s.win[t].deferred
  BY <1>1, <1>2 DEF Window
<1>7. /\ w \in Window /\ w.output = FALSE /\ w.sent = s.win[t].sent
      /\ w.decoration = s.win[t].decoration /\ w.deferred = s.win[t].deferred
  BY <1>6, ResetWindow
<1> HIDE DEF w
<1>8. Updated(gone, v, t, w) /\ v.asserted = gone.asserted
  BY <1>2, <1>7, PutWindow
<1> HIDE DEF v
<1>9. Unmapped(s, v, t)
  BY <1>2, <1>7, <1>8, LifecycleAssumption DEF Updated, Unmapped
<1> QED BY <1>5, <1>7, <1>8, <1>9 DEF Updated

LEMMA UnmappedSafe ==
    ASSUME NEW s, Safe(s), NEW t \in Toplevels, NEW v, Unmapped(s, v, t),
           ~Unmaps => ~v.win[t].sent,
           v.win[t].deferred => v.win[t].decoration /\ ~v.win[t].sent
    PROVE  Safe(v) /\ Mapped(v) = Mapped(s) \ {t}
<1>1. Mapped(v) = Mapped(s) \ {t}
  BY DEF Unmapped, Mapped
<1>2. MappedInitialized(v) /\ SentInitialized(v) /\ DeferredAlive(v) /\ Named(v)
  BY <1>1 DEF Unmapped, Safe, SafeBut, MappedInitialized, SentInitialized, DeferredAlive,
              Named, Mapped
<1>3. OneActive(v, None)
  <2> SUFFICES ASSUME NEW u \in Mapped(s), u # t
               PROVE  v.win[u].activated <=> v.focused = u
    BY <1>1 DEF OneActive
  <2>1. u \in Toplevels /\ u # None /\ v.win[u] = s.win[u]
    BY LifecycleAssumption DEF Mapped, Unmapped
  <2>2. s.win[u].activated <=> s.focused = u
    BY <2>1 DEF Safe, SafeBut, OneActive
  <2>3. s.focused = u <=> v.focused = u
    BY <2>1 DEF Unmapped
  <2> QED BY <2>1, <2>2, <2>3
<1> QED BY <1>1, <1>2, <1>3 DEF Safe, SafeBut, Unmapped


(***************************************************************************)
(* Handlers that change one window and leave it mapped or unmapped.        *)
(***************************************************************************)
Puts(s, v, t) ==
    /\ v \in Server /\ v.focused = s.focused /\ v.drags = s.drags
    /\ \A u \in Toplevels \ {t} : SameFields(s.win[u], v.win[u])
    /\ ~Unmaps => v.asserted = s.asserted

\* What the new record of t has to satisfy.
Fits(s, w, t) ==
    /\ w.output = s.win[t].output
    /\ w.output => w.initialized /\ w.activated = s.win[t].activated
    /\ ~Unmaps => (w.sent => w.initialized)
    /\ w.deferred => w.decoration /\ ~w.sent

LEMMA PutsSafe ==
    ASSUME NEW s, Safe(s), NEW t \in Toplevels, NEW v, Puts(s, v, t), Fits(s, v.win[t], t)
    PROVE  Safe(v) /\ Mapped(v) = Mapped(s)
<1>1. \A u \in Toplevels : v.win[u].output = s.win[u].output
  BY DEF Puts, Fits, SameFields
<1>2. Mapped(v) = Mapped(s)
  BY <1>1 DEF Mapped
<1>3. MappedInitialized(v)
  BY <1>2 DEF MappedInitialized, Mapped, Safe, SafeBut, Puts, Fits, SameFields
<1>4. SentInitialized(v)
  BY DEF SentInitialized, Safe, SafeBut, Puts, Fits, SameFields
<1>5. DeferredAlive(v)
  BY DEF DeferredAlive, Safe, SafeBut, Puts, Fits, SameFields
<1>6. OneActive(v, None)
  <2> SUFFICES ASSUME NEW u \in Mapped(s), u # None
               PROVE  v.win[u].activated <=> v.focused = u
    BY <1>2 DEF OneActive
  <2>1. u \in Toplevels /\ (s.win[u].activated <=> s.focused = u)
    BY DEF Mapped, Safe, SafeBut, OneActive
  <2>2. v.win[u].activated = s.win[u].activated
    BY <1>1, <2>1 DEF Puts, Fits, SameFields, Mapped
  <2> QED BY <2>1, <2>2 DEF Puts
<1>7. Named(v)
  BY <1>2 DEF Named, Safe, SafeBut, Puts
<1> QED BY <1>2, <1>3, <1>4, <1>5, <1>6, <1>7 DEF Safe, SafeBut, Puts

\* An assignment to fields of one window.
LEMMA EditPuts ==
    ASSUME NEW s \in Server, NEW t \in Toplevels, NEW w \in Window
    PROVE  Puts(s, [s EXCEPT !.win[t] = w], t) /\ [s EXCEPT !.win[t] = w].win[t] = w
<1> DEFINE v == [s EXCEPT !.win[t] = w]
<1>1. Updated(s, v, t, w) /\ v.asserted = s.asserted
  BY PutWindow
<1> HIDE DEF v
<1>2. Puts(s, v, t) /\ v.win[t] = w
  BY <1>1 DEF Updated, Puts, SameFields
<1> QED BY <1>2 DEF v

LEMMA EditSafe ==
    ASSUME NEW s, Safe(s), NEW t \in Toplevels, NEW w \in Window, Fits(s, w, t)
    PROVE  Safe([s EXCEPT !.win[t] = w]) /\ Mapped([s EXCEPT !.win[t] = w]) = Mapped(s)
<1> DEFINE v == [s EXCEPT !.win[t] = w]
<1>1. Puts(s, v, t) /\ v.win[t] = w
  BY EditPuts DEF Safe, SafeBut
<1> HIDE DEF v
<1>2. Safe(v) /\ Mapped(v) = Mapped(s)
  BY <1>1, PutsSafe
<1> QED BY <1>2 DEF v

LEMMA SchedulePuts ==
    ASSUME NEW s \in Server, NEW t \in Toplevels, ~Unmaps => s.win[t].initialized
    PROVE  Puts(s, Schedule(s, t), t) /\ SameFields(s.win[t], Schedule(s, t).win[t])
<1> DEFINE v == Schedule(s, t)
<1>1. SchedulesOnly(s, v, t)
  BY ScheduleSchedulesOnly
<1> HIDE DEF v
<1>2. Puts(s, v, t) /\ SameFields(s.win[t], v.win[t])
  BY <1>1 DEF SchedulesOnly, Puts
<1> QED BY <1>2 DEF v

LEMMA PutsTransitive ==
    ASSUME NEW s, NEW a, NEW b, NEW t \in Toplevels, Puts(s, a, t), Puts(a, b, t)
    PROVE  Puts(s, b, t)
  BY DEF Puts, SameFields

\* surface_commit sends the initial configure and leaves no mode deferred.
CommitsOnly(s, v, t) ==
    /\ Puts(s, v, t)
    /\ v.win[t].output = s.win[t].output /\ v.win[t].initialized = s.win[t].initialized
    /\ v.win[t].decoration = s.win[t].decoration
    /\ v.win[t].activated = s.win[t].activated

LEMMA SurfaceCommitCommits ==
    ASSUME NEW s \in Server, NEW t \in Toplevels, NEW policy \in BOOLEAN,
           ~Unmaps => s.win[t].initialized
    PROVE  /\ CommitsOnly(s, SurfaceCommit(s, t, policy), t)
           /\ ~SurfaceCommit(s, t, policy).win[t].deferred
<1> DEFINE sent == [s.win[t] EXCEPT !.sent = TRUE]
           started == [s EXCEPT !.win[t] = sent]
           first == IF s.win[t].sent THEN s ELSE Schedule(started, t)
           plain == [first.win[t] EXCEPT !.deferred = FALSE]
           cleared == [first EXCEPT !.win[t] = plain]
           decorated == IF first.win[t].deferred THEN Schedule(cleared, t) ELSE first
           v == IF s.win[t].output /\ policy THEN Schedule(decorated, t) ELSE decorated
<1>1. SurfaceCommit(s, t, policy) = v
  BY DEF SurfaceCommit, Server
<1>2. CommitsOnly(s, first, t)
  <2>1. CASE s.win[t].sent
    BY <2>1 DEF CommitsOnly, Puts, SameFields
  <2>2. CASE ~s.win[t].sent
    <3>1. s.win[t] \in Window
      BY DEF Server
    <3>2. /\ sent \in Window /\ sent.output = s.win[t].output
          /\ sent.initialized = s.win[t].initialized
          /\ sent.decoration = s.win[t].decoration /\ sent.activated = s.win[t].activated
      BY <3>1 DEF Window
    <3> HIDE DEF sent
    <3>3. Puts(s, started, t) /\ started.win[t] = sent
      BY <3>2, EditPuts
    <3> HIDE DEF started
    <3>4. Puts(started, Schedule(started, t), t)
          /\ SameFields(started.win[t], Schedule(started, t).win[t])
      <4>1. started \in Server /\ (~Unmaps => started.win[t].initialized)
        BY <3>2, <3>3 DEF Puts
      <4> QED BY <4>1, SchedulePuts
    <3>5. first = Schedule(started, t)
      BY <2>2
    <3> HIDE DEF first
    <3>6. Puts(s, first, t)
      BY <3>3, <3>4, <3>5, PutsTransitive
    <3> QED BY <3>2, <3>3, <3>4, <3>5, <3>6 DEF CommitsOnly, SameFields
  <2> QED BY <2>1, <2>2
<1> HIDE DEF first
<1>3. first \in Server /\ first.win[t] \in Window
      /\ (~Unmaps => first.win[t].initialized)
  BY <1>2 DEF CommitsOnly, Puts, Server
<1>4. CommitsOnly(s, decorated, t) /\ decorated.win[t].deferred = FALSE
  <2>1. CASE first.win[t].deferred
    <3>1. /\ plain \in Window /\ plain.output = first.win[t].output
          /\ plain.initialized = first.win[t].initialized
          /\ plain.decoration = first.win[t].decoration
          /\ plain.activated = first.win[t].activated /\ plain.deferred = FALSE
      BY <1>3 DEF Window
    <3> HIDE DEF plain
    <3>2. Puts(first, cleared, t) /\ cleared.win[t] = plain
      BY <1>3, <3>1, EditPuts
    <3> HIDE DEF cleared
    <3>3. Puts(cleared, Schedule(cleared, t), t)
          /\ SameFields(cleared.win[t], Schedule(cleared, t).win[t])
      <4>1. cleared \in Server /\ (~Unmaps => cleared.win[t].initialized)
        BY <1>3, <3>1, <3>2 DEF Puts
      <4> QED BY <4>1, SchedulePuts
    <3>4. decorated = Schedule(cleared, t)
      BY <2>1
    <3> HIDE DEF decorated
    <3>5. Puts(first, decorated, t)
      BY <3>2, <3>3, <3>4, PutsTransitive
    <3>6. Puts(s, decorated, t)
      BY <1>2, <3>5, PutsTransitive DEF CommitsOnly
    <3> QED BY <1>2, <3>1, <3>2, <3>3, <3>4, <3>6 DEF CommitsOnly, SameFields
  <2>2. CASE ~first.win[t].deferred
    <3>1. first.win[t].deferred = FALSE
      BY <1>3, <2>2 DEF Window
    <3> QED BY <1>2, <2>2, <3>1
  <2> QED BY <2>1, <2>2
<1> HIDE DEF decorated
<1>5. CommitsOnly(s, v, t) /\ ~v.win[t].deferred
  <2>1. decorated \in Server /\ (~Unmaps => decorated.win[t].initialized)
    BY <1>4 DEF CommitsOnly, Puts
  <2>2. Puts(decorated, Schedule(decorated, t), t)
        /\ SameFields(decorated.win[t], Schedule(decorated, t).win[t])
    BY <2>1, SchedulePuts
  <2>3. Puts(s, Schedule(decorated, t), t)
    BY <1>4, <2>2, PutsTransitive DEF CommitsOnly
  <2>4. CommitsOnly(s, Schedule(decorated, t), t)
        /\ ~Schedule(decorated, t).win[t].deferred
    BY <1>4, <2>2, <2>3 DEF CommitsOnly, SameFields
  <2> QED BY <1>4, <2>4
<1> QED BY <1>1, <1>5

LEMMA SurfaceCommitSafe ==
    ASSUME NEW s, Safe(s), NEW t \in Toplevels, NEW policy \in BOOLEAN,
           ~Unmaps => s.win[t].initialized
    PROVE  /\ Safe(SurfaceCommit(s, t, policy))
           /\ Mapped(SurfaceCommit(s, t, policy)) = Mapped(s)
<1> DEFINE v == SurfaceCommit(s, t, policy)
<1>1. CommitsOnly(s, v, t) /\ ~v.win[t].deferred
  BY SurfaceCommitCommits DEF Safe, SafeBut
<1> HIDE DEF v
<1>2. Fits(s, v.win[t], t)
  BY <1>1 DEF CommitsOnly, Fits, Safe, SafeBut, MappedInitialized, Mapped
<1>3. Safe(v) /\ Mapped(v) = Mapped(s)
  BY <1>1, <1>2, PutsSafe DEF CommitsOnly
<1> QED BY <1>3 DEF v

LEMMA ScheduleHandler ==
    ASSUME NEW s, Safe(s), NEW t \in Toplevels, ~Unmaps => s.win[t].initialized
    PROVE  Safe(Schedule(s, t)) /\ Mapped(Schedule(s, t)) = Mapped(s)
<1>1. Safe(Schedule(s, t))
  BY ScheduleSafe DEF Safe
<1>2. SchedulesOnly(s, Schedule(s, t), t)
  BY ScheduleSchedulesOnly DEF Safe, SafeBut
<1> QED BY <1>1, <1>2 DEF SchedulesOnly, SameFields, Mapped

\* A mode that arrives before the initial configure waits, and its decoration
\* object exists.
LEMMA ApplyModeSafe ==
    ASSUME NEW s, Safe(s), NEW t \in Toplevels, s.win[t].decoration
    PROVE  Safe(ApplyMode(s, t)) /\ Mapped(ApplyMode(s, t)) = Mapped(s)
<1>1. CASE s.win[t].sent
  BY <1>1, ScheduleHandler DEF ApplyMode, Safe, SafeBut, SentInitialized
<1>2. CASE ~s.win[t].sent
  <2> DEFINE w == [s.win[t] EXCEPT !.deferred = TRUE]
  <2>1. s \in Server /\ s.win[t] \in Window
    BY DEF Safe, SafeBut, Server
  <2>2. /\ w \in Window /\ w.output = s.win[t].output
        /\ w.initialized = s.win[t].initialized /\ w.activated = s.win[t].activated
        /\ w.sent = s.win[t].sent /\ w.decoration = s.win[t].decoration
    BY <2>1 DEF Window
  <2>3. ApplyMode(s, t) = [s EXCEPT !.win[t] = w]
    BY <1>2, <2>1 DEF ApplyMode, Server
  <2> HIDE DEF w
  <2>4. Fits(s, w, t)
    BY <1>2, <2>2 DEF Fits, Safe, SafeBut, MappedInitialized, Mapped
  <2> QED BY <2>2, <2>3, <2>4, EditSafe
<1> QED BY <1>1, <1>2


(***************************************************************************)
(* The invariant holds initially and every action keeps it.                *)
(***************************************************************************)
LEMMA InitLInv == Init => LInv
<1> SUFFICES ASSUME Init PROVE LInv
  OBVIOUS
<1>1. \A t \in Toplevels : server.win[t] = NoWindow
  BY DEF Init
<1>2. NoWindow \in Window
  BY LifecycleAssumption DEF NoWindow, Window
<1>3. server \in Server /\ server.focused = None /\ server.drags = NoDrag /\ ~server.asserted
  BY <1>2 DEF Init, Server, NoDrag
<1>4. Mapped(server) = {}
  BY <1>1 DEF Mapped, NoWindow
<1>5. Safe(server)
  BY <1>1, <1>3, <1>4
     DEF Safe, SafeBut, MappedInitialized, SentInitialized, DeferredAlive, OneActive,
         Named, NoDrag, NoWindow
<1>6. HostOK
  BY <1>4 DEF Init, HostOK
<1> QED BY <1>5, <1>6 DEF LInv

\* Windows that stay or become mapped leave the host's state in order.
LEMMA HostKept ==
    ASSUME HostOK, UNCHANGED <<hostFocus, pointer, events>>, settled' \in BOOLEAN,
           Mapped(server) \subseteq Mapped(server')
    PROVE  HostOK'
<1>1. Seq([in : BOOLEAN, win : Mapped(server) \cup {None}])
          \subseteq Seq([in : BOOLEAN, win : Mapped(server') \cup {None}])
  BY SeqMonotonic
<1> QED BY <1>1 DEF HostOK

LEMMA WindowGoesOK ==
    ASSUME HostOK, NEW t \in Toplevels, WindowGoes(t), Mapped(server') = Mapped(server) \ {t}
    PROVE  HostOK'
<1> DEFINE E(m) == [in : BOOLEAN, win : m \cup {None}]
<1>1. events \in Seq(E(Mapped(server)))
  BY DEF HostOK
<1>2. Len(events) \in Nat /\ DOMAIN events = 1..Len(events)
      /\ \A i \in 1..Len(events) : events[i] \in E(Mapped(server))
  BY <1>1, LenProperties, ElementOfSeq
<1>3. \A i \in 1..Len(events) : events'[i] \in E(Mapped(server'))
  <2> SUFFICES ASSUME NEW i \in 1..Len(events) PROVE events'[i] \in E(Mapped(server'))
    OBVIOUS
  <2>1. events[i] \in E(Mapped(server))
    BY <1>2
  <2>2. CASE events[i].win = t
    <3>1. events'[i] = [events[i] EXCEPT !.win = None]
      BY <1>2, <2>2 DEF WindowGoes
    <3> QED BY <2>1, <3>1
  <2>3. CASE events[i].win # t
    <3>1. events'[i] = events[i]
      BY <1>2, <2>3 DEF WindowGoes
    <3> QED BY <2>1, <2>3, <3>1
  <2> QED BY <2>2, <2>3
<1> DEFINE n == Len(events)
<1>4. n \in Nat /\ events' = [i \in 1..n |-> events'[i]]
  BY <1>2 DEF WindowGoes
<1>5. events' \in Seq(E(Mapped(server')))
  <2> DEFINE S == E(Mapped(server'))
  <2> HIDE DEF n, E
  <2>1. \A i \in 1..n : events'[i] \in S
    BY <1>3 DEF n
  <2> HIDE DEF S
  <2>2. events' \in [1..n -> S]
    BY <1>4, <2>1
  <2>3. events' \in Seq(S)
    BY <1>4, <2>2, SeqDef
  <2> QED BY <2>3 DEF S
<1> QED BY <1>5 DEF HostOK, WindowGoes

\* An event is taken off the queue; no window is mapped or unmapped.
LEMMA TailOK ==
    ASSUME HostOK, events # <<>>, events' = Tail(events),
           UNCHANGED <<hostFocus, pointer, settled>>, Mapped(server') = Mapped(server)
    PROVE  HostOK'
<1> DEFINE S == [in : BOOLEAN, win : Mapped(server) \cup {None}]
<1>1. events \in Seq(S)
  BY DEF HostOK
<1> HIDE DEF S
<1>2. Tail(events) \in Seq(S)
  BY <1>1, HeadTailProperties
<1> QED BY <1>2 DEF HostOK, S

\* An assignment to fields of one window, as an action.
LEMMA EditLInv ==
    ASSUME LInv, NEW t \in Toplevels, NEW w \in Window, Fits(server, w, t),
           server' = [server EXCEPT !.win[t] = w], UNCHANGED host
    PROVE  LInv'
<1>1. Safe(server') /\ Mapped(server') = Mapped(server)
  BY EditSafe DEF LInv
<1> QED BY <1>1, HostKept DEF LInv, host, HostOK

\* A handler that keeps Safe and leaves the host alone.
LEMMA HandlerLInv ==
    ASSUME LInv, Safe(server'), Mapped(server') = Mapped(server), UNCHANGED host
    PROVE  LInv'
  BY HostKept DEF LInv, host, HostOK

LEMMA WindowKnown ==
    ASSUME LInv, NEW t \in Toplevels
    PROVE  /\ server \in Server /\ server.win[t] \in Window /\ Fits(server, server.win[t], t)
           /\ server = [server EXCEPT !.win[t] = server.win[t]]
<1>1. server \in Server /\ server.win[t] \in Window
  BY DEF LInv, Safe, SafeBut, Server
<1>2. Fits(server, server.win[t], t)
  BY DEF LInv, Safe, SafeBut, MappedInitialized, SentInitialized, DeferredAlive, Mapped, Fits
<1> QED BY <1>1, <1>2 DEF Server

\* A drag starts on a mapped window, or ends.
LEMMA DraggedSafe ==
    ASSUME NEW s, Safe(s), NEW g \in [Drags -> Mapped(s) \cup {None}]
    PROVE  /\ Safe([s EXCEPT !.drags = g])
           /\ Mapped([s EXCEPT !.drags = g]) = Mapped(s)
<1> DEFINE v == [s EXCEPT !.drags = g]
<1>1. s \in Server /\ g \in [Drags -> Toplevels \cup {None}]
  BY DEF Safe, SafeBut, Mapped
<1>2. /\ v \in Server /\ v.win = s.win /\ v.focused = s.focused
      /\ v.drags = g /\ v.asserted = s.asserted
  BY <1>1 DEF Server
<1> HIDE DEF v
<1>3. Mapped(v) = Mapped(s)
  BY <1>2 DEF Mapped
<1>4. Safe(v)
  BY <1>2, <1>3 DEF Safe, SafeBut, MappedInitialized, SentInitialized, DeferredAlive,
                    OneActive, Named
<1> QED BY <1>3, <1>4 DEF v

LEMMA DraggedLInv ==
    ASSUME LInv, NEW g \in [Drags -> Mapped(server) \cup {None}],
           server' = [server EXCEPT !.drags = g], UNCHANGED host
    PROVE  LInv'
  BY DraggedSafe, HandlerLInv DEF LInv

LEMMA ClientLInv ==
    ASSUME LInv, NEW t \in Toplevels, Client(t)
    PROVE  LInv'
<1> DEFINE w == server.win[t]
<1>1. server \in Server /\ w \in Window /\ Fits(server, w, t) /\ Safe(server)
  BY WindowKnown DEF LInv
<1>2. CASE CreateToplevel(t)
  <2> DEFINE x == [w EXCEPT !.live = TRUE]
  <2>1. x \in Window /\ Fits(server, x, t)
    BY <1>1 DEF Window, Fits
  <2>2. server' = [server EXCEPT !.win[t] = x] /\ UNCHANGED host
    BY <1>1, <1>2 DEF CreateToplevel, Server
  <2> HIDE DEF x
  <2> QED BY <2>1, <2>2, EditLInv
<1>3. CASE DestroyToplevel(t)
  <2> DEFINE u == Unmap(server, t)
  <2>1. Unmapped(server, u, t)
    BY <1>1, UnmapUnmaps
  <2>2. server' = [u EXCEPT !.win[t] = NoWindow] /\ WindowGoes(t)
    BY <1>3 DEF DestroyToplevel
  <2> HIDE DEF u
  <2>3. NoWindow \in Window /\ ~NoWindow.output /\ ~NoWindow.sent /\ ~NoWindow.deferred
    BY LifecycleAssumption DEF NoWindow, Window
  <2>4. Updated(u, server', t, NoWindow) /\ server'.asserted = u.asserted
    BY <2>1, <2>2, <2>3, PutWindow DEF Unmapped
  <2>5. Unmapped(server, server', t) /\ server'.win[t] = NoWindow
    BY <2>1, <2>3, <2>4 DEF Updated, Unmapped
  <2>6. Safe(server') /\ Mapped(server') = Mapped(server) \ {t}
    BY <1>1, <2>3, <2>5, UnmappedSafe
  <2> QED BY <2>2, <2>6, WindowGoesOK DEF LInv
<1>4. ASSUME NEW policy \in BOOLEAN, CommitFrame(t, policy) PROVE LInv'
  <2> DEFINE x == [w EXCEPT !.initialized = TRUE]
             m == [server EXCEPT !.win[t] = x]
  <2>1. x \in Window /\ Fits(server, x, t) /\ x.initialized = TRUE
    BY <1>1 DEF Window, Fits
  <2>2. server' = SurfaceCommit(m, t, policy) /\ UNCHANGED host
    BY <1>1, <1>4 DEF CommitFrame, Server
  <2> HIDE DEF x
  <2>3. Safe(m) /\ Mapped(m) = Mapped(server) /\ m.win[t] = x
    BY <1>1, <2>1, EditSafe, EditPuts
  <2> HIDE DEF m
  <2>4. Safe(server') /\ Mapped(server') = Mapped(m)
    BY <2>1, <2>2, <2>3, SurfaceCommitSafe
  <2> QED BY <2>2, <2>3, <2>4, HandlerLInv
<1>5. ASSUME NEW policy \in BOOLEAN, CommitFirstBuffer(t, policy) PROVE LInv'
  <2> DEFINE x == [w EXCEPT !.initialized = TRUE]
             m == [server EXCEPT !.win[t] = x]
  <2>1. x \in Window /\ Fits(server, x, t) /\ x.initialized = TRUE /\ ~x.output
    BY <1>1, <1>5 DEF Window, Fits, CommitFirstBuffer
  <2>2. /\ server' = SurfaceCommit(Map(m, t), t, policy)
        /\ settled' = FALSE /\ UNCHANGED <<hostFocus, pointer, events>>
    BY <1>1, <1>5 DEF CommitFirstBuffer, Server
  <2> HIDE DEF x
  <2>3. Safe(m) /\ Mapped(m) = Mapped(server) /\ m.win[t] = x
    BY <1>1, <2>1, EditSafe, EditPuts
  <2> HIDE DEF m
  <2>4. /\ Safe(Map(m, t)) /\ Map(m, t).win[t].initialized
        /\ Mapped(Map(m, t)) = Mapped(m) \cup {t}
    BY <2>1, <2>3, MapSafe
  <2>5. Safe(server') /\ Mapped(server') = Mapped(m) \cup {t}
    BY <2>2, <2>4, SurfaceCommitSafe
  <2> QED BY <2>2, <2>3, <2>5, HostKept DEF LInv
<1>6. ASSUME NEW policy \in BOOLEAN, CommitNull(t, policy) PROVE LInv'
  <2> DEFINE u == Unmap(server, t)
  <2>1. /\ Unmapped(server, u, t) /\ u.win[t].sent = w.sent
        /\ u.win[t].decoration = w.decoration /\ u.win[t].deferred = w.deferred
    BY <1>1, UnmapUnmaps
  <2>2. Unmaps /\ server' = SurfaceCommit(u, t, policy) /\ WindowGoes(t)
    BY <1>6 DEF CommitNull
  <2> HIDE DEF u
  <2>3. Safe(u) /\ Mapped(u) = Mapped(server) \ {t}
    BY <1>1, <2>1, <2>2, UnmappedSafe DEF Fits
  <2>4. Safe(server') /\ Mapped(server') = Mapped(u)
    BY <2>2, <2>3, SurfaceCommitSafe
  <2> QED BY <2>2, <2>3, <2>4, WindowGoesOK DEF LInv
<1>7. CASE RequestState(t)
  <2>1. CASE w.sent
    <3>1. server' = Schedule(server, t) /\ UNCHANGED host
      BY <1>7, <2>1 DEF RequestState
    <3>2. Safe(server') /\ Mapped(server') = Mapped(server)
      BY <1>1, <2>1, <3>1, ScheduleHandler DEF Fits
    <3> QED BY <3>1, <3>2, HandlerLInv
  <2>2. CASE ~w.sent
    BY <1>1, <1>7, <2>2, HandlerLInv DEF RequestState
  <2> QED BY <2>1, <2>2
<1>8. ASSUME NEW d \in Drags, RequestDrag(t, d) PROVE LInv'
  <2> DEFINE g == [server.drags EXCEPT ![d] = t]
  <2>1. (server' = [server EXCEPT !.drags[d] = t] /\ w.output) \/ server' = server
    BY <1>8 DEF RequestDrag
  <2>2. UNCHANGED host
    BY <1>8 DEF RequestDrag
  <2>3. CASE server' = [server EXCEPT !.drags[d] = t] /\ w.output
    <3>1. server' = [server EXCEPT !.drags = g]
      BY <1>1, <2>3 DEF Server
    <3>2. g \in [Drags -> Mapped(server) \cup {None}]
      BY <1>1, <2>3 DEF Server, Safe, SafeBut, Named, Mapped
    <3> HIDE DEF g
    <3> QED BY <2>2, <3>1, <3>2, DraggedLInv
  <2>4. CASE server' = server
    BY <1>1, <2>2, <2>4, HandlerLInv
  <2> QED BY <2>1, <2>3, <2>4
<1>9. CASE CreateDecoration(t)
  <2> DEFINE x == [w EXCEPT !.decoration = TRUE]
             m == [server EXCEPT !.win[t] = x]
  <2>1. x \in Window /\ Fits(server, x, t) /\ x.decoration = TRUE
    BY <1>1 DEF Window, Fits
  <2>2. server' = ApplyMode(m, t) /\ UNCHANGED host
    BY <1>1, <1>9 DEF CreateDecoration, Server
  <2> HIDE DEF x
  <2>3. Safe(m) /\ Mapped(m) = Mapped(server) /\ m.win[t] = x
    BY <1>1, <2>1, EditSafe, EditPuts
  <2> HIDE DEF m
  <2>4. Safe(server') /\ Mapped(server') = Mapped(m)
    BY <2>1, <2>2, <2>3, ApplyModeSafe
  <2> QED BY <2>2, <2>3, <2>4, HandlerLInv
<1>10. CASE RequestDecoration(t)
  <2>1. Safe(server') /\ Mapped(server') = Mapped(server) /\ UNCHANGED host
    BY <1>1, <1>10, ApplyModeSafe DEF RequestDecoration
  <2> QED BY <2>1, HandlerLInv
<1>11. CASE DestroyDecoration(t)
  <2> DEFINE x == [w EXCEPT !.decoration = FALSE, !.deferred = FALSE]
  <2>1. x \in Window /\ Fits(server, x, t)
    BY <1>1 DEF Window, Fits
  <2>2. server' = [server EXCEPT !.win[t] = x] /\ UNCHANGED host
    BY <1>1, <1>11 DEF DestroyDecoration, Server
  <2> HIDE DEF x
  <2> QED BY <2>1, <2>2, EditLInv
<1> QED BY <1>2, <1>3, <1>4, <1>5, <1>6, <1>7, <1>8, <1>9, <1>10, <1>11 DEF Client

LEMMA ConfigureLInv ==
    ASSUME LInv, NEW t \in Toplevels, SendConfigure(t) \/ AckConfigure(t)
    PROVE  LInv'
<1> DEFINE w == server.win[t]
<1>1. server \in Server /\ w \in Window /\ Fits(server, w, t)
  BY WindowKnown
<1>2. CASE SendConfigure(t)
  <2> DEFINE x == [w EXCEPT !.idle = FALSE, !.unacked = @ + 1]
  <2>1. w.unacked + 1 \in 0..MaxConfigures
    BY <1>1, <1>2, LifecycleAssumption DEF SendConfigure, Window
  <2>2. x \in Window /\ Fits(server, x, t)
    BY <1>1, <2>1 DEF Window, Fits
  <2>3. server' = [server EXCEPT !.win[t] = x] /\ UNCHANGED host
    BY <1>1, <1>2 DEF SendConfigure, Server
  <2> HIDE DEF x
  <2> QED BY <2>2, <2>3, EditLInv
<1>3. CASE AckConfigure(t)
  <2>1. PICK left \in 0..MaxConfigures :
           /\ server' = [server EXCEPT !.win[t].unacked = left, !.win[t].configured = TRUE]
           /\ UNCHANGED host
    BY <1>3 DEF AckConfigure
  <2> DEFINE x == [w EXCEPT !.unacked = left, !.configured = TRUE]
  <2>2. x \in Window /\ Fits(server, x, t)
    BY <1>1 DEF Window, Fits
  <2>3. server' = [server EXCEPT !.win[t] = x]
    BY <1>1, <2>1 DEF Server
  <2> HIDE DEF x
  <2> QED BY <2>1, <2>2, <2>3, EditLInv
<1> QED BY <1>2, <1>3

LEMMA HostLInv ==
    ASSUME LInv, Host
    PROVE  LInv'
<1>1. ASSUME NEW t \in Toplevels \cup {None}, HostFocuses(t) PROVE LInv'
  <2> DEFINE S == [in : BOOLEAN, win : Mapped(server) \cup {None}]
             left == IF hostFocus # None THEN <<[in |-> FALSE, win |-> hostFocus]>> ELSE <<>>
             got == IF t # None THEN <<[in |-> TRUE, win |-> t]>> ELSE <<>>
             lost == [in |-> FALSE, win |-> hostFocus]
             given == [in |-> TRUE, win |-> t]
  <2>1. events \in Seq(S) /\ lost \in S /\ given \in S
    BY <1>1 DEF LInv, HostOK, HostFocuses
  <2>2. events \in Seq(S) /\ left \in Seq(S) /\ got \in Seq(S)
    <3> HIDE DEF S, lost, given
    <3>1. <<>> \in Seq(S) /\ <<lost>> \in Seq(S) /\ <<given>> \in Seq(S)
      BY <2>1
    <3>2. left \in {<<>>, <<lost>>} /\ got \in {<<>>, <<given>>}
      BY DEF lost, given
    <3> HIDE DEF left, got
    <3> QED BY <2>1, <3>1, <3>2
  <2>3. events' = events \o left \o got
    BY <1>1 DEF HostFocuses
  <2>4. events' \in Seq(S)
    <3> HIDE DEF S, left, got
    <3> QED BY <2>2, <2>3, ConcatProperties
  <2> HIDE DEF left, got
  <2> QED BY <1>1, <2>4 DEF HostFocuses, LInv, HostOK
<1>2. ASSUME NEW t \in Toplevels \cup {None}, PointerMoves(t) PROVE LInv'
  BY <1>2 DEF PointerMoves, LInv, HostOK
<1>3. ASSUME NEW t \in Toplevels, HostConfigures(t) PROVE LInv'
  <2>1. server.win[t].initialized /\ server' = Schedule(server, t) /\ UNCHANGED host
    BY <1>3 DEF HostConfigures, LInv, Safe, SafeBut, MappedInitialized
  <2>2. Safe(server') /\ Mapped(server') = Mapped(server)
    BY <2>1, ScheduleHandler DEF LInv
  <2> QED BY <2>1, <2>2, HandlerLInv
<1> QED BY <1>1, <1>2, <1>3 DEF Host

LEMMA DispatchLInv ==
    ASSUME LInv, Dispatch
    PROVE  LInv'
<1>1. ASSUME NEW t \in Mapped(server) \cup {None}
      PROVE  /\ Safe(SetActiveWindow(server, t))
             /\ Mapped(SetActiveWindow(server, t)) = Mapped(server)
  BY SetActiveSafe DEF LInv, Safe
<1>2. CASE HandleFocusIn
  <2> DEFINE e == Head(events)
  <2>1. events # <<>> /\ events' = Tail(events) /\ UNCHANGED <<hostFocus, pointer, settled>>
        /\ server' = IF e.win # None THEN SetActiveWindow(server, e.win) ELSE server
    BY <1>2 DEF HandleFocusIn
  <2>2. e.win \in Mapped(server) \cup {None}
    <3>1. events \in Seq([in : BOOLEAN, win : Mapped(server) \cup {None}])
      BY DEF LInv, HostOK
    <3>2. e \in [in : BOOLEAN, win : Mapped(server) \cup {None}]
      BY <2>1, <3>1, HeadTailProperties
    <3> QED BY <3>2
  <2> HIDE DEF e
  <2>3. Safe(server') /\ Mapped(server') = Mapped(server)
    BY <1>1, <2>1, <2>2 DEF LInv
  <2> QED BY <2>1, <2>3, TailOK DEF LInv
<1>3. ASSUME NEW menu \in MenuAnswers, HandleFocusOut(menu) PROVE LInv'
  <2>1. events # <<>> /\ events' = Tail(events) /\ UNCHANGED <<hostFocus, pointer, settled>>
        /\ server' \in {SetActiveWindow(server, None), server}
    BY <1>3 DEF HandleFocusOut
  <2>2. Safe(server') /\ Mapped(server') = Mapped(server)
    BY <1>1, <2>1 DEF LInv
  <2> QED BY <2>1, <2>2, TailOK DEF LInv
<1>4. ASSUME NEW t \in UnderPointer
      PROVE  /\ Safe(EnterSurface(server, t))
             /\ Mapped(EnterSurface(server, t)) = Mapped(server)
  <2>1. t \in Mapped(server) \cup {None}
    BY DEF UnderPointer, LInv, HostOK
  <2> QED BY <1>1, <2>1 DEF EnterSurface, LInv
<1>5. ASSUME NEW t \in UnderPointer, PointerEnters(t) PROVE LInv'
  <2>1. Safe(server') /\ Mapped(server') = Mapped(server)
    BY <1>4, <1>5 DEF PointerEnters
  <2>2. HostOK'
    BY <1>5, <2>1, HostKept DEF PointerEnters, LInv
  <2> QED BY <2>1, <2>2 DEF LInv
<1>6. ASSUME NEW t \in UnderPointer, ButtonReleased(t) PROVE LInv'
  <2> DEFINE e == EnterSurface(server, t)
  <2>1. Safe(e) /\ Mapped(e) = Mapped(server)
    BY <1>4
  <2>2. server' = [e EXCEPT !.drags = NoDrag] /\ settled' \in BOOLEAN
        /\ UNCHANGED <<hostFocus, pointer, events>>
    BY <1>6 DEF ButtonReleased
  <2> HIDE DEF e
  <2>3. NoDrag \in [Drags -> Mapped(e) \cup {None}]
    BY DEF NoDrag
  <2>4. Safe(server') /\ Mapped(server') = Mapped(server)
    BY <2>1, <2>2, <2>3, DraggedSafe
  <2>5. HostOK'
    BY <2>2, <2>4, HostKept DEF LInv
  <2> QED BY <2>4, <2>5 DEF LInv
<1> QED BY <1>2, <1>3, <1>5, <1>6 DEF Dispatch

LEMMA NextLInv == LInv /\ [Next]_vars => LInv'
<1> SUFFICES ASSUME LInv, [Next]_vars PROVE LInv'
  OBVIOUS
<1>1. ASSUME NEW t \in Toplevels, Client(t) PROVE LInv'
  BY <1>1, ClientLInv
<1>2. ASSUME NEW t \in Toplevels, SendConfigure(t) \/ AckConfigure(t) PROVE LInv'
  BY <1>2, ConfigureLInv
<1>3. CASE Host
  BY <1>3, HostLInv
<1>4. CASE Dispatch
  BY <1>4, DispatchLInv
<1>5. CASE UNCHANGED vars
  BY <1>5, HandlerLInv DEF vars, LInv
<1> QED BY <1>1, <1>2, <1>3, <1>4, <1>5 DEF Next

(***************************************************************************)
(* The host's focus.  Once the host has given a window the focus, the      *)
(* newest focus event is that window's FocusIn, until it is dispatched and *)
(* the window is the active one.                                           *)
(***************************************************************************)
GivenTo(t) == [in |-> TRUE, win |-> t]
FocusComing ==
    settled /\ hostFocus # None =>
       IF events = <<>> THEN server.focused = hostFocus
       ELSE events[Len(events)] = GivenTo(hostFocus)

\* A step of anyone else: it leaves queue and focus alone, or takes activation.
LEMMA OthersComing ==
    ASSUME FocusComing, UNCHANGED <<hostFocus, events>>,
           settled' => settled /\ server'.focused = server.focused
    PROVE  FocusComing'
  BY DEF FocusComing, GivenTo

LEMMA GoesComing ==
    ASSUME HostOK, FocusComing, NEW t \in Toplevels, WindowGoes(t),
           server.focused # t => server'.focused = server.focused
    PROVE  FocusComing'
<1> SUFFICES ASSUME settled', hostFocus' # None
             PROVE  IF events' = <<>> THEN server'.focused = hostFocus'
                    ELSE events'[Len(events')] = GivenTo(hostFocus')
  BY DEF FocusComing, GivenTo
<1>1. settled /\ hostFocus # t /\ hostFocus' = hostFocus /\ hostFocus # None
  BY DEF WindowGoes
<1> DEFINE n == Len(events)
           moved(i) == IF events[i].win = t THEN [events[i] EXCEPT !.win = None] ELSE events[i]
<1>2. n \in Nat /\ DOMAIN events = 1..n /\ (events = <<>> <=> n = 0)
  BY EmptySeq DEF HostOK
<1>3. events' = [i \in 1..n |-> moved(i)]
  BY <1>2 DEF WindowGoes
<1>4. events' \in Seq({moved(i) : i \in 1..n}) /\ Len(events') = n
  <2> HIDE DEF n, moved
  <2>1. events' \in [1..n -> {moved(i) : i \in 1..n}]
    BY <1>3
  <2> QED BY <1>2, <2>1, SeqDef, LenProperties
<1>5. CASE n = 0
  BY <1>1, <1>2, <1>4, <1>5, EmptySeq DEF FocusComing
<1>6. CASE n # 0
  <2>1. events[n] = GivenTo(hostFocus)
    BY <1>1, <1>2, <1>6 DEF FocusComing
  <2>2. events'[n] = moved(n)
    <3> HIDE DEF n, moved
    <3> QED BY <1>2, <1>3, <1>6
  <2>3. moved(n) = events[n]
    BY <1>1, <2>1 DEF GivenTo
  <2>4. events' # <<>>
    BY <1>2, <1>4, <1>6
  <2> QED BY <1>1, <1>4, <2>1, <2>2, <2>3, <2>4
<1> QED BY <1>5, <1>6

LEMMA ApplyModeFocus ==
    ASSUME NEW s \in Server, NEW t \in Toplevels
    PROVE  ApplyMode(s, t).focused = s.focused
<1>1. Schedule(s, t).focused = s.focused
  BY ScheduleUpdates DEF Updated
<1>2. [s EXCEPT !.win[t].deferred = TRUE].focused = s.focused
  BY DEF Server
<1> QED BY <1>1, <1>2 DEF ApplyMode

LEMMA ClientComing ==
    ASSUME LInv, FocusComing, NEW t \in Toplevels, Client(t)
    PROVE  FocusComing'
<1>1. server \in Server /\ Safe(server) /\ server.win[t] \in Window /\ HostOK
  BY WindowKnown DEF LInv
<1>2. CASE server'.focused = server.focused /\ UNCHANGED host
  BY <1>2, OthersComing DEF host
<1>3. CASE DestroyToplevel(t)
  <2>1. Unmapped(server, Unmap(server, t), t)
    BY <1>1, UnmapUnmaps
  <2>2. server' = [Unmap(server, t) EXCEPT !.win[t] = NoWindow] /\ WindowGoes(t)
    BY <1>3 DEF DestroyToplevel
  <2>3. server'.focused = Unmap(server, t).focused
    BY <2>1, <2>2 DEF Unmapped, Server
  <2> QED BY <1>1, <2>1, <2>2, <2>3, GoesComing DEF Unmapped
<1>4. ASSUME NEW policy \in BOOLEAN, CommitNull(t, policy) PROVE FocusComing'
  <2>1. Unmapped(server, Unmap(server, t), t)
    BY <1>1, UnmapUnmaps
  <2>2. Unmaps /\ server' = SurfaceCommit(Unmap(server, t), t, policy) /\ WindowGoes(t)
    BY <1>4 DEF CommitNull
  <2>3. server'.focused = Unmap(server, t).focused
    BY <2>1, <2>2, SurfaceCommitCommits DEF Unmapped, CommitsOnly, Puts
  <2> QED BY <1>1, <2>1, <2>2, <2>3, GoesComing DEF Unmapped
<1>5. ASSUME NEW policy \in BOOLEAN, CommitFrame(t, policy) PROVE FocusComing'
  <2> DEFINE x == [server.win[t] EXCEPT !.initialized = TRUE]
             m == [server EXCEPT !.win[t] = x]
  <2>1. x \in Window /\ x.initialized = TRUE
    BY <1>1 DEF Window
  <2>2. server' = SurfaceCommit(m, t, policy) /\ UNCHANGED host
    BY <1>1, <1>5 DEF CommitFrame, Server
  <2> HIDE DEF x
  <2>3. m \in Server /\ m.win[t] = x /\ m.focused = server.focused
    BY <1>1, <2>1, PutWindow DEF Updated
  <2> HIDE DEF m
  <2>4. server'.focused = m.focused
    BY <2>1, <2>2, <2>3, SurfaceCommitCommits DEF CommitsOnly, Puts
  <2> QED BY <1>2, <2>2, <2>3, <2>4
<1>6. ASSUME NEW policy \in BOOLEAN, CommitFirstBuffer(t, policy) PROVE FocusComing'
  BY <1>6, OthersComing DEF CommitFirstBuffer
<1>7. CASE RequestState(t)
  <2>1. Schedule(server, t).focused = server.focused
    BY <1>1, ScheduleUpdates DEF Updated
  <2> QED BY <1>2, <1>7, <2>1 DEF RequestState
<1>8. CASE CreateDecoration(t)
  <2> DEFINE x == [server.win[t] EXCEPT !.decoration = TRUE]
             m == [server EXCEPT !.win[t] = x]
  <2>1. x \in Window
    BY <1>1 DEF Window
  <2>2. server' = ApplyMode(m, t) /\ UNCHANGED host
    BY <1>1, <1>8 DEF CreateDecoration, Server
  <2> HIDE DEF x
  <2>3. m \in Server /\ m.focused = server.focused
    BY <1>1, <2>1, PutWindow DEF Updated
  <2> HIDE DEF m
  <2> QED BY <1>2, <2>2, <2>3, ApplyModeFocus
<1>9. CASE RequestDecoration(t)
  BY <1>1, <1>2, <1>9, ApplyModeFocus DEF RequestDecoration
<1>10. CASE CreateToplevel(t) \/ DestroyDecoration(t) \/ \E d \in Drags : RequestDrag(t, d)
  <2>1. UNCHANGED host
    BY <1>10 DEF CreateToplevel, DestroyDecoration, RequestDrag
  <2>2. server'.focused = server.focused
    BY <1>1, <1>10 DEF CreateToplevel, DestroyDecoration, RequestDrag, Server
  <2> QED BY <1>2, <2>1, <2>2
<1> QED BY <1>3, <1>4, <1>5, <1>6, <1>7, <1>8, <1>9, <1>10 DEF Client

LEMMA HostComing ==
    ASSUME LInv, FocusComing, Host
    PROVE  FocusComing'
<1>1. ASSUME NEW t \in Toplevels \cup {None}, HostFocuses(t) PROVE FocusComing'
  <2> DEFINE S == [in : BOOLEAN, win : Toplevels \cup {None}]
             left == IF hostFocus # None THEN <<[in |-> FALSE, win |-> hostFocus]>> ELSE <<>>
  <2>1. hostFocus' = t
    BY <1>1 DEF HostFocuses
  <2>2. CASE t = None
    BY <2>1, <2>2 DEF FocusComing
  <2>3. CASE t # None
    <3>1. events' = (events \o left) \o <<GivenTo(t)>>
      BY <1>1, <2>3 DEF HostFocuses, GivenTo
    <3>2. events \o left \in Seq(S) /\ GivenTo(t) \in S
      <4> DEFINE Mine == [in : BOOLEAN, win : Mapped(server) \cup {None}]
      <4>1. Mine \subseteq S /\ events \in Seq(Mine)
        BY DEF Mapped, LInv, HostOK
      <4>2. events \in Seq(S)
        <5> HIDE DEF Mine, S
        <5> QED BY <4>1, SeqMonotonic
      <4>3. hostFocus \in Toplevels \cup {None}
        BY DEF LInv, HostOK, Mapped
      <4>4. [in |-> FALSE, win |-> hostFocus] \in S /\ GivenTo(t) \in S
        BY <4>3 DEF GivenTo
      <4>5. left \in Seq(S)
        <5> DEFINE lost == [in |-> FALSE, win |-> hostFocus]
        <5> HIDE DEF S
        <5>1. left \in {<<>>, <<lost>>} /\ lost \in S
          BY <4>4
        <5> HIDE DEF left, lost
        <5>2. <<>> \in Seq(S) /\ <<lost>> \in Seq(S)
          BY <5>1
        <5> QED BY <5>1, <5>2
      <4> HIDE DEF S, left
      <4> QED BY <4>2, <4>4, <4>5, ConcatProperties
    <3> HIDE DEF S, left
    <3> DEFINE q == events \o left
    <3>3. q \in Seq(S) /\ <<GivenTo(t)>> \in Seq(S) /\ Len(<<GivenTo(t)>>) = 1
      BY <3>2
    <3> HIDE DEF q
    <3>4. events' = q \o <<GivenTo(t)>>
      BY <3>1 DEF q
    <3>5. Len(events') = Len(q) + 1 /\ events'[Len(q) + 1] = GivenTo(t) /\ events' # <<>>
      BY <3>3, <3>4, ConcatProperties
    <3> QED BY <2>1, <3>5 DEF FocusComing, GivenTo
  <2> QED BY <2>2, <2>3
<1>2. ASSUME NEW t \in Toplevels \cup {None}, PointerMoves(t) PROVE FocusComing'
  BY <1>2, OthersComing DEF PointerMoves
<1>3. ASSUME NEW t \in Toplevels, HostConfigures(t) PROVE FocusComing'
  <2>1. Schedule(server, t).focused = server.focused
    BY ScheduleUpdates DEF Updated, LInv, Safe, SafeBut
  <2> QED BY <1>3, <2>1, OthersComing DEF HostConfigures, host
<1> QED BY <1>1, <1>2, <1>3 DEF Host

\* The newest event is FocusIn for the window with the host's focus: the last
\* dispatch activates that window, those before it leave the newest in the queue.
LEMMA DispatchComing ==
    ASSUME LInv, FocusComing, Dispatch
    PROVE  FocusComing'
<1> DEFINE S == [in : BOOLEAN, win : Mapped(server) \cup {None}]
<1>1. events \in Seq(S)
  BY DEF LInv, HostOK
<1>2. ASSUME events # <<>>, events' = Tail(events), UNCHANGED <<hostFocus, settled>>,
             Head(events) = GivenTo(hostFocus) /\ hostFocus # None
                => server'.focused = hostFocus
      PROVE  FocusComing'
  <2> SUFFICES ASSUME settled, hostFocus # None
               PROVE  IF events' = <<>> THEN server'.focused = hostFocus
                      ELSE events'[Len(events')] = GivenTo(hostFocus)
    BY <1>2 DEF FocusComing, GivenTo
  <2>1. events[Len(events)] = GivenTo(hostFocus)
    BY <1>2 DEF FocusComing
  <2> HIDE DEF S
  <2>2. /\ Len(events) \in Nat \ {0} /\ Head(events) = events[1]
        /\ Len(events') = Len(events) - 1
        /\ \A i \in 1..(Len(events) - 1) : events'[i] = events[i + 1]
        /\ events' \in Seq(S)
    BY <1>1, <1>2, HeadTailProperties
  <2>3. CASE Len(events) = 1
    <3>1. Head(events) = GivenTo(hostFocus) /\ events' = <<>>
      BY <2>1, <2>2, <2>3, EmptySeq
    <3> QED BY <1>2, <3>1
  <2>4. CASE Len(events) # 1
    <3>1. Len(events) - 1 \in 1..(Len(events) - 1)
      BY <2>2, <2>4
    <3>2. events'[Len(events) - 1] = events[(Len(events) - 1) + 1]
      BY <2>2, <3>1
    <3>3. (Len(events) - 1) + 1 = Len(events)
      BY <2>2
    <3>4. events'[Len(events')] = GivenTo(hostFocus)
      BY <2>1, <2>2, <3>2, <3>3
    <3>5. events' # <<>>
      BY <2>2, <3>1
    <3> QED BY <3>4, <3>5
  <2> QED BY <2>3, <2>4
<1>3. ASSUME NEW t \in Mapped(server) PROVE SetActiveWindow(server, t).focused = t
  <2>1. server \in Server /\ t \in Toplevels /\ server.win[t].initialized
        /\ (server.focused # None => server.win[server.focused].initialized)
    BY DEF LInv, Safe, SafeBut, Mapped, MappedInitialized, Named
  <2>2. CASE server.focused = t
    BY <2>2 DEF SetActiveWindow
  <2>3. CASE server.focused # t
    <3>1. t \in Toplevels \cup {None}
      BY <2>1
    <3>2. MovesActivation(server, SetActiveWindow(server, t), t)
      BY <2>1, <2>3, <3>1, SetActiveMoves, Zenon
    <3> QED BY <3>2, Zenon DEF MovesActivation
  <2> QED BY <2>2, <2>3
<1>4. CASE HandleFocusIn
  <2>1. ASSUME Head(events) = GivenTo(hostFocus), hostFocus # None
        PROVE  server'.focused = hostFocus
    <3>1. hostFocus \in Mapped(server)
      BY <2>1 DEF LInv, HostOK
    <3>2. server' = SetActiveWindow(server, hostFocus)
      BY <1>4, <2>1 DEF HandleFocusIn, GivenTo
    <3> QED BY <1>3, <3>1, <3>2
  <2> QED BY <1>2, <1>4, <2>1 DEF HandleFocusIn
<1>5. ASSUME NEW menu \in MenuAnswers, HandleFocusOut(menu) PROVE FocusComing'
  <2>1. Head(events) # GivenTo(hostFocus)
    BY <1>5 DEF HandleFocusOut, GivenTo
  <2> QED BY <1>2, <1>5, <2>1 DEF HandleFocusOut
<1>6. ASSUME NEW t \in UnderPointer, PointerEnters(t) PROVE FocusComing'
  BY <1>6, OthersComing DEF PointerEnters
<1>7. ASSUME NEW t \in UnderPointer, ButtonReleased(t) PROVE FocusComing'
  BY <1>7, OthersComing DEF ButtonReleased
<1> QED BY <1>4, <1>5, <1>6, <1>7 DEF Dispatch

LEMMA NextComing == LInv /\ FocusComing /\ [Next]_vars => FocusComing'
<1> SUFFICES ASSUME LInv, FocusComing, [Next]_vars PROVE FocusComing'
  OBVIOUS
<1>1. ASSUME NEW t \in Toplevels, Client(t) PROVE FocusComing'
  BY <1>1, ClientComing
<1>2. ASSUME NEW t \in Toplevels, SendConfigure(t) \/ AckConfigure(t) PROVE FocusComing'
  <2>1. UNCHANGED host
    BY <1>2 DEF SendConfigure, AckConfigure
  <2>2. server'.focused = server.focused
    BY <1>2 DEF SendConfigure, AckConfigure, LInv, Safe, SafeBut, Server
  <2> QED BY <2>1, <2>2, OthersComing DEF host
<1>3. CASE Host
  BY <1>3, HostComing
<1>4. CASE Dispatch
  BY <1>4, DispatchComing
<1>5. CASE UNCHANGED vars
  BY <1>5, OthersComing DEF vars, host
<1> QED BY <1>1, <1>2, <1>3, <1>4, <1>5 DEF Next

(***************************************************************************)
(* The theorems.                                                           *)
(***************************************************************************)
\* The inductive invariant of every behaviour, with or without fairness.
THEOREM Inductive == Spec => []LInv
  BY InitLInv, NextLInv, PTL DEF Spec

\* Every variable keeps its type, and a decoration mode waits only while its
\* decoration object exists: wlx_decoration_apply_mode and decoration_destroy.
THEOREM TypeCorrect == Spec => []TypeOK
<1>1. LInv => TypeOK
  <2> SUFFICES ASSUME LInv PROVE TypeOK
    OBVIOUS
  <2> DEFINE Mine == [in : BOOLEAN, win : Mapped(server) \cup {None}]
             Any == [in : BOOLEAN, win : Toplevels \cup {None}]
  <2>1. Mapped(server) \cup {None} \subseteq Toplevels \cup {None}
    BY DEF Mapped
  <2>2. Mine \subseteq Any /\ events \in Seq(Mine)
    BY <2>1 DEF LInv, HostOK
  <2>3. events \in Seq(Any)
    <3> HIDE DEF Mine, Any
    <3> QED BY <2>2, SeqMonotonic
  <2> QED BY <2>1, <2>3 DEF LInv, Safe, SafeBut, DeferredAlive, HostOK, TypeOK
<1> QED BY <1>1, Inductive, PTL

\* set_active_window and output_destroy: of the mapped windows exactly
\* focused_window is activated.
THEOREM OneActiveWindow == Spec => []ActiveIsFocused
<1>1. LInv => ActiveIsFocused
  BY LifecycleAssumption DEF LInv, Safe, SafeBut, OneActive, ActiveIsFocused, Mapped
<1> QED BY <1>1, Inductive, PTL

\* output_destroy clears every pointer to the window it unmaps.
THEOREM NoDanglingWindow == Spec => []NamedWindowsMapped
<1>1. LInv => NamedWindowsMapped
  BY DEF LInv, Safe, SafeBut, Named, NamedWindowsMapped
<1> QED BY <1>1, Inductive, PTL

\* Unless clients unmap a toplevel they keep, initial_configure_sent guards
\* wlroots' assert(surface->initialized) in every handler.
THEOREM LegalConfigures ==
    ASSUME ~Unmaps
    PROVE  Spec => []ConfiguresAreLegal
<1>1. LInv => ConfiguresAreLegal
  BY DEF LInv, Safe, SafeBut, SentInitialized, ConfiguresAreLegal
<1> QED BY <1>1, Inductive, PTL

\* FocusIn and FocusOut against maps, unmaps, clicks and pointer moves: the window
\* the host gave the focus is focused_window once its events are dispatched.
THEOREM HostFocus == Spec => []HostFocusWins
<1>1. Init => FocusComing
  BY DEF Init, FocusComing
<1>2. LInv /\ FocusComing /\ [Next]_vars => FocusComing'
  BY NextComing
<1>3. FocusComing => HostFocusWins
  BY DEF FocusComing, HostFocusWins
<1> QED BY <1>1, <1>2, <1>3, Inductive, PTL DEF Spec

(***************************************************************************)
(* ToplevelLifecycle implements WindowStages, for any number of toplevels, *)
(* whether or not clients unmap.  On the states of LInv, the window that   *)
(* was told it is active is focused_window; what remains is that a toplevel*)
(* that does not exist has nothing scheduled (NothingDead).                *)
(***************************************************************************)
\* No handler touches a toplevel before get_toplevel or after its destruction.
NothingDead(s) == \A t \in Toplevels : ~s.win[t].live => s.win[t] = NoWindow

RInv == LInv /\ NothingDead(server)

StageOf(s) == [t \in Toplevels |-> Stage(s.win[t])]

LEMMA ActiveIsFocusedWindow ==
    ASSUME NEW s, Safe(s)
    PROVE  Active(s) = s.focused
<1>1. s.focused \in Mapped(s) \cup {None} /\ None \notin Mapped(s)
  BY LifecycleAssumption DEF Safe, SafeBut, Named, Mapped
<1>2. \A t \in Mapped(s) : s.win[t].activated <=> s.focused = t
  BY <1>1 DEF Safe, SafeBut, OneActive
<1>3. CASE s.focused = None
  BY <1>1, <1>2, <1>3 DEF Active, Told
<1>4. CASE s.focused # None
  <2>1. Told(s) = {s.focused}
    BY <1>1, <1>2, <1>4 DEF Told
  <2> QED BY <2>1 DEF Active
<1> QED BY <1>3, <1>4

LEMMA StageDef ==
    ASSUME NEW w \in Window
    PROVE  /\ Stage(w) = "absent" <=> ~w.live
           /\ Stage(w) = "shown" <=> w.live /\ w.output
           /\ Stage(w) = "ready" <=> w.live /\ ~w.output /\ w.configured
           /\ Stage(w) = "waiting" <=> w.live /\ ~w.output /\ ~w.configured
  BY DEF Stage, Window

LEMMA MappedIsShown ==
    ASSUME NEW s \in Server, NothingDead(s)
    PROVE  Mapped(s) = {t \in Toplevels : StageOf(s)[t] = "shown"}
<1> SUFFICES ASSUME NEW t \in Toplevels
             PROVE  s.win[t].output <=> Stage(s.win[t]) = "shown"
  BY DEF Mapped, StageOf
<1>1. s.win[t] \in Window
  BY DEF Server
<1>2. s.win[t].output => s.win[t].live
  BY DEF NothingDead, NoWindow
<1> QED BY <1>1, <1>2, StageDef

(***************************************************************************)
(* Helpers that leave every toplevel in its stage.                         *)
(***************************************************************************)
SameStage(w, x) == x.live = w.live /\ x.output = w.output /\ x.configured = w.configured

\* v is s with no stage changed, no drag ended and no toplevel touched that does not
\* exist.
Keeps(s, v) ==
    /\ v.drags = s.drags
    /\ \A u \in Toplevels :
        SameStage(s.win[u], v.win[u]) /\ (~s.win[u].live => v.win[u] = s.win[u])

LEMMA KeepsTransitive ==
    ASSUME NEW s, NEW v, NEW x, Keeps(s, v), Keeps(v, x)
    PROVE  Keeps(s, x)
  BY DEF Keeps, SameStage

LEMMA KeepsStages ==
    ASSUME NEW s, NEW v, NothingDead(s), Keeps(s, v)
    PROVE  NothingDead(v) /\ StageOf(v) = StageOf(s)
<1>1. NothingDead(v)
  BY DEF NothingDead, Keeps, SameStage
<1>2. \A u \in Toplevels : Stage(v.win[u]) = Stage(s.win[u])
  BY DEF Keeps, SameStage, Stage
<1> QED BY <1>1, <1>2 DEF StageOf

LEMMA UpdateKeeps ==
    ASSUME NEW s, NEW v, NEW t \in Toplevels, NEW w, Updated(s, v, t, w),
           SameStage(s.win[t], w), s.win[t].live
    PROVE  Keeps(s, v)
  BY DEF Updated, Keeps, SameStage

LEMMA PutKeeps ==
    ASSUME NEW s \in Server, NEW t \in Toplevels, NEW w \in Window,
           SameStage(s.win[t], w), s.win[t].live
    PROVE  Keeps(s, [s EXCEPT !.win[t] = w]) /\ [s EXCEPT !.win[t] = w] \in Server
<1> DEFINE v == [s EXCEPT !.win[t] = w]
<1>1. Updated(s, v, t, w)
  BY PutWindow
<1> HIDE DEF v
<1>2. Keeps(s, v) /\ v \in Server
  BY <1>1, UpdateKeeps DEF Updated
<1> QED BY <1>2 DEF v

LEMMA ScheduleKeeps ==
    ASSUME NEW s \in Server, NEW t \in Toplevels, s.win[t].live
    PROVE  Keeps(s, Schedule(s, t)) /\ Schedule(s, t) \in Server
<1> DEFINE v == Schedule(s, t)
           w == [s.win[t] EXCEPT !.idle = TRUE]
<1>1. Updated(s, v, t, w)
  BY ScheduleUpdates
<1>2. s.win[t] \in Window
  BY DEF Server
<1>3. SameStage(s.win[t], w)
  BY <1>2 DEF Window, SameStage
<1> HIDE DEF v, w
<1>4. Keeps(s, v) /\ v \in Server
  BY <1>1, <1>3, UpdateKeeps DEF Updated
<1> QED BY <1>4 DEF v

LEMMA SetActivatedKeeps ==
    ASSUME NEW s \in Server, NEW t \in Toplevels, NEW on \in BOOLEAN, s.win[t].live
    PROVE  Keeps(s, SetActivated(s, t, on)) /\ SetActivated(s, t, on) \in Server
<1> DEFINE w == [s.win[t] EXCEPT !.activated = on]
           m == [s EXCEPT !.win[t] = w]
<1>1. s.win[t] \in Window
  BY DEF Server
<1>2. w \in Window /\ SameStage(s.win[t], w)
  BY <1>1 DEF Window, SameStage
<1>3. SetActivated(s, t, on) = Schedule(m, t)
  BY <1>1 DEF SetActivated, Server
<1> HIDE DEF w
<1>4. Keeps(s, m) /\ m \in Server
  BY <1>2, PutKeeps
<1> HIDE DEF m
<1>5. m.win[t].live
  BY <1>4 DEF Keeps, SameStage
<1>6. Keeps(m, Schedule(m, t)) /\ Schedule(m, t) \in Server
  BY <1>4, <1>5, ScheduleKeeps
<1> QED BY <1>3, <1>4, <1>6, KeepsTransitive

LEMMA SetActiveKeeps ==
    ASSUME NEW s \in Server, NEW t \in Toplevels \cup {None},
           s.focused # None => s.win[s.focused].live, t # None => s.win[t].live
    PROVE  Keeps(s, SetActiveWindow(s, t)) /\ SetActiveWindow(s, t) \in Server
<1> DEFINE left == IF s.focused # None THEN SetActivated(s, s.focused, FALSE) ELSE s
           moved == [left EXCEPT !.focused = t]
           v == IF t # None THEN SetActivated(moved, t, TRUE) ELSE moved
<1>0. Keeps(s, s)
  BY DEF Keeps, SameStage
<1>1. CASE s.focused = t
  BY <1>0, <1>1 DEF SetActiveWindow
<1>2. CASE s.focused # t
  <2>1. SetActiveWindow(s, t) = v
    BY <1>2 DEF SetActiveWindow
  <2>2. Keeps(s, left) /\ left \in Server
    <3>1. s.focused # None => s.focused \in Toplevels
      BY DEF Server
    <3> QED BY <1>0, <3>1, SetActivatedKeeps
  <2> HIDE DEF left
  <2>3. moved \in Server /\ moved.win = left.win /\ moved.drags = left.drags
    BY <2>2 DEF Server
  <2> HIDE DEF moved
  <2>4. Keeps(s, moved) /\ (t # None => moved.win[t].live)
    BY <2>2, <2>3 DEF Keeps, SameStage
  <2>5. Keeps(s, v) /\ v \in Server
    BY <2>3, <2>4, SetActivatedKeeps, KeepsTransitive
  <2> QED BY <2>1, <2>5
<1> QED BY <1>1, <1>2

LEMMA SurfaceCommitKeeps ==
    ASSUME NEW s \in Server, NEW t \in Toplevels, NEW policy \in BOOLEAN, s.win[t].live
    PROVE  Keeps(s, SurfaceCommit(s, t, policy))
<1> DEFINE sent == [s.win[t] EXCEPT !.sent = TRUE]
           started == [s EXCEPT !.win[t] = sent]
           first == IF s.win[t].sent THEN s ELSE Schedule(started, t)
           plain == [first.win[t] EXCEPT !.deferred = FALSE]
           cleared == [first EXCEPT !.win[t] = plain]
           decorated == IF first.win[t].deferred THEN Schedule(cleared, t) ELSE first
           v == IF s.win[t].output /\ policy THEN Schedule(decorated, t) ELSE decorated
<1>0. Keeps(s, s)
  BY DEF Keeps, SameStage
<1>1. SurfaceCommit(s, t, policy) = v
  BY DEF SurfaceCommit, Server
<1>2. Keeps(s, first) /\ first \in Server
  <2>1. s.win[t] \in Window
    BY DEF Server
  <2>2. sent \in Window /\ SameStage(s.win[t], sent)
    BY <2>1 DEF Window, SameStage
  <2> HIDE DEF sent
  <2>3. Keeps(s, started) /\ started \in Server
    BY <2>2, PutKeeps
  <2> HIDE DEF started
  <2>4. Keeps(started, Schedule(started, t)) /\ Schedule(started, t) \in Server
    BY <2>3, ScheduleKeeps DEF Keeps, SameStage
  <2> QED BY <1>0, <2>3, <2>4, KeepsTransitive
<1> HIDE DEF first
<1>3. Keeps(s, decorated) /\ decorated \in Server
  <2>1. first.win[t] \in Window /\ first.win[t].live
    BY <1>2 DEF Server, Keeps, SameStage
  <2>2. plain \in Window /\ SameStage(first.win[t], plain)
    BY <2>1 DEF Window, SameStage
  <2> HIDE DEF plain
  <2>3. Keeps(first, cleared) /\ cleared \in Server
    BY <1>2, <2>1, <2>2, PutKeeps
  <2> HIDE DEF cleared
  <2>4. Keeps(cleared, Schedule(cleared, t)) /\ Schedule(cleared, t) \in Server
    BY <2>1, <2>3, ScheduleKeeps DEF Keeps, SameStage
  <2>5. Keeps(first, Schedule(cleared, t))
    BY <2>3, <2>4, KeepsTransitive
  <2> QED BY <1>2, <2>4, <2>5, KeepsTransitive
<1> HIDE DEF decorated
<1>4. Keeps(decorated, Schedule(decorated, t))
  BY <1>3, ScheduleKeeps DEF Keeps, SameStage
<1>5. Keeps(s, v)
  BY <1>3, <1>4, KeepsTransitive
<1> QED BY <1>1, <1>5

(***************************************************************************)
(* The steps.                                                              *)
(***************************************************************************)
\* A handler that changes no stage and at most moves activation.
LEMMA ActivationStep ==
    ASSUME LInv, NothingDead(server), Safe(server'), Keeps(server, server')
    PROVE  NothingDead(server') /\ [Stages!Next]_(Stages!vars)
<1>1. NothingDead(server') /\ StageOf(server') = StageOf(server)
  BY KeepsStages
<1>2. Active(server) = server.focused /\ Active(server') = server'.focused
  BY ActiveIsFocusedWindow DEF LInv
<1>3. server' \in Server /\ server'.focused \in Mapped(server') \cup {None}
  BY DEF Safe, SafeBut, Named
<1>4. Mapped(server') = {t \in Toplevels : StageOf(server)[t] = "shown"}
  BY <1>1, <1>3, MappedIsShown
<1>5. server'.focused \in Stages!Shown \cup {None}
  BY <1>3, <1>4 DEF Stages!Shown, StageOf
<1>6. Stages!Activate(server'.focused)
  BY <1>1, <1>2, <1>5 DEF Stages!Activate, StageOf, Keeps
<1>7. server'.focused \in Toplevels \cup {None}
  BY <1>3 DEF Server
<1> QED BY <1>1, <1>6, <1>7 DEF Stages!Next

\* t alone goes to another stage.
StageSet(s, v, t, next) == StageOf(v) = [StageOf(s) EXCEPT ![t] = next]

LEMMA UpdatedStages ==
    ASSUME NEW s, NEW v, NEW t \in Toplevels, NEW w, Updated(s, v, t, w)
    PROVE  StageSet(s, v, t, Stage(w))
<1>1. \A u \in Toplevels : v.win[u] = IF u = t THEN w ELSE s.win[u]
  BY DEF Updated
<1> QED BY <1>1, Zenon DEF StageOf, StageSet

\* get_toplevel and the first acknowledgement: one toplevel goes to the next stage.
LEMMA OneStage ==
    ASSUME LInv, NothingDead(server), NEW t \in Toplevels, NEW w \in Window, w.live,
           Fits(server, w, t), server' = [server EXCEPT !.win[t] = w]
    PROVE  /\ NothingDead(server')
           /\ StageSet(server, server', t, Stage(w))
           /\ Active(server') = Active(server) /\ server'.drags = server.drags
<1>1. Updated(server, server', t, w)
  BY PutWindow DEF LInv, Safe, SafeBut
<1>2. Safe(server')
  BY EditSafe DEF LInv
<1>3. NothingDead(server')
  BY <1>1 DEF NothingDead, Updated
<1>4. StageSet(server, server', t, Stage(w))
  BY <1>1, UpdatedStages
<1> QED BY <1>1, <1>2, <1>3, <1>4, ActiveIsFocusedWindow DEF Updated, LInv

\* output_destroy ends activation and drags of the window that goes, and no others.
LEMMA UnmapLeaves ==
    ASSUME NEW s, Safe(s), NEW t \in Toplevels
    PROVE  /\ Unmap(s, t).drags = [d \in Drags |-> IF s.drags[d] = t THEN None ELSE s.drags[d]]
           /\ Unmap(s, t).win[t].live = s.win[t].live
           /\ Unmap(s, t).win[t].configured = FALSE
<1> DEFINE gone == IF s.win[t].output THEN OutputDestroy(s, t) ELSE s
           reset == [gone EXCEPT !.win[t].initialized = FALSE, !.win[t].configured = FALSE,
                                 !.win[t].idle = FALSE, !.win[t].unacked = 0]
           left == [d \in Drags |-> IF s.drags[d] = t THEN None ELSE s.drags[d]]
<1>1. s \in Server /\ s.win[t] \in Window
  BY DEF Safe, SafeBut, Server
<1>2. gone \in [win : [Toplevels -> Window], focused : Toplevels \cup {None},
               drags : [Drags -> Toplevels \cup {None}], asserted : BOOLEAN]
  <2>1. [s.win[t] EXCEPT !.output = FALSE] \in Window
    BY <1>1 DEF Window
  <2> QED BY <1>1, <2>1 DEF OutputDestroy, Server
<1>3. gone.drags = left
  <2>1. CASE s.win[t].output
    BY <1>1, <2>1 DEF OutputDestroy, Server
  <2>2. CASE ~s.win[t].output
    <3>1. \A d \in Drags : s.drags[d] # t
      BY <2>2, LifecycleAssumption DEF Safe, SafeBut, Named, Mapped
    <3> QED BY <1>1, <2>2, <3>1 DEF Server
  <2> QED BY <2>1, <2>2
<1>4. gone.win[t].live = s.win[t].live /\ gone.win[t] \in Window
  <2>1. CASE s.win[t].output
    <3>1. gone.win[t] = [s.win[t] EXCEPT !.output = FALSE]
      BY <1>1, <2>1 DEF OutputDestroy, Server
    <3> HIDE DEF gone
    <3> QED BY <1>1, <3>1 DEF Window
  <2>2. CASE ~s.win[t].output
    BY <1>1, <2>2
  <2> QED BY <2>1, <2>2
<1>5. Unmap(s, t) = reset
  BY DEF Unmap
<1> HIDE DEF gone, left
<1>6. reset.win[t] = Reset(gone.win[t]) /\ reset.drags = gone.drags
  BY <1>2, <1>4 DEF Reset
<1>7. Reset(gone.win[t]).live = gone.win[t].live /\ Reset(gone.win[t]).configured = FALSE
  BY <1>4 DEF Reset, Window
<1> HIDE DEF reset
<1> QED BY <1>3, <1>4, <1>5, <1>6, <1>7 DEF left

\* What Hide and Destroy have in common: v is the state without t's window.
LEMMA LeaveStep ==
    ASSUME LInv, NothingDead(server), NEW t \in Toplevels, NEW v, NEW next,
           Unmapped(server, v, t), Stage(v.win[t]) = next,
           v.drags = [d \in Drags |-> IF server.drags[d] = t THEN None ELSE server.drags[d]],
           Keeps(v, server'), Safe(server'), Safe(v), server'.focused = v.focused,
           ~v.win[t].live => v.win[t] = NoWindow
    PROVE  NothingDead(server') /\ Stages!Leave(t, next)
<1>1. NothingDead(v)
  BY DEF NothingDead, Unmapped
<1>2. NothingDead(server') /\ StageOf(server') = StageOf(v)
  BY <1>1, KeepsStages
<1>3. StageOf(v) = [StageOf(server) EXCEPT ![t] = next]
  BY DEF StageOf, Unmapped
<1>4. Active(server) = server.focused /\ Active(server') = v.focused
  BY ActiveIsFocusedWindow DEF LInv
<1>5. v.focused = IF server.focused = t THEN None ELSE server.focused
  BY LifecycleAssumption DEF Unmapped
<1>6. server'.drags = v.drags
  BY DEF Keeps
<1>7. [t_1 \in Toplevels |-> Stage(server'.win[t_1])]
       = [[t_1 \in Toplevels |-> Stage(server.win[t_1])] EXCEPT ![t] = next]
  BY <1>2, <1>3 DEF StageOf
<1>8. Stages!Leave(t, next)
  BY <1>4, <1>5, <1>6, <1>7 DEF Stages!Leave, Stages!Without
<1> QED BY <1>2, <1>8

Simulated == NothingDead(server') /\ [Stages!Next]_(Stages!vars)

\* A commit configures at most: the stages are those of the state it starts from.
LEMMA CommitStages ==
    ASSUME NEW s, Safe(s), NEW t \in Toplevels, NEW policy \in BOOLEAN, s.win[t].live,
           ~Unmaps => s.win[t].initialized
    PROVE  /\ Keeps(s, SurfaceCommit(s, t, policy))
           /\ SurfaceCommit(s, t, policy).focused = s.focused
  BY SurfaceCommitKeeps, SurfaceCommitCommits DEF Safe, SafeBut, CommitsOnly, Puts

\* xdg_toplevel_map shows a window and activates it.
LEMMA MapShows ==
    ASSUME NEW s, Safe(s), NEW t \in Toplevels, s.win[t].live, s.win[t].initialized,
           ~s.win[t].output, NothingDead(s)
    PROVE  /\ StageSet(s, Map(s, t), t, "shown") /\ Map(s, t).focused = t
           /\ NothingDead(Map(s, t)) /\ Map(s, t).win[t].live /\ Map(s, t).drags = s.drags
<1> DEFINE w == [s.win[t] EXCEPT !.output = TRUE]
           m == [s EXCEPT !.win[t] = w]
           v == Schedule(m, t)
<1>1. s \in Server /\ s.win[t] \in Window
  BY DEF Safe, SafeBut, Server
<1>0. w \in Window /\ w.output /\ w.live /\ w.initialized
  BY <1>1 DEF Window
<1>3. Map(s, t) = SetActiveWindow(v, t)
  BY <1>1 DEF Map, Server
<1> HIDE DEF w
<1>2. w \in Window /\ Stage(w) = "shown" /\ w.live /\ w.initialized
  BY <1>0, StageDef
<1>4. Updated(s, m, t, w)
  BY <1>1, <1>2, PutWindow
<1> HIDE DEF m
<1>5. StageSet(s, m, t, "shown")
  BY <1>2, <1>4, UpdatedStages
<1>6. NothingDead(m) /\ m \in Server /\ m.win[t].live /\ m.win[t].initialized
      /\ m.drags = s.drags /\ m.focused = s.focused
  BY <1>2, <1>4 DEF NothingDead, Updated
<1>7. Keeps(m, v) /\ v \in Server /\ SchedulesOnly(m, v, t)
  BY <1>6, ScheduleKeeps, ScheduleSchedulesOnly
<1> HIDE DEF v
<1>8. s.focused # t /\ (s.focused # None => s.win[s.focused].live /\ s.win[s.focused].initialized)
  BY LifecycleAssumption DEF Safe, SafeBut, Named, MappedInitialized, Mapped, NothingDead, NoWindow
<1>9. s.focused \in Toplevels \cup {None}
  BY <1>1 DEF Server
<1>10. /\ v.focused = s.focused /\ v.win[t].live /\ v.win[t].initialized
       /\ v.focused # None => v.win[v.focused].live /\ v.win[v.focused].initialized
  BY <1>4, <1>6, <1>7, <1>8, <1>9 DEF Updated, Keeps, SameStage, SchedulesOnly, SameFields
<1>11. Keeps(v, Map(s, t))
  BY <1>3, <1>7, <1>10, SetActiveKeeps
<1>12. MovesActivation(v, Map(s, t), t)
  BY <1>3, <1>7, <1>8, <1>10, SetActiveMoves
<1>13. Keeps(m, Map(s, t))
  BY <1>7, <1>11, KeepsTransitive
<1>14. NothingDead(Map(s, t)) /\ StageOf(Map(s, t)) = StageOf(m)
  BY <1>6, <1>13, KeepsStages
<1>15. StageSet(s, Map(s, t), t, "shown")
  BY <1>5, <1>14 DEF StageSet
<1>16. Map(s, t).focused = t /\ Map(s, t).win[t].live /\ Map(s, t).drags = s.drags
  BY <1>6, <1>12, <1>13 DEF MovesActivation, Keeps, SameStage
<1> QED BY <1>14, <1>15, <1>16

LEMMA ClientSimulated ==
    ASSUME RInv, LInv', NEW t \in Toplevels, Client(t)
    PROVE  Simulated
<1> DEFINE w == server.win[t]
<1>1. server \in Server /\ w \in Window /\ Fits(server, w, t) /\ Safe(server) /\ LInv
      /\ NothingDead(server) /\ Safe(server') /\ server' \in Server
  BY WindowKnown DEF LInv, RInv, Safe, SafeBut
<1>2. Keeps(server, server)
  BY DEF Keeps, SameStage
<1>3. CASE CreateToplevel(t)
  <2> DEFINE x == [w EXCEPT !.live = TRUE]
  <2>1. ~w.live /\ w = NoWindow
    BY <1>1, <1>3 DEF CreateToplevel, NothingDead
  <2>0. x \in Window /\ Fits(server, x, t) /\ x.live /\ ~x.output /\ ~x.configured
    <3>1. x \in Window /\ Fits(server, x, t) /\ x.live
          /\ x.output = w.output /\ x.configured = w.configured
      BY <1>1 DEF Window, Fits
    <3>2. ~w.output /\ ~w.configured
      BY <2>1 DEF NoWindow
    <3> QED BY <3>1, <3>2
  <2>3. server' = [server EXCEPT !.win[t] = x]
    BY <1>1, <1>3 DEF CreateToplevel, Server
  <2> HIDE DEF x
  <2>2. x \in Window /\ Fits(server, x, t) /\ x.live /\ Stage(x) = "waiting"
        /\ Stage(w) = "absent"
    BY <1>1, <2>0, <2>1, StageDef
  <2>4. /\ NothingDead(server') /\ StageSet(server, server', t, Stage(x))
        /\ Active(server') = Active(server) /\ server'.drags = server.drags
    BY <1>1, <2>2, <2>3, OneStage
  <2>5. Stages!Create(t)
    BY <2>2, <2>4 DEF Stages!Create, StageSet, StageOf
  <2> QED BY <2>4, <2>5 DEF Simulated, Stages!Next
<1>4. CASE DestroyToplevel(t)
  <2> DEFINE u == Unmap(server, t)
             v == [u EXCEPT !.win[t] = NoWindow]
  <2>1. Unmapped(server, u, t)
        /\ u.drags = [d \in Drags |-> IF server.drags[d] = t THEN None ELSE server.drags[d]]
    BY <1>1, UnmapUnmaps, UnmapLeaves
  <2>2. server' = v /\ w.live
    BY <1>4 DEF DestroyToplevel
  <2> HIDE DEF u
  <2>0. NoWindow \in Window /\ ~NoWindow.output /\ ~NoWindow.live
    BY LifecycleAssumption DEF NoWindow, Window
  <2>3. NoWindow \in Window /\ ~NoWindow.output /\ Stage(NoWindow) = "absent"
    BY <2>0, StageDef
  <2>4. Updated(u, v, t, NoWindow) /\ v.asserted = u.asserted
    BY <2>1, <2>3, PutWindow DEF Unmapped
  <2> HIDE DEF v
  <2>5. Unmapped(server, v, t) /\ v.win[t] = NoWindow
        /\ v.drags = [d \in Drags |-> IF server.drags[d] = t THEN None ELSE server.drags[d]]
    BY <2>1, <2>3, <2>4 DEF Updated, Unmapped
  <2>6. Keeps(v, server')
    BY <2>2 DEF Keeps, SameStage
  <2>7. NothingDead(server') /\ Stages!Leave(t, "absent")
    BY <1>1, <2>2, <2>3, <2>5, <2>6, LeaveStep
  <2>8. Stage(w) # "absent"
    BY <1>1, <2>2, StageDef
  <2>9. Stages!Destroy(t)
    BY <2>7, <2>8 DEF Stages!Destroy
  <2> QED BY <2>7, <2>9 DEF Simulated, Stages!Next
<1>5. ASSUME NEW policy \in BOOLEAN, CommitFrame(t, policy) PROVE Simulated
  <2> DEFINE x == [w EXCEPT !.initialized = TRUE]
             m == [server EXCEPT !.win[t] = x]
  <2>1. x \in Window /\ Fits(server, x, t) /\ x.initialized = TRUE /\ SameStage(w, x) /\ w.live
    BY <1>1, <1>5 DEF Window, Fits, SameStage, CommitFrame
  <2>2. server' = SurfaceCommit(m, t, policy)
    BY <1>1, <1>5 DEF CommitFrame, Server
  <2> HIDE DEF x
  <2>3. Safe(m) /\ m.win[t] = x /\ Keeps(server, m)
    BY <1>1, <2>1, EditSafe, EditPuts, PutKeeps
  <2> HIDE DEF m
  <2>4. Keeps(m, server')
    BY <2>1, <2>2, <2>3, CommitStages DEF SameStage
  <2>5. Keeps(server, server')
    BY <2>3, <2>4, KeepsTransitive
  <2> QED BY <1>1, <2>5, ActivationStep DEF Simulated
<1>6. ASSUME NEW policy \in BOOLEAN, CommitFirstBuffer(t, policy) PROVE Simulated
  <2> DEFINE x == [w EXCEPT !.initialized = TRUE]
             m == [server EXCEPT !.win[t] = x]
             n == Map(m, t)
  <2>1. /\ x \in Window /\ Fits(server, x, t) /\ x.initialized = TRUE /\ ~x.output
        /\ SameStage(w, x) /\ w.live /\ x.live /\ Stage(w) = "ready"
    BY <1>1, <1>6, StageDef DEF Window, Fits, SameStage, CommitFirstBuffer
  <2>2. server' = SurfaceCommit(n, t, policy)
    BY <1>1, <1>6 DEF CommitFirstBuffer, Server
  <2> HIDE DEF x
  <2>3. Safe(m) /\ m.win[t] = x /\ Keeps(server, m)
    BY <1>1, <2>1, EditSafe, EditPuts, PutKeeps
  <2> HIDE DEF m
  <2>4. NothingDead(m) /\ StageOf(m) = StageOf(server)
    BY <1>1, <2>3, KeepsStages
  <2>5. /\ StageSet(m, n, t, "shown") /\ n.focused = t /\ NothingDead(n)
        /\ n.win[t].live /\ n.drags = m.drags
    BY <2>1, <2>3, <2>4, MapShows
  <2>6. Safe(n) /\ n.win[t].initialized
    BY <2>1, <2>3, MapSafe
  <2> HIDE DEF n
  <2>7. Keeps(n, server') /\ server'.focused = n.focused
    BY <2>2, <2>5, <2>6, CommitStages
  <2>8. NothingDead(server') /\ StageOf(server') = StageOf(n)
    BY <2>5, <2>7, KeepsStages
  <2>9. StageSet(server, server', t, "shown")
    BY <2>4, <2>5, <2>8 DEF StageSet
  <2>10. Active(server') = t /\ server'.drags = server.drags
    BY <1>1, <2>3, <2>5, <2>7, ActiveIsFocusedWindow DEF Keeps
  <2>11. Stages!Show(t)
    BY <2>1, <2>9, <2>10 DEF Stages!Show, StageSet, StageOf
  <2> QED BY <2>8, <2>11 DEF Simulated, Stages!Next
<1>7. ASSUME NEW policy \in BOOLEAN, CommitNull(t, policy) PROVE Simulated
  <2> DEFINE u == Unmap(server, t)
  <2>1. /\ Unmapped(server, u, t) /\ u.win[t].sent = w.sent
        /\ u.win[t].decoration = w.decoration /\ u.win[t].deferred = w.deferred
        /\ u.drags = [d \in Drags |-> IF server.drags[d] = t THEN None ELSE server.drags[d]]
        /\ u.win[t].live = w.live /\ u.win[t].configured = FALSE
    BY <1>1, UnmapUnmaps, UnmapLeaves
  <2>2. Unmaps /\ server' = SurfaceCommit(u, t, policy) /\ w.output
    BY <1>7 DEF CommitNull
  <2> HIDE DEF u
  <2>3. Safe(u)
    BY <1>1, <2>1, <2>2, UnmappedSafe DEF Fits
  <2>4. w.live
    BY <1>1, <2>2 DEF NothingDead, NoWindow
  <2>5. Keeps(u, server') /\ server'.focused = u.focused
    BY <2>1, <2>2, <2>3, <2>4, CommitStages
  <2>6. u.win[t] \in Window /\ u.win[t].live /\ ~u.win[t].output
    BY <2>1, <2>4 DEF Unmapped, Server
  <2>7. Stage(u.win[t]) = "waiting"
    BY <2>1, <2>6, StageDef
  <2>8. NothingDead(server') /\ Stages!Leave(t, "waiting")
    BY <1>1, <2>1, <2>3, <2>5, <2>6, <2>7, LeaveStep
  <2>9. Stage(w) = "shown"
    BY <1>1, <2>2, <2>4, StageDef
  <2>10. Stages!Hide(t)
    BY <2>8, <2>9 DEF Stages!Hide
  <2> QED BY <2>8, <2>10 DEF Simulated, Stages!Next
<1>8. CASE RequestState(t)
  <2>1. w.live /\ (server' = Schedule(server, t) \/ server' = server)
    BY <1>8 DEF RequestState
  <2>2. Keeps(server, server')
    BY <1>1, <1>2, <2>1, ScheduleKeeps
  <2> QED BY <1>1, <2>2, ActivationStep DEF Simulated
<1>9. ASSUME NEW d \in Drags, RequestDrag(t, d) PROVE Simulated
  <2>1. CASE server' = [server EXCEPT !.drags[d] = t] /\ w.output
    <3>1. server'.win = server.win /\ server'.drags = [server.drags EXCEPT ![d] = t]
      BY <1>1, <2>1 DEF Server
    <3>2. StageOf(server') = StageOf(server) /\ Active(server') = Active(server)
          /\ NothingDead(server')
      BY <1>1, <3>1 DEF StageOf, Active, Told, Mapped, NothingDead
    <3>3. t \in Stages!Shown
      <4>1. Stage(w) = "shown"
        BY <1>1, <2>1, StageDef DEF NothingDead, NoWindow
      <4> QED BY <4>1 DEF Stages!Shown
    <3>4. Stages!StartDrag(t, d)
      BY <3>1, <3>2, <3>3 DEF Stages!StartDrag, StageOf
    <3> QED BY <3>2, <3>4 DEF Simulated, Stages!Next
  <2>2. CASE server' = server
    BY <1>1, <1>2, <2>2, ActivationStep DEF Simulated
  <2> QED BY <1>9, <2>1, <2>2 DEF RequestDrag
<1>10. ASSUME NEW m \in Server, Keeps(server, m), m.win[t].live, server' = ApplyMode(m, t)
       PROVE  Simulated
  <2>1. Keeps(m, server')
    <3>1. CASE m.win[t].sent
      BY <1>10, <3>1, ScheduleKeeps DEF ApplyMode
    <3>2. CASE ~m.win[t].sent
      <4> DEFINE x == [m.win[t] EXCEPT !.deferred = TRUE]
      <4>1. m.win[t] \in Window
        BY <1>10 DEF Server
      <4>2. x \in Window /\ SameStage(m.win[t], x)
        BY <4>1 DEF Window, SameStage
      <4>3. server' = [m EXCEPT !.win[t] = x]
        BY <1>10, <3>2 DEF ApplyMode, Server
      <4> HIDE DEF x
      <4> QED BY <1>10, <4>2, <4>3, PutKeeps
    <3> QED BY <3>1, <3>2
  <2>2. Keeps(server, server')
    BY <1>10, <2>1, KeepsTransitive
  <2> QED BY <1>1, <2>2, ActivationStep DEF Simulated
<1>11. CASE CreateDecoration(t)
  <2> DEFINE x == [w EXCEPT !.decoration = TRUE]
             m == [server EXCEPT !.win[t] = x]
  <2>1. x \in Window /\ SameStage(w, x) /\ w.live
    BY <1>1, <1>11 DEF Window, SameStage, CreateDecoration
  <2>2. server' = ApplyMode(m, t)
    BY <1>1, <1>11 DEF CreateDecoration, Server
  <2> HIDE DEF x
  <2>3. Keeps(server, m) /\ m \in Server
    BY <1>1, <2>1, PutKeeps
  <2> HIDE DEF m
  <2>4. m.win[t].live
    BY <2>1, <2>3 DEF Keeps, SameStage
  <2> QED BY <1>10, <2>2, <2>3, <2>4
<1>12. CASE RequestDecoration(t)
  <2>1. w.live /\ server' = ApplyMode(server, t)
    BY <1>1, <1>12 DEF RequestDecoration, NothingDead, NoWindow
  <2> QED BY <1>1, <1>2, <1>10, <2>1
<1>13. CASE DestroyDecoration(t)
  <2> DEFINE x == [w EXCEPT !.decoration = FALSE, !.deferred = FALSE]
  <2>0. w.live
    BY <1>1, <1>13 DEF DestroyDecoration, NothingDead, NoWindow
  <2>1. x \in Window /\ SameStage(w, x) /\ w.live
    BY <1>1, <2>0 DEF Window, SameStage
  <2>2. server' = [server EXCEPT !.win[t] = x]
    BY <1>1, <1>13 DEF DestroyDecoration, Server
  <2> HIDE DEF x
  <2>3. Keeps(server, server')
    BY <1>1, <2>1, <2>2, PutKeeps
  <2> QED BY <1>1, <2>3, ActivationStep DEF Simulated
<1> QED BY <1>3, <1>4, <1>5, <1>6, <1>7, <1>8, <1>9, <1>11, <1>12, <1>13 DEF Client

LEMMA ConfigureSimulated ==
    ASSUME RInv, LInv', NEW t \in Toplevels, SendConfigure(t) \/ AckConfigure(t)
    PROVE  Simulated
<1> DEFINE w == server.win[t]
<1>1. server \in Server /\ w \in Window /\ Fits(server, w, t) /\ LInv
      /\ NothingDead(server) /\ Safe(server')
  BY WindowKnown DEF LInv, RInv
<1>2. CASE SendConfigure(t)
  <2> DEFINE x == [w EXCEPT !.idle = FALSE, !.unacked = @ + 1]
  <2>1. w.live
    BY <1>1, <1>2 DEF SendConfigure, NothingDead, NoWindow
  <2>2. w.unacked + 1 \in 0..MaxConfigures
    BY <1>1, <1>2, LifecycleAssumption DEF SendConfigure, Window
  <2>3. x \in Window /\ SameStage(w, x)
    BY <1>1, <2>2 DEF Window, SameStage
  <2>4. server' = [server EXCEPT !.win[t] = x]
    BY <1>1, <1>2 DEF SendConfigure, Server
  <2> HIDE DEF x
  <2>5. Keeps(server, server')
    BY <1>1, <2>1, <2>3, <2>4, PutKeeps
  <2> QED BY <1>1, <2>5, ActivationStep DEF Simulated
<1>3. CASE AckConfigure(t)
  <2>1. PICK left \in 0..MaxConfigures :
           /\ left < w.unacked
           /\ server' = [server EXCEPT !.win[t].unacked = left, !.win[t].configured = TRUE]
    BY <1>3 DEF AckConfigure
  <2> DEFINE x == [w EXCEPT !.unacked = left, !.configured = TRUE]
  <2>2. w.live
    BY <1>1, <2>1 DEF NothingDead, NoWindow
  <2>3. x \in Window /\ Fits(server, x, t) /\ x.live /\ x.output = w.output /\ x.configured
    BY <1>1, <2>2 DEF Window, Fits
  <2>4. server' = [server EXCEPT !.win[t] = x]
    BY <1>1, <2>1 DEF Server
  <2> HIDE DEF x
  <2>5. /\ NothingDead(server') /\ StageSet(server, server', t, Stage(x))
        /\ Active(server') = Active(server) /\ server'.drags = server.drags
    BY <1>1, <2>3, <2>4, OneStage
  <2>6. CASE Stage(w) = "waiting"
    <3>1. Stage(x) = "ready"
      BY <1>1, <2>3, <2>6, StageDef
    <3>2. Stages!Answer(t)
      BY <2>5, <2>6, <3>1 DEF Stages!Answer, StageSet, StageOf
    <3> QED BY <2>5, <3>2 DEF Simulated, Stages!Next
  <2>7. CASE Stage(w) # "waiting"
    <3>1. Stage(x) = Stage(w)
      BY <1>1, <2>2, <2>3, <2>7, StageDef
    <3>2. UNCHANGED Stages!vars
      BY <2>5, <3>1 DEF Stages!vars, StageSet, StageOf
    <3> QED BY <2>5, <3>2 DEF Simulated
  <2> QED BY <2>6, <2>7
<1> QED BY <1>2, <1>3

\* Activation moves to a mapped window, or to none.
LEMMA FocusKeeps ==
    ASSUME RInv, NEW t \in Mapped(server) \cup {None}
    PROVE  /\ Keeps(server, SetActiveWindow(server, t))
           /\ SetActiveWindow(server, t) \in Server /\ SetActiveWindow(server, t).focused = t
<1>1. server \in Server /\ t \in Toplevels \cup {None} /\ (t # None => server.win[t].live)
      /\ (server.focused # None => server.win[server.focused].live)
  BY DEF RInv, LInv, Safe, SafeBut, Named, Mapped, NothingDead, NoWindow
<1>2. /\ t # None => server.win[t].initialized
      /\ server.focused # None => server.win[server.focused].initialized
  BY DEF RInv, LInv, Safe, SafeBut, Named, MappedInitialized
<1>3. SetActiveWindow(server, t).focused = t
  <2>1. CASE server.focused = t
    BY <2>1 DEF SetActiveWindow
  <2>2. CASE server.focused # t
    <3>1. MovesActivation(server, SetActiveWindow(server, t), t)
      BY <1>1, <1>2, <2>2, SetActiveMoves
    <3> QED BY <3>1 DEF MovesActivation
  <2> QED BY <2>1, <2>2
<1> QED BY <1>1, <1>3, SetActiveKeeps

LEMMA HostSimulated ==
    ASSUME RInv, LInv', Host
    PROVE  Simulated
<1>1. LInv /\ NothingDead(server) /\ Safe(server') /\ Keeps(server, server)
  BY DEF LInv, RInv, Keeps, SameStage
<1>2. ASSUME NEW t \in Toplevels \cup {None}, HostFocuses(t) \/ PointerMoves(t)
      PROVE  Simulated
  <2>1. server' = server
    BY <1>2 DEF HostFocuses, PointerMoves
  <2> QED BY <1>1, <2>1, ActivationStep DEF Simulated
<1>3. ASSUME NEW t \in Toplevels, HostConfigures(t) PROVE Simulated
  <2>1. server \in Server /\ server.win[t].live /\ server' = Schedule(server, t)
    BY <1>1, <1>3 DEF HostConfigures, Mapped, NothingDead, NoWindow, LInv, Safe, SafeBut
  <2>2. Keeps(server, server')
    BY <2>1, ScheduleKeeps
  <2> QED BY <1>1, <2>2, ActivationStep DEF Simulated
<1> QED BY <1>2, <1>3 DEF Host

LEMMA DispatchSimulated ==
    ASSUME RInv, LInv', Dispatch
    PROVE  Simulated
<1>1. LInv /\ NothingDead(server) /\ Safe(server') /\ Keeps(server, server)
  BY DEF LInv, RInv, Keeps, SameStage
<1>2. CASE HandleFocusIn
  <2> DEFINE e == Head(events)
  <2>1. events # <<>> /\ server' = IF e.win # None THEN SetActiveWindow(server, e.win) ELSE server
    BY <1>2 DEF HandleFocusIn
  <2>2. e.win \in Mapped(server) \cup {None}
    <3>1. events \in Seq([in : BOOLEAN, win : Mapped(server) \cup {None}])
      BY <1>1 DEF LInv, HostOK
    <3>2. e \in [in : BOOLEAN, win : Mapped(server) \cup {None}]
      BY <2>1, <3>1, HeadTailProperties
    <3> QED BY <3>2
  <2> HIDE DEF e
  <2>3. Keeps(server, server')
    BY <1>1, <2>1, <2>2, FocusKeeps
  <2> QED BY <1>1, <2>3, ActivationStep DEF Simulated
<1>3. ASSUME NEW menu \in MenuAnswers, HandleFocusOut(menu) PROVE Simulated
  <2>1. server' \in {SetActiveWindow(server, None), server}
    BY <1>3 DEF HandleFocusOut
  <2>2. Keeps(server, server')
    BY <1>1, <2>1, FocusKeeps
  <2> QED BY <1>1, <2>2, ActivationStep DEF Simulated
<1>4. ASSUME NEW t \in UnderPointer
      PROVE  /\ t \in Mapped(server) \cup {None}
             /\ Keeps(server, EnterSurface(server, t)) /\ EnterSurface(server, t) \in Server
             /\ EnterSurface(server, t).focused = IF t = None THEN server.focused ELSE t
  <2>1. t \in Mapped(server) \cup {None} /\ server \in Server
    BY <1>1 DEF UnderPointer, LInv, HostOK, Safe, SafeBut
  <2> QED BY <1>1, <2>1, FocusKeeps DEF EnterSurface
<1>5. ASSUME NEW t \in UnderPointer, PointerEnters(t) PROVE Simulated
  <2>1. Keeps(server, server')
    BY <1>4, <1>5 DEF PointerEnters
  <2> QED BY <1>1, <2>1, ActivationStep DEF Simulated
<1>6. ASSUME NEW t \in UnderPointer, ButtonReleased(t) PROVE Simulated
  <2> DEFINE e == EnterSurface(server, t)
  <2>1. Keeps(server, e) /\ e \in Server
        /\ e.focused = IF t = None THEN server.focused ELSE t
    BY <1>4
  <2>2. server' = [e EXCEPT !.drags = NoDrag]
    BY <1>6 DEF ButtonReleased
  <2> HIDE DEF e
  <2>3. server'.win = e.win /\ server'.drags = [d \in Drags |-> None]
        /\ server'.focused = e.focused
    BY <2>1, <2>2 DEF Server, NoDrag
  <2>4. NothingDead(e) /\ StageOf(e) = StageOf(server)
    BY <1>1, <2>1, KeepsStages
  <2>5. NothingDead(server') /\ StageOf(server') = StageOf(server)
    BY <2>3, <2>4 DEF NothingDead, StageOf
  <2>6. Active(server') = server'.focused /\ server'.focused \in Mapped(server') \cup {None}
        /\ server' \in Server
    BY <1>1, ActiveIsFocusedWindow DEF Safe, SafeBut, Named
  <2>7. Mapped(server') = {u \in Toplevels : StageOf(server)[u] = "shown"}
    BY <2>5, <2>6, MappedIsShown
  <2>8. server'.focused # None => server'.focused \in Stages!Shown
    BY <2>6, <2>7 DEF Stages!Shown, StageOf
  <2>9. CASE server'.focused # None
    <3>1. Stages!EndDrag(server'.focused)
      BY <2>3, <2>5, <2>6, <2>8, <2>9 DEF Stages!EndDrag, StageOf
    <3> QED BY <2>5, <2>6, <3>1 DEF Simulated, Stages!Next, Server
  <2>10. CASE server'.focused = None
    <3>1. Active(server) = server.focused
      BY <1>1, ActiveIsFocusedWindow DEF LInv
    <3>2. server.focused = None
      BY <2>1, <2>3, <2>10
    <3>3. Stages!EndDrag(None)
      BY <2>3, <2>5, <2>6, <2>10, <3>1, <3>2 DEF Stages!EndDrag, StageOf
    <3> QED BY <2>5, <3>3 DEF Simulated, Stages!Next
  <2> QED BY <2>9, <2>10
<1> QED BY <1>2, <1>3, <1>5, <1>6 DEF Dispatch

LEMMA InitRInv == Init => RInv /\ Stages!Init
<1> SUFFICES ASSUME Init PROVE RInv /\ Stages!Init
  OBVIOUS
<1>1. LInv
  BY InitLInv
<1>2. NothingDead(server)
  BY DEF Init, NothingDead
<1>3. Active(server) = None
  BY <1>1, ActiveIsFocusedWindow DEF LInv, Init
<1>4. \A t \in Toplevels : Stage(server.win[t]) = "absent"
  BY DEF Init, Stage, NoWindow
<1>5. Stages!Init
  BY <1>3, <1>4 DEF Stages!Init, Init, NoDrag
<1> QED BY <1>1, <1>2, <1>5 DEF RInv

LEMMA NextSimulated == RInv /\ [Next]_vars => RInv' /\ [Stages!Next]_(Stages!vars)
<1> SUFFICES ASSUME RInv, [Next]_vars PROVE RInv' /\ [Stages!Next]_(Stages!vars)
  OBVIOUS
<1>1. LInv'
  BY NextLInv DEF RInv
<1>2. ASSUME NEW t \in Toplevels, Client(t) PROVE Simulated
  BY <1>1, <1>2, ClientSimulated
<1>3. ASSUME NEW t \in Toplevels, SendConfigure(t) \/ AckConfigure(t) PROVE Simulated
  BY <1>1, <1>3, ConfigureSimulated
<1>4. ASSUME Host PROVE Simulated
  BY <1>1, <1>4, HostSimulated
<1>5. ASSUME Dispatch PROVE Simulated
  BY <1>1, <1>5, DispatchSimulated
<1>6. ASSUME UNCHANGED vars PROVE Simulated
  <2>1. server' = server /\ Keeps(server, server)
    BY <1>6 DEF vars, Keeps, SameStage
  <2> QED BY <1>1, <2>1, ActivationStep DEF Simulated, RInv, LInv
<1>7. Simulated
  BY <1>2, <1>3, <1>4, <1>5, <1>6 DEF Next
<1> QED BY <1>1, <1>7 DEF Simulated, RInv

(***************************************************************************)
(* The theorem.                                                            *)
(***************************************************************************)
\* The handlers of toplevels, focus and drags implement WindowStages: clients that
\* unmap and raise wlroots' assertion included, no interleaving of requests,
\* acknowledgements, focus events and destructions shows another behaviour.
THEOREM Refinement == Spec => ImplementsStages
  BY InitRInv, NextSimulated, PTL DEF Spec, ImplementsStages, Stages!Spec
=============================================================================
