------------------------ MODULE ToplevelRefinement ------------------------
(***************************************************************************)
(* ToplevelLifecycle seen as WindowStages.  The active window is the one   *)
(* whose client has been told so, not the one focused_window names.        *)
(***************************************************************************)
EXTENDS ToplevelLifecycle

Stage(w) ==
    CASE ~w.live -> "absent"
      [] w.live /\ w.output -> "shown"
      [] w.live /\ ~w.output /\ w.configured -> "ready"
      [] w.live /\ ~w.output /\ ~w.configured -> "waiting"

Told(s) == {t \in Mapped(s) : s.win[t].activated}
Active(s) == IF Told(s) = {} THEN None ELSE CHOOSE t \in Told(s) : TRUE

Stages == INSTANCE WindowStages WITH
    stage <- [t \in Toplevels |-> Stage(server.win[t])],
    active <- Active(server),
    dragged <- server.drags

\* The handlers implement the stages of a toplevel: whatever crosses, no client is
\* shown before it acknowledged a configure, a window that is unmapped must be
\* configured anew, one window at a time is told it is active, a new one is, and
\* activation and drags end in the step in which their window goes.
ImplementsStages == Stages!Spec
=============================================================================
