---------------------------- MODULE WindowStages ----------------------------
(***************************************************************************)
(* What a client and the host see of the toplevels, without the messages   *)
(* that bring it about: each toplevel passes from stage to stage, at most   *)
(* one of those on the screen is active, and it or the moved or resized    *)
(* one is given up in the very step in which its window goes.              *)
(* ToplevelLifecycle implements this specification.                        *)
(***************************************************************************)
CONSTANTS Toplevels,  \* identities of xdg_toplevels
          None,       \* no toplevel
          Drags       \* what a pointer can do with a window: move it, resize it

VARIABLES stage,    \* "absent", "waiting" for a configure, "ready" to map, "shown"
          active,   \* the toplevel that has been told it is active
          dragged   \* the toplevel each kind of drag acts on

vars == <<stage, active, dragged>>

Shown == {t \in Toplevels : stage[t] = "shown"}
Without(t, named) == IF named = t THEN None ELSE named

Init ==
    /\ stage = [t \in Toplevels |-> "absent"]
    /\ active = None
    /\ dragged = [d \in Drags |-> None]

\* get_toplevel
Create(t) ==
    /\ stage[t] = "absent"
    /\ stage' = [stage EXCEPT ![t] = "waiting"]
    /\ UNCHANGED <<active, dragged>>

\* The first configure is acknowledged.
Answer(t) ==
    /\ stage[t] = "waiting"
    /\ stage' = [stage EXCEPT ![t] = "ready"]
    /\ UNCHANGED <<active, dragged>>

\* A new window comes up active.
Show(t) ==
    /\ stage[t] = "ready"
    /\ stage' = [stage EXCEPT ![t] = "shown"]
    /\ active' = t
    /\ UNCHANGED dragged

\* The toplevel loses its window: it has to be configured again, or is gone.
Leave(t, next) ==
    /\ stage' = [stage EXCEPT ![t] = next]
    /\ active' = Without(t, active)
    /\ dragged' = [d \in Drags |-> Without(t, dragged[d])]
Hide(t) == stage[t] = "shown" /\ Leave(t, "waiting")
Destroy(t) == stage[t] # "absent" /\ Leave(t, "absent")

Activate(t) ==
    /\ t \in Shown \cup {None}
    /\ active' = t
    /\ UNCHANGED <<stage, dragged>>

StartDrag(t, d) ==
    /\ t \in Shown
    /\ dragged' = [dragged EXCEPT ![d] = t]
    /\ UNCHANGED <<stage, active>>

\* The button is released over t, or over nothing of ours.
EndDrag(t) ==
    /\ t \in Shown \cup {active}
    /\ active' = t
    /\ dragged' = [d \in Drags |-> None]
    /\ UNCHANGED stage

Next ==
    \/ \E t \in Toplevels :
          \/ Create(t) \/ Answer(t) \/ Show(t) \/ Hide(t) \/ Destroy(t)
          \/ \E d \in Drags : StartDrag(t, d)
    \/ \E t \in Toplevels \cup {None} : Activate(t) \/ EndDrag(t)

Spec == Init /\ [][Next]_vars
=============================================================================
