----------------------- MODULE InteractiveDragProofs -----------------------
(***************************************************************************)
(* InteractiveDrag's invariants, for every displacement, pointer and bound. *)
(***************************************************************************)
EXTENDS InteractiveDrag, TLAPS

(***************************************************************************)
(* The inductive invariant.                                                 *)
(***************************************************************************)
\* The newest notify tells where the frame is; once the drag has sent a request,
\* requested is the newest one's place.
NewestKnown ==
    /\ notifies # <<>> => notifies[Len(notifies)] = pos
    /\ Dragging /\ stage # "begun" =>
         IF wm = <<>> THEN pos = requested + Inset ELSE wm[Len(wm)].x = requested

\* A wrong correction does not last: a notify is on its way, or a request whose
\* answer will be one.
WrongIsRelearned ==
    Dragging /\ stage = "learned" /\ notifies = <<>> /\ correction # Inset =>
        \E i \in 1..Len(wm) : wm[i].x + Inset # pos

Aim(p) == IF moving THEN p + offset
          ELSE IF edge = "left" THEN start.x + p - start.p ELSE start.x
AimWidth(p) ==
    AtLeast(IF edge = "left" THEN start.w - (p - start.p) ELSE start.w + (p - start.p))

\* A request sent when all was known was the right one.
SentRight ==
    Dragging => \A p \in sentAt :
        /\ stage # "begun"
        /\ requested = Aim(p) - Inset
        /\ ~moving => IF wm = <<>> THEN width = AimWidth(p)
                      ELSE wm[Len(wm)].w = AimWidth(p)

\* A drag begun with a release to come still has it to come.
StillComing == Dragging /\ stray = "no" => ReleaseComing

DInv == TypeOK /\ NewestKnown /\ WrongIsRelearned /\ SentRight /\ StillComing

Events == {"motion", "press", "release"}

(***************************************************************************)
(* Types.                                                                   *)
(***************************************************************************)
LEMMA InitTypes == Init => TypeOK
<1> SUFFICES ASSUME Init PROVE TypeOK
  OBVIOUS
<1>1. start \in [x : Int, w : Int, p : Int]
  BY DEF Init
<1>2. width \in Widths /\ pos \in Int
  BY NumbersAssumption DEF Init, Widths
<1>3. /\ input \in Seq(Events) /\ core \in Seq(Events) /\ asks \in Seq(Kinds)
      /\ wm \in Seq(Request) /\ notifies \in Seq(Int)
  BY DEF Init
<1> QED
  <2>1. moves \in 0..MaxMoves /\ drags \in 0..MaxDrags /\ pointer \in Pointers
        /\ clicks \in 0..MaxClicks /\ held \in Nat
    BY NumbersAssumption DEF Init
  <2>2. /\ down \in BOOLEAN /\ moving \in BOOLEAN /\ fresh \in BOOLEAN
        /\ grab \in {"none", "implicit", "active"} /\ stray \in {"no", "late", "missed"}
    BY Zenon DEF Init
  <2>3. /\ edge \in Kinds \cup {"none"} /\ edge # "move"
        /\ offset \in Int /\ requested \in Int /\ correction \in Int
        /\ stage \in {"begun", "sent", "learned"} /\ sentAt \in SUBSET Pointers
    BY DEF Init
  <2> QED BY <1>1, <1>2, <1>3, <2>1, <2>2, <2>3 DEF TypeOK, Events

LEMMA TargetTyped ==
    ASSUME TypeOK
    PROVE  /\ [x |-> TargetX, w |-> TargetWidth] \in Request
           /\ TargetX \in Int
<1>1. pointer \in Int /\ start.x \in Int /\ start.p \in Int /\ start.w \in Int
  BY NumbersAssumption DEF TypeOK
<1>2. TargetX \in Int
  BY <1>1 DEF TypeOK, TargetX, TargetXUncorrected, Moved
<1>3. \A w \in Int : AtLeast(w) \in Widths
  BY NumbersAssumption DEF AtLeast, Widths
<1>4. TargetWidth \in Widths \cup {Keep}
  BY <1>1, <1>3 DEF TargetWidth, Moved
<1> QED BY <1>2, <1>4 DEF Request

\* The history and the queues of input.
LEMMA QueueTypes ==
    ASSUME TypeOK, NEW e \in Events
    PROVE  /\ Sent(e) => input' \in Seq(Events) /\ core' \in Seq(Events)
           /\ Handles(e) => input' \in Seq(Events) /\ core' \in Seq(Events)
           /\ HandlesCore(e) => input' \in Seq(Events) /\ core' \in Seq(Events)
           /\ core # <<>> => Tail(core) \in Seq(Events)
           /\ Missed => stray' \in {"no", "late", "missed"}
<1>1. input \in Seq(Events) /\ core \in Seq(Events)
  BY DEF TypeOK, Events
<1>2. Sent(e) => input' \in Seq(Events) /\ core' \in Seq(Events)
  <2>1. Append(input, e) \in Seq(Events) /\ Append(core, e) \in Seq(Events)
    BY <1>1
  <2>2. Sent(e) => \/ core' = Append(core, e) /\ input' = input
                   \/ input' = Append(input, e) /\ core' = core
    BY DEF Sent
  <2> QED BY <1>1, <2>1, <2>2
<1>3. Handles(e) => input' \in Seq(Events) /\ core' \in Seq(Events)
  BY <1>1 DEF Handles
<1>4. HandlesCore(e) => input' \in Seq(Events) /\ core' \in Seq(Events)
  BY <1>1 DEF HandlesCore
<1>5. core # <<>> => Tail(core) \in Seq(Events)
  BY <1>1
<1>6. Missed => stray' \in {"no", "late", "missed"}
  BY DEF Missed, TypeOK
<1> QED BY <1>2, <1>3, <1>4, <1>5, <1>6

\* What the steps that only concern the button and the grabs leave alone.
LEMMA TypesKept ==
    ASSUME TypeOK,
           UNCHANGED <<asks, drags, drag, follow, host, stage, sentAt>>,
           pointer' \in Pointers, moves' \in 0..MaxMoves,
           down' \in BOOLEAN, clicks' \in 0..MaxClicks,
           input' \in Seq(Events), core' \in Seq(Events), held' \in Nat,
           grab' \in {"none", "implicit", "active"}, stray' \in {"no", "late", "missed"}
    PROVE  TypeOK'
<1>1. UNCHANGED <<asks, drags, moving, edge, offset, start, fresh, requested, correction,
                  wm, notifies, pos, width, stage, sentAt>>
  BY DEF drag, follow, host
<1> QED BY <1>1 DEF TypeOK, Events

LEMMA StepTypes == ASSUME TypeOK, Next PROVE TypeOK'
<1>0. /\ pointer \in Pointers /\ moves \in 0..MaxMoves /\ down \in BOOLEAN
      /\ clicks \in 0..MaxClicks /\ held \in Nat
      /\ input \in Seq(Events) /\ core \in Seq(Events)
      /\ grab \in {"none", "implicit", "active"} /\ stray \in {"no", "late", "missed"}
      /\ MaxMoves \in Nat /\ MaxClicks \in Nat /\ MaxDrags \in Nat
  BY NumbersAssumption DEF TypeOK, Events
<1>1. ASSUME NEW p \in Pointers, MovePointer(p) PROVE TypeOK'
  <2>1. /\ pointer' \in Pointers /\ moves' \in 0..MaxMoves /\ Sent("motion")
        /\ UNCHANGED <<down, clicks, held, asks, drags, grab, drag, follow, host,
                       stage, sentAt, stray>>
    BY <1>0, <1>1 DEF MovePointer, client, history
  <2> QED BY <1>0, <2>1, QueueTypes, TypesKept DEF Events
<1>2. CASE Press
  <2>1. /\ clicks' \in 0..MaxClicks /\ down' \in BOOLEAN /\ Sent("press")
        /\ grab' \in {"none", "implicit", "active"}
        /\ UNCHANGED <<pointer, moves, held, asks, drags, drag, follow, host,
                       stage, sentAt, stray>>
    BY <1>0, <1>2 DEF Press, client, history
  <2> QED BY <1>0, <2>1, QueueTypes, TypesKept DEF Events
<1>11. CASE Release
  <2>1. /\ down' \in BOOLEAN /\ grab' \in {"none", "implicit", "active"}
        /\ \/ Sent("release") /\ UNCHANGED stray
           \/ Missed /\ UNCHANGED <<input, core>>
        /\ UNCHANGED <<pointer, moves, clicks, held, asks, drags, drag, follow, host,
                       stage, sentAt>>
    BY <1>0, <1>11 DEF Release, client, queues
  <2>2. /\ input' \in Seq(Events) /\ core' \in Seq(Events)
        /\ stray' \in {"no", "late", "missed"}
    BY <1>0, <2>1, QueueTypes DEF Events
  <2> QED BY <1>0, <2>1, <2>2, TypesKept
<1>3. ASSUME NEW k \in Kinds, Ask(k) PROVE TypeOK'
  <2>1. asks' \in Seq(Kinds) /\ drags' \in 0..MaxDrags
    BY <1>0, <1>3 DEF Ask, TypeOK
  <2> QED BY <1>3, <2>1 DEF Ask, TypeOK, user, queues, drag, follow, host, history
<1>12. CASE Menus
  <2>1. /\ grab' \in {"none", "implicit", "active"} /\ held' \in Nat
        /\ UNCHANGED <<pointer, moves, down, clicks, input, core, asks, drags, drag, follow,
                       host, stage, sentAt, stray>>
    BY <1>0, <1>12 DEF Menus, MenuGrabs, MenuCloses, user, queues, client, history
  <2> QED BY <1>0, <2>1, TypesKept
<1>4. CASE Begin
  <2>1. /\ asks' \in Seq(Kinds) /\ Head(asks) \in Kinds
        /\ UNCHANGED <<pointer, moves, down, clicks, input, core, held, grab, drags, wm, notifies,
                       pos, width>>
        /\ fresh' \in BOOLEAN /\ requested' \in Int /\ correction' \in Int
        /\ stage' = "begun" /\ sentAt' = {} /\ stray' \in {"no", "late", "missed"}
    BY <1>4 DEF Begin, TypeOK, user, queues, host
  <2>2. /\ moving' \in BOOLEAN /\ edge' \in Kinds \cup {"none"} /\ edge' # "move"
        /\ offset' \in Int
    <3>1. pos - pointer \in Int
      BY NumbersAssumption DEF TypeOK
    <3> QED BY <1>4, <2>1, <3>1 DEF Begin, TypeOK
  <2>3. start' \in [x : Int, w : Int, p : Int]
    <3>1. [x |-> pos, w |-> width, p |-> pointer] \in [x : Int, w : Int, p : Int]
      BY NumbersAssumption DEF TypeOK, Widths
    <3> QED BY <3>1, <1>4 DEF Begin, TypeOK
  <2> QED BY <2>1, <2>2, <2>3 DEF TypeOK
<1>5. CASE HandlePress \/ CorePress \/ CoreRelease \/ DropCore
  <2>1. UNCHANGED <<pointer, moves, down, clicks, asks, drags, grab, drag, follow, host,
                    stage, sentAt>>
    BY <1>5 DEF HandlePress, CorePress, CoreRelease, DropCore, user, client, history
  <2>2. held' \in Nat
    BY <1>0, <1>5 DEF HandlePress, CorePress, CoreRelease, DropCore, CountPress, CountRelease
  <2>3. /\ input' \in Seq(Events) /\ core' \in Seq(Events)
        /\ stray' \in {"no", "late", "missed"}
    BY <1>0, <1>5, QueueTypes
    DEF HandlePress, CorePress, CoreRelease, DropCore, history, Events
  <2> QED BY <1>0, <2>1, <2>2, <2>3, TypesKept
<1>6. CASE HandleRelease
  <2>1. input' \in Seq(Events) /\ core' \in Seq(Events) /\ held' \in Nat
    BY <1>0, <1>6, QueueTypes DEF HandleRelease, CountRelease, Events
  <2>2. moving' = FALSE /\ edge' = "none" /\ stage' = "begun" /\ sentAt' = {} /\ stray' = "no"
    BY <1>6 DEF HandleRelease
  <2>3. UNCHANGED <<pointer, moves, down, clicks, asks, drags, grab, offset, start, fresh,
                    requested, correction, wm, notifies, pos, width>>
    BY <1>6 DEF HandleRelease, user, client, follow, host
  <2> QED BY <2>1, <2>2, <2>3 DEF TypeOK, Events
<1>7. CASE HandleMotion \/ CoreMotion
  <2>0. FollowPointer
    BY <1>7 DEF HandleMotion, CoreMotion
  <2>1. /\ input' \in Seq(Events) /\ core' \in Seq(Events)
        /\ UNCHANGED <<pointer, moves, down, clicks, held, asks, drags, grab, moving, edge,
                       offset, start, correction, notifies, pos, width, stray>>
    BY <1>7, <2>0, QueueTypes
    DEF HandleMotion, CoreMotion, FollowPointer, user, client, drag, Events
  <2>2. [x |-> TargetX, w |-> TargetWidth] \in Request /\ TargetX \in Int
    BY TargetTyped
  <2>3. fresh' \in BOOLEAN /\ requested' \in Int /\ wm' \in Seq(Request)
    <3>1. CASE UNCHANGED <<fresh, requested, wm, stage, sentAt>>
      BY <3>1 DEF TypeOK
    <3>2. CASE /\ fresh' = FALSE /\ requested' = TargetX
               /\ wm' = Append(wm, [x |-> TargetX, w |-> TargetWidth])
      <4>1. PICK r \in Request : r = [x |-> TargetX, w |-> TargetWidth]
        BY <2>2
      <4>2. wm \in Seq(Request) /\ wm' = Append(wm, r)
        BY <3>2, <4>1 DEF TypeOK
      <4>3. wm' \in Seq(Request)
        BY <4>1, <4>2
      <4> QED BY <3>2, <2>2, <4>3
    <3> QED BY <2>0, <3>1, <3>2 DEF FollowPointer
  <2>4. stage' \in {"begun", "sent", "learned"} /\ sentAt' \in SUBSET Pointers
    BY <2>0 DEF FollowPointer, TypeOK
  <2> QED BY <2>1, <2>3, <2>4 DEF TypeOK, Events
<1>8. CASE HandleNotify
  <2>1. Head(notifies) \in Int /\ notifies' \in Seq(Int)
    BY <1>8 DEF HandleNotify, TypeOK
  <2>2. correction' \in Int /\ stage' \in {"begun", "sent", "learned"}
    BY <1>8, <2>1 DEF HandleNotify, Learnt, TypeOK
  <2>3. UNCHANGED <<pointer, moves, down, clicks, input, core, held, asks, drags, grab, moving,
                    edge, offset, start, fresh, requested, wm, pos, width, sentAt, stray>>
    BY <1>8 DEF HandleNotify, user, queues, client, drag
  <2> QED BY <2>1, <2>2, <2>3 DEF TypeOK
<1>10. CASE Place
  <2>1. Head(wm) \in Request /\ wm' \in Seq(Request)
    BY <1>10 DEF Place, TypeOK
  <2>2. pos' \in Int /\ width' \in Widths
    <3>1. Head(wm).x \in Int /\ Head(wm).w \in Widths \cup {Keep}
      BY <2>1 DEF Request
    <3> QED BY <1>10, <3>1, NumbersAssumption DEF Place, TypeOK
  <2>3. notifies' \in Seq(Int)
    BY <1>10, <2>2 DEF Place, TypeOK
  <2> QED BY <1>10, <2>1, <2>2, <2>3 DEF Place, TypeOK, user, queues, client, drag, follow, history
<1> QED
  BY <1>1, <1>2, <1>3, <1>4, <1>5, <1>6, <1>7, <1>8, <1>10, <1>11, <1>12
  DEF Next, User, Compositor

(***************************************************************************)
(* Which steps matter, and what they do to the queues.                      *)
(***************************************************************************)
tracking == <<drag, requested, correction, host, stage, sentAt>>

LEMMA Matters ==
    ASSUME Next
    PROVE  \/ UNCHANGED tracking
           \/ Begin \/ HandleRelease \/ FollowPointer \/ HandleNotify \/ Place
<1>1. ASSUME NEW p \in Pointers, MovePointer(p) PROVE UNCHANGED tracking
  BY <1>1 DEF MovePointer, tracking, follow, history
<1>2. CASE Press \/ Release
  BY <1>2 DEF Press, Release, tracking, follow, history
<1>3. ASSUME NEW k \in Kinds, Ask(k) PROVE UNCHANGED tracking
  BY <1>3 DEF Ask, tracking, follow, history
<1>4. CASE HandlePress \/ CorePress \/ CoreRelease \/ DropCore
  BY <1>4 DEF HandlePress, CorePress, CoreRelease, DropCore, tracking, follow, history
<1>5. CASE Menus
  BY <1>5 DEF Menus, MenuGrabs, MenuCloses, tracking, follow, history
<1>6. CASE HandleMotion \/ CoreMotion
  BY <1>6 DEF HandleMotion, CoreMotion
<1> QED
  BY <1>1, <1>2, <1>3, <1>4, <1>5, <1>6 DEF Next, User, Compositor

\* A motion is dropped, or appends the request for TargetX.
Sends(r) ==
    /\ Dragging
    /\ r.x = TargetX /\ r.w = TargetWidth
    /\ wm' = Append(wm, r) /\ requested' = TargetX
    /\ stage' = (IF stage = "begun" THEN "sent" ELSE stage)
    /\ sentAt' = (IF stage = "learned" /\ Quiet THEN {pointer} ELSE {})

LEMMA Motion ==
    ASSUME TypeOK, FollowPointer
    PROVE  /\ UNCHANGED <<drag, correction, notifies, pos, width>>
           /\ UNCHANGED tracking \/ \E r \in Request : Sends(r)
<1>1. UNCHANGED <<drag, correction, notifies, pos, width>>
  BY DEF FollowPointer
<1>2. CASE UNCHANGED <<fresh, requested, wm, stage, sentAt>>
  BY <1>1, <1>2 DEF tracking, host
<1>3. CASE ~UNCHANGED <<fresh, requested, wm, stage, sentAt>>
  <2>1. [x |-> TargetX, w |-> TargetWidth] \in Request
    BY TargetTyped
  <2>2. PICK r \in Request : r = [x |-> TargetX, w |-> TargetWidth]
    BY <2>1
  <2>3. r.x = TargetX /\ r.w = TargetWidth
    BY <2>2
  <2>4. Sends(r)
    BY <1>3, <2>2, <2>3 DEF FollowPointer, Sends
  <2> QED BY <1>1, <2>4
<1> QED BY <1>2, <1>3

LEMMA HeadTail ==
    ASSUME NEW S, NEW s \in Seq(S), s # <<>>
    PROVE  /\ Head(s) = s[1] /\ Head(s) \in S
           /\ Tail(s) \in Seq(S) /\ Len(s) \in Nat \ {0}
           /\ Len(Tail(s)) = Len(s) - 1
           /\ \A i \in 1..(Len(s) - 1) : Tail(s)[i] = s[i + 1]
           /\ Tail(s) = <<>> <=> Len(s) = 1
<1>1. Len(s) \in Nat \ {0} /\ Head(s) = s[1]
  OBVIOUS
<1>5. Head(s) \in S
  BY <1>1
<1>2. Tail(s) \in Seq(S) /\ Len(Tail(s)) = Len(s) - 1
  OBVIOUS
<1>3. \A i \in 1..(Len(s) - 1) : Tail(s)[i] = s[i + 1]
  OBVIOUS
<1>4. Tail(s) = <<>> <=> Len(s) = 1
  <2>1. \A t \in Seq(S) : t = <<>> <=> Len(t) = 0
    OBVIOUS
  <2>2. Tail(s) = <<>> <=> Len(Tail(s)) = 0
    BY <1>2, <2>1
  <2>3. Len(Tail(s)) = 0 <=> Len(s) = 1
    BY <1>1, <1>2
  <2> QED BY <2>2, <2>3, Zenon
<1> QED BY <1>1, <1>2, <1>3, <1>4, <1>5

LEMMA Appended ==
    ASSUME NEW S, NEW s \in Seq(S), NEW e \in S
    PROVE  /\ Append(s, e) \in Seq(S) /\ Append(s, e) # <<>>
           /\ Len(Append(s, e)) = Len(s) + 1 /\ Len(s) \in Nat
           /\ Append(s, e)[Len(s) + 1] = e
           /\ \A i \in 1..Len(s) : Append(s, e)[i] = s[i]
OBVIOUS

\* What Place does to the frame and the queues.
LEMMA Placing ==
    ASSUME TypeOK, Place
    PROVE  /\ UNCHANGED <<drag, requested, correction, stage, sentAt>>
           /\ wm # <<>> /\ Len(wm) \in Nat \ {0} /\ Len(wm') = Len(wm) - 1
           /\ \A i \in 1..(Len(wm) - 1) : wm'[i] = wm[i + 1]
           /\ wm' = <<>> <=> Len(wm) = 1
           /\ wm[1] \in Request
           /\ pos' = wm[1].x + Inset
           /\ width' = (IF wm[1].w = Keep THEN width ELSE wm[1].w)
           /\ \/ pos' = pos /\ width' = width /\ notifies' = notifies
              \/ /\ notifies' # <<>>
                 /\ notifies'[Len(notifies')] = pos'
<1>1. wm \in Seq(Request) /\ wm # <<>> /\ wm' = Tail(wm)
  BY DEF Place, TypeOK
<1>2. Head(wm) = wm[1]
  BY <1>1, HeadTail
<1>3. /\ pos' = wm[1].x + Inset
      /\ width' = (IF wm[1].w = Keep THEN width ELSE wm[1].w)
      /\ UNCHANGED <<drag, requested, correction, stage, sentAt>>
  BY <1>2 DEF Place, follow, history
<1>4. \/ pos' = pos /\ width' = width /\ notifies' = notifies
      \/ notifies' = Append(notifies, pos')
  BY DEF Place
<1>5. pos' \in Int
  BY <1>1, <1>2, <1>3, HeadTail, NumbersAssumption DEF Request
<1>6. notifies' = Append(notifies, pos') =>
        notifies' # <<>> /\ notifies'[Len(notifies')] = pos'
  BY <1>5, Appended DEF TypeOK
<1>7. /\ Len(wm) \in Nat \ {0} /\ Len(wm') = Len(wm) - 1
      /\ \A i \in 1..(Len(wm) - 1) : wm'[i] = wm[i + 1]
      /\ wm' = <<>> <=> Len(wm) = 1
      /\ wm[1] \in Request
  BY <1>1, <1>2, HeadTail
<1> QED BY <1>1, <1>3, <1>4, <1>6, <1>7

(***************************************************************************)
(* The newest notify and request.                                           *)
(***************************************************************************)
LEMMA StepNewest == ASSUME DInv, Next PROVE NewestKnown'
<1> USE DEF DInv
<1>1. CASE UNCHANGED tracking
  BY <1>1 DEF tracking, drag, host, NewestKnown, Dragging
<1>2. CASE Begin
  BY <1>2 DEF Begin, host, NewestKnown
<1>3. CASE HandleRelease
  BY <1>3 DEF HandleRelease, host, NewestKnown, Dragging
<1>4. CASE FollowPointer
  <2>1. UNCHANGED <<drag, correction, notifies, pos, width>>
    BY <1>4, Motion
  <2>2. CASE ~UNCHANGED tracking
    <3>1. PICK r \in Request : Sends(r)
      BY <1>4, <2>2, Motion
    <3>4. wm \in Seq(Request) /\ wm' = Append(wm, r)
      BY <3>1 DEF Sends, TypeOK
    <3>2. wm' # <<>> /\ wm'[Len(wm')] = r
      BY <3>4, Appended
    <3> QED BY <2>1, <3>1, <3>2 DEF Sends, NewestKnown
  <2> QED BY <1>1, <2>2
<1>5. CASE HandleNotify
  <2>1. /\ UNCHANGED <<moving, edge, requested, wm, pos>>
        /\ notifies # <<>> /\ notifies' = Tail(notifies)
    BY <1>5 DEF HandleNotify, drag
  <2>3. stage' # "begun" => stage # "begun"
    BY <1>5 DEF HandleNotify
  <2>2. notifies' # <<>> => notifies'[Len(notifies')] = notifies[Len(notifies)]
    <3>1. notifies \in Seq(Int)
      BY DEF TypeOK
    <3> SUFFICES ASSUME notifies' # <<>> PROVE notifies'[Len(notifies')] = notifies[Len(notifies)]
      OBVIOUS
    <3>2. /\ Len(notifies') = Len(notifies) - 1 /\ Len(notifies) \in Nat \ {0}
          /\ \A i \in 1..(Len(notifies) - 1) : notifies'[i] = notifies[i + 1]
          /\ Len(notifies) # 1
      BY <2>1, <3>1, HeadTail
    <3>3. PICK n \in Nat \ {0} : n = Len(notifies)
      BY <3>2
    <3>4. n # 1 /\ Len(notifies') = n - 1
      BY <3>2, <3>3
    <3>5. n - 1 \in 1..(n - 1) /\ (n - 1) + 1 = n
      BY <3>4
    <3>6. \A i \in 1..(n - 1) : notifies'[i] = notifies[i + 1]
      BY <3>2, <3>3
    <3>7. notifies'[n - 1] = notifies[(n - 1) + 1]
      BY <3>5, <3>6
    <3> QED BY <3>3, <3>5, <3>7, <3>4
  <2>4. notifies # <<>> => notifies[Len(notifies)] = pos
    BY DEF NewestKnown
  <2> QED BY <2>1, <2>2, <2>3, <2>4 DEF NewestKnown, Dragging
<1>6. CASE Place
  <2>1. notifies' # <<>> => notifies'[Len(notifies')] = pos'
    BY <1>6, Placing DEF NewestKnown
  <2>2. wm' # <<>> => wm'[Len(wm')] = wm[Len(wm)]
    BY <1>6, Placing
  <2>3. wm' = <<>> => wm[Len(wm)] = wm[1]
    BY <1>6, Placing
  <2> QED BY <1>6, <2>1, <2>2, <2>3, Placing DEF NewestKnown, Dragging, drag
<1> QED BY <1>1, <1>2, <1>3, <1>4, <1>5, <1>6, Matters

(***************************************************************************)
(* A wrong correction is relearned.                                         *)
(***************************************************************************)
LEMMA StepWrong == ASSUME DInv, Next PROVE WrongIsRelearned'
<1> USE DEF DInv
<1> SUFFICES ASSUME Dragging', stage' = "learned", notifies' = <<>>, correction' # Inset
             PROVE  \E i \in 1..Len(wm') : wm'[i].x + Inset # pos'
  BY DEF WrongIsRelearned
<1>1. CASE UNCHANGED tracking
  BY <1>1 DEF tracking, drag, host, WrongIsRelearned, Dragging
<1>2. CASE Begin
  BY <1>2 DEF Begin
<1>3. CASE HandleRelease
  BY <1>3 DEF HandleRelease, Dragging
<1>4. CASE FollowPointer
  <2>1. UNCHANGED <<drag, correction, notifies, pos, width>>
    BY <1>4, Motion
  <2>2. CASE ~UNCHANGED tracking
    <3>1. PICK r \in Request : Sends(r)
      BY <1>4, <2>2, Motion
    <3>2. stage = "learned" /\ Dragging
      BY <3>1 DEF Sends
    <3>3. PICK i \in 1..Len(wm) : wm[i].x + Inset # pos
      BY <2>1, <3>2 DEF WrongIsRelearned
    <3>4. i \in 1..Len(wm') /\ wm'[i] = wm[i]
      BY <3>1, Appended DEF Sends, TypeOK
    <3> QED BY <2>1, <3>3, <3>4
  <2> QED BY <1>1, <2>2
<1>5. CASE HandleNotify
  <2>1. notifies \in Seq(Int) /\ notifies # <<>> /\ Tail(notifies) = <<>>
    BY <1>5 DEF HandleNotify, TypeOK
  <2>2. Head(notifies) = pos
    BY <2>1, HeadTail DEF NewestKnown
  <2>3. Dragging /\ UNCHANGED <<drag, requested, wm, pos>>
    BY <1>5 DEF HandleNotify, Dragging, drag
  <2>4. stage # "begun" /\ correction' = pos - requested
    BY <1>5, <2>2, <2>3 DEF HandleNotify, Learnt
  <2>5. requested + Inset # pos
    BY <2>4, NumbersAssumption DEF TypeOK
  <2>6. wm # <<>> /\ wm[Len(wm)].x = requested
    BY <2>3, <2>4, <2>5 DEF NewestKnown
  <2>7. Len(wm) \in 1..Len(wm)
    BY <2>6 DEF TypeOK
  <2> QED BY <2>3, <2>5, <2>6, <2>7
<1>6. CASE Place
  <2>1. /\ pos' = pos /\ notifies = <<>> /\ UNCHANGED <<drag, correction, stage>>
        /\ wm[1].x + Inset = pos
    BY <1>6, Placing
  <2>2. Dragging /\ stage = "learned"
    BY <2>1 DEF Dragging, drag
  <2>3. PICK i \in 1..Len(wm) : wm[i].x + Inset # pos
    BY <2>1, <2>2 DEF WrongIsRelearned
  <2>4. i # 1 /\ Len(wm') = Len(wm) - 1 /\ Len(wm) \in Nat
    BY <1>6, <2>1, <2>3, Placing
  <2>5. i - 1 \in 1..(Len(wm) - 1) /\ (i - 1) + 1 = i
    BY <2>4
  <2>6. wm'[i - 1] = wm[i]
    BY <1>6, <2>5, Placing
  <2> QED BY <2>1, <2>3, <2>4, <2>5, <2>6
<1> QED BY <1>1, <1>2, <1>3, <1>4, <1>5, <1>6, Matters

\* CorrectionIsInset is its case without messages.
LEMMA Corrected == DInv => CorrectionIsInset
BY DEF DInv, TypeOK, WrongIsRelearned, CorrectionIsInset, Quiet

(***************************************************************************)
(* The request sent when all was known.                                     *)
(***************************************************************************)
\* From such a state the request is the aim less the WM's displacement.
LEMMA Aimed ==
    ASSUME DInv, NEW r \in Request, Sends(r), NEW p \in sentAt'
    PROVE  /\ p = pointer /\ p \in Int /\ stage = "learned"
           /\ requested' = Aim(p) - Inset
           /\ ~moving => r.w = AimWidth(p)
<1>1. p = pointer /\ stage = "learned" /\ Quiet
  BY DEF Sends
<1>2. correction = Inset
  BY <1>1, Corrected DEF CorrectionIsInset, Sends
<1>3. p \in Int
  BY <1>1, NumbersAssumption DEF DInv, TypeOK
<1>4. Aim(p) = TargetXUncorrected
  BY <1>1, <1>3 DEF Aim, TargetXUncorrected, Moved, DInv, TypeOK
<1>5. ~moving => TargetWidth = AimWidth(p)
  BY <1>1 DEF TargetWidth, AimWidth, Moved
<1> QED BY <1>1, <1>2, <1>3, <1>4, <1>5 DEF Sends, TargetX

LEMMA WidthAsked ==
    ASSUME TypeOK, NEW p \in Int
    PROVE  AimWidth(p) \in Widths /\ AimWidth(p) # Keep
<1>1. \A w \in Int : AtLeast(w) \in Widths /\ AtLeast(w) # Keep
  BY NumbersAssumption DEF AtLeast, Widths, Keep
<1> QED BY <1>1 DEF AimWidth, TypeOK

LEMMA StepSent == ASSUME DInv, Next PROVE SentRight'
<1> USE DEF DInv
<1> SUFFICES ASSUME Dragging', NEW p \in sentAt'
             PROVE  /\ stage' # "begun"
                    /\ requested' = Aim(p)' - Inset
                    /\ ~moving' => IF wm' = <<>> THEN width' = AimWidth(p)'
                                   ELSE wm'[Len(wm')].w = AimWidth(p)'
  BY DEF SentRight
<1>0. ASSUME UNCHANGED drag
      PROVE  Aim(p)' = Aim(p) /\ AimWidth(p)' = AimWidth(p) /\ Dragging
  BY <1>0 DEF drag, Aim, AimWidth, Dragging
<1>1. CASE UNCHANGED tracking
  <2>1. /\ UNCHANGED <<stage, requested, moving, wm, width, sentAt>>
        /\ UNCHANGED drag
    BY <1>1 DEF tracking, drag, host
  <2> QED BY <1>0, <2>1 DEF SentRight
<1>2. CASE Begin
  BY <1>2 DEF Begin
<1>3. CASE HandleRelease
  BY <1>3 DEF HandleRelease, Dragging
<1>4. CASE FollowPointer
  <2>1. UNCHANGED <<drag, correction, notifies, pos, width>>
    BY <1>4, Motion
  <2>2. CASE ~UNCHANGED tracking
    <3>1. PICK r \in Request : Sends(r)
      BY <1>4, <2>2, Motion
    <3>5. wm \in Seq(Request) /\ wm' = Append(wm, r)
      BY <3>1 DEF Sends, TypeOK
    <3>6. wm' # <<>> /\ wm'[Len(wm')] = r
      BY <3>5, Appended
    <3>2. wm' # <<>> /\ wm'[Len(wm')] = r /\ (stage' = stage \/ stage = "begun")
      BY <3>1, <3>6 DEF Sends
    <3>3. /\ stage = "learned" /\ requested' = Aim(p) - Inset
          /\ ~moving => r.w = AimWidth(p)
      BY <3>1, Aimed
    <3>4. UNCHANGED moving
      BY <2>1 DEF drag
    <3> QED BY <1>0, <2>1, <3>1, <3>2, <3>3, <3>4
  <2> QED BY <1>1, <2>2
<1>5. CASE HandleNotify
  <2>1. UNCHANGED <<drag, moving, requested, wm, width, sentAt>>
    BY <1>5 DEF HandleNotify, drag
  <2>2. stage' = stage \/ stage' = "learned"
    BY <1>5 DEF HandleNotify
  <2> QED BY <1>0, <2>1, <2>2 DEF SentRight
<1>6. CASE Place
  <2>1. UNCHANGED <<drag, moving, requested, stage, sentAt>>
    BY <1>6, Placing DEF drag
  <2>2. /\ stage # "begun" /\ requested = Aim(p) - Inset
        /\ ~moving => wm[Len(wm)].w = AimWidth(p)
    BY <1>0, <1>6, <2>1, Placing DEF SentRight
  <2>3. wm' # <<>> => wm'[Len(wm')] = wm[Len(wm)]
    BY <1>6, Placing
  <2>4. wm' = <<>> => wm[Len(wm)] = wm[1]
    BY <1>6, Placing
  <2>5. AimWidth(p) # Keep
    <3>1. p \in Int
      BY <2>1, NumbersAssumption DEF TypeOK
    <3> QED BY <3>1, WidthAsked
  <2>6. wm' = <<>> /\ ~moving => width' = AimWidth(p)
    BY <1>6, <2>2, <2>4, <2>5, Placing
  <2> QED BY <1>0, <2>1, <2>2, <2>3, <2>6
<1> QED BY <1>1, <1>2, <1>3, <1>4, <1>5, <1>6, Matters

LEMMA Landed == DInv => LandsUnderPointer
<1> SUFFICES ASSUME DInv, Quiet, Dragging, NEW p \in sentAt
             PROVE  \/ moving /\ pos = p + offset
                    \/ /\ ~moving /\ edge = "left" /\ pos = start.x + p - start.p
                       /\ width > MinWidth => pos + width = start.x + start.w
                    \/ /\ ~moving /\ edge = "right" /\ pos = start.x
                       /\ width > MinWidth => width = start.w + p - start.p
  BY DEF LandsUnderPointer
<1>1. /\ p \in Int /\ start.x \in Int /\ start.p \in Int /\ start.w \in Int
      /\ offset \in Int /\ pos \in Int /\ width \in Int /\ requested \in Int
      /\ Inset \in Int /\ MinWidth \in Int
  BY NumbersAssumption DEF DInv, TypeOK, Widths
<1>2. pos = requested + Inset /\ requested = Aim(p) - Inset
  BY DEF DInv, NewestKnown, SentRight, Quiet
<1>3. ~moving => width = AimWidth(p)
  BY DEF DInv, SentRight, Quiet
<1>4. CASE moving
  BY <1>1, <1>2, <1>4 DEF Aim
<1>5. CASE ~moving /\ edge = "left"
  <2>1. pos = start.x + p - start.p
    BY <1>1, <1>2, <1>5 DEF Aim
  <2>2. width > MinWidth => width = start.w - (p - start.p)
    BY <1>1, <1>3, <1>5 DEF AimWidth, AtLeast
  <2> QED BY <1>1, <1>5, <2>1, <2>2
<1>6. CASE ~moving /\ edge = "right"
  <2>1. pos = start.x
    BY <1>1, <1>2, <1>6 DEF Aim
  <2>2. width > MinWidth => width = start.w + (p - start.p)
    BY <1>1, <1>3, <1>6 DEF AimWidth, AtLeast
  <2> QED BY <1>1, <1>6, <2>1, <2>2
<1>7. edge \in {"left", "right", "none"}
  BY KindsAssumption DEF DInv, TypeOK
<1> QED BY <1>4, <1>5, <1>6, <1>7 DEF Dragging

(***************************************************************************)
(* The release.                                                             *)
(***************************************************************************)
LEMMA InQueue ==
    ASSUME NEW s \in Seq(Events), NEW e \in Events, NEW r
    PROVE  /\ r \in Range(Append(s, e)) <=> r \in Range(s) \/ r = e
           /\ s # <<>> => (r \in Range(s) <=> r \in Range(Tail(s)) \/ r = Head(s))
<1>1. PICK n \in Nat : n = Len(s)
  OBVIOUS
<1>2. r \in Range(Append(s, e)) <=> r \in Range(s) \/ r = e
  <2>1. /\ DOMAIN Append(s, e) = 1..(n + 1) /\ DOMAIN s = 1..n
        /\ Append(s, e)[n + 1] = e /\ \A i \in 1..n : Append(s, e)[i] = s[i]
    BY <1>1
  <2> QED BY <2>1 DEF Range
<1>3. ASSUME s # <<>> PROVE r \in Range(s) <=> r \in Range(Tail(s)) \/ r = Head(s)
  <2>1. /\ Len(s) \in Nat \ {0} /\ Head(s) = s[1] /\ Tail(s) \in Seq(Events)
        /\ Len(Tail(s)) = Len(s) - 1
        /\ \A i \in 1..(Len(s) - 1) : Tail(s)[i] = s[i + 1]
    BY <1>3, HeadTail
  <2>2. PICK m \in Nat : n = m + 1
    <3>1. n - 1 \in Nat /\ n = (n - 1) + 1
      BY <1>1, <2>1
    <3> QED BY <3>1
  <2>3. /\ DOMAIN s = 1..(m + 1) /\ DOMAIN Tail(s) = 1..m
        /\ \A i \in 1..m : Tail(s)[i] = s[i + 1]
    BY <1>1, <2>1, <2>2
  <2>4. ASSUME NEW i \in 1..(m + 1) PROVE i = 1 \/ (i - 1 \in 1..m /\ Tail(s)[i - 1] = s[i])
    <3>1. CASE i # 1
      <4>1. i - 1 \in 1..m /\ (i - 1) + 1 = i
        BY <3>1
      <4> QED BY <2>3, <4>1
    <3> QED BY <3>1
  <2>5. ASSUME NEW i \in 1..m PROVE i + 1 \in 1..(m + 1) /\ Tail(s)[i] = s[i + 1]
    BY <2>3
  <2>6. 1 \in 1..(m + 1)
    OBVIOUS
  <2>7. ASSUME r \in Range(s) PROVE r \in Range(Tail(s)) \/ r = Head(s)
    <3>1. PICK i \in 1..(m + 1) : s[i] = r
      BY <2>3, <2>7 DEF Range
    <3>2. CASE i = 1
      BY <2>1, <3>1, <3>2
    <3>3. CASE i # 1
      <4>1. i - 1 \in DOMAIN Tail(s) /\ Tail(s)[i - 1] = r
        BY <2>3, <2>4, <3>1, <3>3
      <4> QED BY <4>1 DEF Range
    <3> QED BY <3>2, <3>3
  <2>8. ASSUME r \in Range(Tail(s)) PROVE r \in Range(s)
    <3>1. PICK i \in 1..m : Tail(s)[i] = r
      BY <2>3, <2>8 DEF Range
    <3>2. i + 1 \in DOMAIN s /\ s[i + 1] = r
      BY <2>3, <2>5, <3>1
    <3> QED BY <3>2 DEF Range
  <2>9. Head(s) \in Range(s)
    BY <2>1, <2>3, <2>6 DEF Range
  <2> QED BY <2>7, <2>8, <2>9
<1> QED BY <1>2, <1>3

\* A release stays in its queue until it is handled.
LEMMA Waits ==
    ASSUME TypeOK, NEW e \in Events
    PROVE  /\ Sent(e) /\ Queued("release") => Queued("release")'
           /\ Sent("release") => Queued("release")'
           /\ Handles(e) /\ e # "release" /\ Queued("release") => Queued("release")'
           /\ HandlesCore(e) /\ e # "release" /\ Queued("release") => Queued("release")'
<1>1. input \in Seq(Events) /\ core \in Seq(Events) /\ "release" \in Events
  BY DEF TypeOK, Events
<1>2. Sent(e) /\ Queued("release") => Queued("release")'
  BY <1>1, InQueue DEF Sent, Queued
<1>3. Sent("release") => Queued("release")'
  BY <1>1, InQueue DEF Sent, Queued
<1>4. Handles(e) /\ e # "release" /\ Queued("release") => Queued("release")'
  BY <1>1, InQueue DEF Handles, Queued
<1>5. HandlesCore(e) /\ e # "release" /\ Queued("release") => Queued("release")'
  BY <1>1, InQueue DEF HandlesCore, Queued
<1> QED BY <1>2, <1>3, <1>4, <1>5

LEMMA StepComing == ASSUME DInv, Next PROVE StillComing'
<1> USE DEF DInv
<1> SUFFICES ASSUME Dragging', stray' = "no" PROVE ReleaseComing'
  BY DEF StillComing
<1>0. TypeOK /\ {"motion", "press", "release"} \subseteq Events
  BY DEF Events
<1>1. ASSUME UNCHANGED <<moving, edge, stray>> PROVE ReleaseComing
  BY <1>1 DEF StillComing, Dragging
<1>2. ASSUME NEW p \in Pointers, MovePointer(p) PROVE ReleaseComing'
  <2>1. UNCHANGED <<down, moving, edge, stray>> /\ Sent("motion")
    BY <1>2 DEF MovePointer, drag, history
  <2> QED BY <1>0, <1>1, <2>1, Waits DEF ReleaseComing
<1>3. CASE Press
  BY <1>3 DEF Press, ReleaseComing
<1>4. CASE Release
  <2>1. UNCHANGED <<moving, edge>>
    BY <1>4 DEF Release, drag
  <2>2. CASE Sent("release")
    BY <1>0, <2>2, Waits DEF ReleaseComing
  <2>3. CASE Missed
    BY <2>1, <2>3 DEF Missed, Dragging
  <2> QED BY <1>4, <2>2, <2>3 DEF Release
<1>5. ASSUME UNCHANGED <<down, input, core, moving, edge, stray>> PROVE ReleaseComing'
  BY <1>1, <1>5 DEF ReleaseComing, Queued
<1>6. CASE Begin
  <2>1. ReleaseComing /\ UNCHANGED <<down, input, core>>
    BY <1>6 DEF Begin, user, queues
  <2> QED BY <2>1 DEF ReleaseComing, Queued
<1>7. ASSUME NEW e \in Events, Handles(e) \/ HandlesCore(e), e # "release",
             UNCHANGED <<down, moving, edge, stray>>
      PROVE  ReleaseComing'
  BY <1>0, <1>1, <1>7, Waits DEF ReleaseComing
<1>8. CASE HandlePress
  BY <1>0, <1>7, <1>8 DEF HandlePress, user, drag, history
<1>9. CASE CorePress
  BY <1>0, <1>7, <1>9 DEF CorePress, user, drag, history
<1>10. CASE HandleMotion \/ CoreMotion
  BY <1>0, <1>7, <1>10 DEF HandleMotion, CoreMotion, FollowPointer, user, drag
<1>11. CASE HandleRelease
  BY <1>11 DEF HandleRelease, Dragging
<1>12. CASE CoreRelease
  BY <1>12 DEF CoreRelease, Missed, Dragging, drag
<1>13. CASE DropCore
  <2>1. UNCHANGED <<down, moving, edge, input>> /\ core # <<>> /\ core' = Tail(core)
    BY <1>13 DEF DropCore, user, drag
  <2>2. PICK e \in Events : e = Head(core)
    BY <2>1, HeadTail DEF TypeOK, Events
  <2>3. CASE e = "release"
    BY <1>13, <2>1, <2>2, <2>3 DEF DropCore, Missed, Dragging
  <2>4. CASE e # "release"
    <3>1. HandlesCore(e) /\ UNCHANGED stray
      BY <1>13, <2>1, <2>2, <2>4 DEF DropCore, HandlesCore
    <3> QED BY <1>7, <2>1, <2>4, <3>1
  <2> QED BY <2>3, <2>4
<1>14. ASSUME NEW k \in Kinds, Ask(k) PROVE ReleaseComing'
  BY <1>5, <1>14 DEF Ask, user, queues, drag, history
<1>15. CASE Menus
  BY <1>5, <1>15 DEF Menus, MenuGrabs, MenuCloses, user, queues, drag, history
<1>16. CASE HandleNotify \/ Place
  BY <1>5, <1>16 DEF HandleNotify, Place, user, queues, drag, history
<1> QED
  BY <1>2, <1>3, <1>4, <1>6, <1>8, <1>9, <1>10, <1>11, <1>12, <1>13, <1>14, <1>15, <1>16
  DEF Next, User, Compositor

LEMMA Outlives == DInv => EndsWithItsRelease
BY DEF DInv, StillComing, ReleaseComing, EndsWithItsRelease

(***************************************************************************)
(* The theorems.                                                            *)
(***************************************************************************)
LEMMA InitInv == Init => DInv
<1> SUFFICES ASSUME Init PROVE DInv
  OBVIOUS
<1>1. TypeOK
  BY InitTypes
<1>2. NewestKnown /\ WrongIsRelearned /\ SentRight
  BY DEF Init, NewestKnown, WrongIsRelearned, SentRight, Dragging
<1>3. StillComing
  BY DEF Init, StillComing, Dragging
<1> QED BY <1>1, <1>2, <1>3 DEF DInv

LEMMA Stutters == ASSUME DInv, UNCHANGED vars PROVE DInv'
<1>0. UNCHANGED tracking /\ UNCHANGED <<user, queues, held, client, grab, drag, follow, host, history>>
  BY DEF vars, tracking, follow, history
<1>1. TypeOK'
  BY <1>0 DEF DInv, TypeOK, user, queues, client, drag, follow, host, history
<1>2. NewestKnown'
  BY <1>0 DEF tracking, drag, host, NewestKnown, Dragging, DInv
<1>3. WrongIsRelearned'
  BY <1>0 DEF tracking, drag, host, WrongIsRelearned, Dragging, DInv
<1>4. SentRight'
  BY <1>0 DEF tracking, drag, host, SentRight, Aim, AimWidth, Dragging, DInv
<1>5. StillComing'
  BY <1>0 DEF user, queues, drag, history, StillComing, ReleaseComing, Queued, Dragging, DInv
<1> QED BY <1>1, <1>2, <1>3, <1>4, <1>5 DEF DInv

\* The invariant the others follow from.
THEOREM Inductive == Spec => []DInv
<1>1. ASSUME DInv, [Next]_vars PROVE DInv'
  <2>1. CASE Next
    <3>1. TypeOK'
      BY <2>1, <1>1, StepTypes DEF DInv
    <3> QED
      BY <2>1, <1>1, <3>1, StepNewest, StepWrong, StepSent, StepComing DEF DInv
  <2>2. CASE UNCHANGED vars
    BY <1>1, <2>2, Stutters
  <2> QED BY <1>1, <2>1, <2>2
<1> QED
  BY <1>1, InitInv, PTL DEF Spec

\* Every variable has its type; no request asks for less than the least width
\* (WLX_MIN_WINDOW_SIZE), so the window never gets narrower.
THEOREM TypeCorrect == Spec => []TypeOK
<1>1. DInv => TypeOK
  BY DEF DInv
<1> QED BY <1>1, Inductive, PTL

\* With nothing in flight a correction learned in the drag is the WM's
\* displacement, whatever answers were mistaken for others on the way.
THEOREM Correct == Spec => []CorrectionIsInset
BY Corrected, Inductive, PTL

\* A request sent from such a state puts the window where the drag wants it.
THEOREM Lands == Spec => []LandsUnderPointer
BY Landed, Inductive, PTL

\* With the button up and every event handled, a drag is still on only if it was
\* begun with no release left to come, or its release went another way than to
\* server_cursor_button (handle_core_pointer_during_grab, or dropped by
\* handle_xcb_readable): a release that server_cursor_button gets ends every drag.
THEOREM EndsWithRelease == Spec => []EndsWithItsRelease
BY Outlives, Inductive, PTL
=============================================================================
