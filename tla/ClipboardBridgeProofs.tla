----------------------- MODULE ClipboardBridgeProofs -----------------------
(***************************************************************************)
(* clip_we_own_x11 and pri_we_own_x11 converge on the server's idea of who  *)
(* owns the selections, for any texts, any number of copies in flight and   *)
(* any applications.                                                        *)
(*                                                                         *)
(* The argument: of the events about a selection's ownership that are still *)
(* queued the newest is an XFixes notify, never a SelectionClear, and names *)
(* the owner of the moment; with none queued the flag is right.             *)
(*                                                                         *)
(* The second half shows Bridged: both sides end up with the last copy.     *)
(***************************************************************************)
EXTENDS ClipboardBridge, FiniteSetTheorems, SequenceTheorems, TLAPS

IsOwn(e, s) == e.kind \in {"clear", "owner"} /\ e.sel = s
NoOwn(q, s) == \A i \in 1..Len(q) : ~IsOwn(q[i], s)
NewestNames(q, s, owner) ==
    \A i \in 1..Len(q) :
       IsOwn(q[i], s) /\ (\A j \in 1..Len(q) : j > i => ~IsOwn(q[j], s))
         => q[i].kind = "owner" /\ q[i].owner = owner

KnownOf(s) ==
    /\ NewestNames(events, s, xOwner[s])
    /\ NoOwn(events, s) => (weOwn[s] <=> xOwner[s] = Wlx)
Known == \A s \in Selections : KnownOf(s)

AppOwnsText == \A s \in Selections : xOwner[s] = App => appText[s] \in Texts

CInv == TypeOK /\ AppOwnsText /\ Known

(***************************************************************************)
(* Queues.                                                                  *)
(***************************************************************************)
LEMMA Appended ==
    ASSUME NEW S, NEW s \in Seq(S), NEW e \in S
    PROVE  /\ Append(s, e) \in Seq(S) /\ Append(s, e) # <<>>
           /\ Len(Append(s, e)) = Len(s) + 1 /\ Len(s) \in Nat
           /\ Append(s, e)[Len(s) + 1] = e
           /\ \A i \in 1..Len(s) : Append(s, e)[i] = s[i]
OBVIOUS

LEMMA HeadTail ==
    ASSUME NEW S, NEW s \in Seq(S), s # <<>>
    PROVE  /\ Head(s) = s[1] /\ Head(s) \in S
           /\ Tail(s) \in Seq(S) /\ Len(s) \in Nat \ {0}
           /\ Len(Tail(s)) = Len(s) - 1
           /\ \A i \in 1..(Len(s) - 1) : Tail(s)[i] = s[i + 1]
<1>1. Len(s) \in Nat \ {0} /\ Head(s) = s[1]
  OBVIOUS
<1>2. Head(s) \in S
  BY <1>1
<1>3. Tail(s) \in Seq(S) /\ Len(Tail(s)) = Len(s) - 1
  OBVIOUS
<1>4. \A i \in 1..(Len(s) - 1) : Tail(s)[i] = s[i + 1]
  OBVIOUS
<1> QED BY <1>1, <1>2, <1>3, <1>4

\* An event that is not about s's ownership changes nothing.
LEMMA AppendOther ==
    ASSUME NEW q \in Seq(Event), NEW e \in Event, NEW s, ~IsOwn(e, s)
    PROVE  /\ NoOwn(Append(q, e), s) => NoOwn(q, s)
           /\ \A w : NewestNames(q, s, w) => NewestNames(Append(q, e), s, w)
<1> DEFINE t == Append(q, e)
<1>1. /\ Len(t) = Len(q) + 1 /\ Len(q) \in Nat /\ t[Len(q) + 1] = e
      /\ \A i \in 1..Len(q) : t[i] = q[i]
  BY Appended
<1> HIDE DEF t
<1>2. PICK n \in Nat : n = Len(q)
  BY <1>1
<1>3. 1..Len(q) = 1..n /\ 1..Len(t) = 1..(n + 1) /\ t[n + 1] = e
  BY <1>1, <1>2
<1>4. \A i \in 1..n : t[i] = q[i] /\ i \in 1..(n + 1)
  BY <1>1, <1>2
<1>5. NoOwn(t, s) => NoOwn(q, s)
  BY <1>3, <1>4 DEF NoOwn
<1>6. ASSUME NEW w, NewestNames(q, s, w) PROVE NewestNames(t, s, w)
  <2> SUFFICES ASSUME NEW i \in 1..(n + 1), IsOwn(t[i], s),
                      \A j \in 1..(n + 1) : j > i => ~IsOwn(t[j], s)
               PROVE  t[i].kind = "owner" /\ t[i].owner = w
    BY <1>3 DEF NewestNames
  <2>1. i # n + 1
    BY <1>3
  <2>2. i \in 1..n
    BY <2>1
  <2>3. t[i] = q[i] /\ \A j \in 1..n : j > i => ~IsOwn(q[j], s)
    BY <1>4, <2>2
  <2> QED BY <1>3, <1>6, <2>2, <2>3 DEF NewestNames
<1> QED BY <1>5, <1>6 DEF t

\* An XFixes notify settles what the newest one says.
LEMMA AppendOwner ==
    ASSUME NEW q \in Seq(Event), NEW e \in Event, e.kind = "owner"
    PROVE  /\ ~NoOwn(Append(q, e), e.sel)
           /\ NewestNames(Append(q, e), e.sel, e.owner)
<1> DEFINE t == Append(q, e)
<1>1. /\ Len(t) = Len(q) + 1 /\ Len(q) \in Nat /\ t[Len(q) + 1] = e
  BY Appended
<1> HIDE DEF t
<1>2. PICK n \in Nat : n = Len(q)
  BY <1>1
<1>3. 1..Len(t) = 1..(n + 1) /\ t[n + 1] = e /\ n + 1 \in 1..(n + 1)
  BY <1>1, <1>2
<1>4. IsOwn(t[n + 1], e.sel)
  BY <1>3 DEF IsOwn
<1>5. ~NoOwn(t, e.sel)
  BY <1>3, <1>4 DEF NoOwn
<1>6. NewestNames(t, e.sel, e.owner)
  <2> SUFFICES ASSUME NEW i \in 1..(n + 1),
                      \A j \in 1..(n + 1) : j > i => ~IsOwn(t[j], e.sel)
               PROVE  t[i].kind = "owner" /\ t[i].owner = e.owner
    BY <1>3 DEF NewestNames
  <2>1. ~(n + 1 > i)
    BY <1>3, <1>4
  <2>2. i = n + 1
    BY <2>1
  <2> QED BY <1>3, <2>2
<1> QED BY <1>5, <1>6 DEF t

\* What the event handled tells when it was the last about s, or not about s.
LEMMA DropEvent ==
    ASSUME NEW q \in Seq(Event), q # <<>>, NEW s, NEW w, NewestNames(q, s, w)
    PROVE  /\ NewestNames(Tail(q), s, w)
           /\ NoOwn(Tail(q), s) /\ IsOwn(Head(q), s) =>
                Head(q).kind = "owner" /\ Head(q).owner = w
           /\ NoOwn(Tail(q), s) /\ ~IsOwn(Head(q), s) => NoOwn(q, s)
<1> DEFINE t == Tail(q)
<1>1. /\ Len(t) = Len(q) - 1 /\ Len(q) \in Nat \ {0} /\ Head(q) = q[1]
      /\ \A i \in 1..(Len(q) - 1) : t[i] = q[i + 1]
  BY HeadTail
<1> HIDE DEF t
<1>2. PICK n \in Nat : Len(q) = n + 1
  <2>1. Len(q) - 1 \in Nat /\ Len(q) = (Len(q) - 1) + 1
    BY <1>1
  <2> QED BY <2>1
<1>3. /\ 1..Len(t) = 1..n /\ 1..Len(q) = 1..(n + 1) /\ 1 \in 1..(n + 1)
      /\ \A i \in 1..n : t[i] = q[i + 1] /\ i + 1 \in 1..(n + 1)
  BY <1>1, <1>2
<1>4. \A j \in 1..(n + 1) : j > 1 => j - 1 \in 1..n /\ t[j - 1] = q[j]
  BY <1>3
<1>5. NewestNames(t, s, w)
  <2> SUFFICES ASSUME NEW i \in 1..n, IsOwn(t[i], s),
                      \A j \in 1..n : j > i => ~IsOwn(t[j], s)
               PROVE  t[i].kind = "owner" /\ t[i].owner = w
    BY <1>3 DEF NewestNames
  <2>1. ASSUME NEW j \in 1..(n + 1), j > i + 1 PROVE ~IsOwn(q[j], s)
    <3>1. j - 1 \in 1..n /\ j - 1 > i /\ t[j - 1] = q[j]
      BY <1>4, <2>1
    <3> QED BY <3>1
  <2>2. t[i] = q[i + 1] /\ i + 1 \in 1..(n + 1)
    BY <1>3
  <2> QED BY <1>3, <2>1, <2>2 DEF NewestNames
<1>6. ASSUME NoOwn(t, s) PROVE \A j \in 1..(n + 1) : j > 1 => ~IsOwn(q[j], s)
  BY <1>3, <1>4, <1>6 DEF NoOwn
<1>7. ASSUME NoOwn(t, s), IsOwn(q[1], s) PROVE q[1].kind = "owner" /\ q[1].owner = w
  BY <1>3, <1>6, <1>7 DEF NewestNames
<1>8. ASSUME NoOwn(t, s), ~IsOwn(q[1], s) PROVE NoOwn(q, s)
  <2> SUFFICES ASSUME NEW j \in 1..(n + 1) PROVE ~IsOwn(q[j], s)
    BY <1>3 DEF NoOwn
  <2>1. j = 1 \/ j > 1
    OBVIOUS
  <2> QED BY <1>6, <1>8, <2>1
<1> QED BY <1>1, <1>5, <1>7, <1>8 DEF t

(***************************************************************************)
(* Types.                                                                   *)
(***************************************************************************)
LEMMA EvTyped ==
    ASSUME NEW kind \in {"clear", "owner", "notify", "request"}, NEW sel \in Selections,
           NEW owner \in {NoOwner, Wlx, App}, NEW ok \in BOOLEAN
    PROVE  /\ Ev(kind, sel, owner, ok) \in Event
           /\ Ev(kind, sel, owner, ok).kind = kind /\ Ev(kind, sel, owner, ok).sel = sel
           /\ Ev(kind, sel, owner, ok).owner = owner
BY DEF Ev, Event

LEMMA OwnerEventsAppended ==
    ASSUME TypeOK, NEW sel \in Selections, NEW owner \in {NoOwner, Wlx, App}
    PROVE  \E e \in Event, c \in Event :
             /\ e.kind = "owner" /\ e.sel = sel /\ e.owner = owner
             /\ c.kind = "clear" /\ c.sel = sel
             /\ \/ events \o OwnerEvents(sel, owner) = Append(events, e)
                \/ /\ owner # Wlx
                   /\ events \o OwnerEvents(sel, owner) = Append(Append(events, c), e)
<1>1. PICK e \in Event : e = Ev("owner", sel, owner, TRUE)
  <2>1. Ev("owner", sel, owner, TRUE) \in Event
    BY DEF Ev, Event
  <2> QED BY <2>1, Zenon
<1>0. PICK c \in Event : c = Ev("clear", sel, owner, TRUE)
  <2>1. Ev("clear", sel, owner, TRUE) \in Event
    BY DEF Ev, Event
  <2> QED BY <2>1, Zenon
<1>6. /\ e.kind = "owner" /\ e.sel = sel /\ e.owner = owner
      /\ c.kind = "clear" /\ c.sel = sel
  BY <1>0, <1>1 DEF Ev
<1>2. \/ owner # Wlx /\ OwnerEvents(sel, owner) = <<c>> \o <<e>>
      \/ OwnerEvents(sel, owner) = <<>> \o <<e>>
  BY <1>0, <1>1 DEF OwnerEvents
<1>3. events \in Seq(Event)
  BY DEF TypeOK
<1>4. /\ events \o (<<c>> \o <<e>>) = Append(Append(events, c), e)
      /\ events \o (<<>> \o <<e>>) = Append(events, e)
  <2>1. Append(events, c) \in Seq(Event) /\ <<c>> \in Seq(Event) /\ <<e>> \in Seq(Event)
    BY <1>3
  <2>2. Append(events, e) = events \o <<e>> /\ Append(events, c) = events \o <<c>>
    BY <1>3, AppendIsConcat
  <2>3. Append(Append(events, c), e) = (events \o <<c>>) \o <<e>>
    BY <2>1, <2>2, AppendIsConcat
  <2>4. (events \o <<c>>) \o <<e>> = events \o (<<c>> \o <<e>>)
    BY <1>3, <2>1, ConcatAssociative
  <2>5. <<>> \o <<e>> = <<e>>
    BY <2>1, ConcatEmptySeq
  <2> QED BY <2>2, <2>3, <2>4, <2>5
<1>5. \/ events \o OwnerEvents(sel, owner) = Append(events, e)
      \/ owner # Wlx /\ events \o OwnerEvents(sel, owner) = Append(Append(events, c), e)
  BY <1>2, <1>4, Zenon
<1> QED BY <1>5, <1>6, Zenon

\* The server's events end with the XFixes notify.
LEMMA OwnerEventsTyped ==
    ASSUME TypeOK, NEW sel \in Selections, NEW owner \in {NoOwner, Wlx, App}
    PROVE  \E q \in Seq(Event), e \in Event :
             /\ events \o OwnerEvents(sel, owner) = Append(q, e)
             /\ q = events \/ \E c \in Event : c.sel = sel /\ q = Append(events, c)
             /\ e.kind = "owner" /\ e.sel = sel /\ e.owner = owner
<1>1. PICK e \in Event, c \in Event :
         /\ e.kind = "owner" /\ e.sel = sel /\ e.owner = owner /\ c.sel = sel
         /\ \/ events \o OwnerEvents(sel, owner) = Append(events, e)
            \/ events \o OwnerEvents(sel, owner) = Append(Append(events, c), e)
  BY OwnerEventsAppended
<1>2. events \in Seq(Event) /\ Append(events, c) \in Seq(Event)
  BY Appended DEF TypeOK
<1> QED BY <1>1, <1>2, Zenon

\* A conversion appends one event at most, and none about ownership.
LEMMA Converts ==
    ASSUME TypeOK, AppOwnsText, NEW sel \in Selections, NEW q \in Seq(Event), Convert(sel, q)
    PROVE  /\ asked' \in Seq(Request)
           /\ property' \in [Selections -> Texts \cup {NoText, Truncated}]
           /\ \/ events' = q
              \/ \E e \in Event : events' = Append(q, e) /\ e.kind \in {"request", "notify"}
<1>1. property' \in [Selections -> Texts \cup {NoText, Truncated}]
  BY DEF Convert, TypeOK
<1>2. CASE xOwner[sel] = App /\ events' = q /\ asked' = Append(asked, [sel |-> sel, text |-> appText[sel]])
  <2>1. appText[sel] \in Texts
    BY <1>2 DEF AppOwnsText
  <2>2. PICK r \in Request : r = [sel |-> sel, text |-> appText[sel]]
    BY <2>1 DEF Request
  <2>3. asked \in Seq(Request) /\ asked' = Append(asked, r)
    BY <1>2, <2>2 DEF TypeOK
  <2>4. asked' \in Seq(Request)
    BY <2>2, <2>3
  <2> QED BY <1>1, <1>2, <2>4
<1>3. CASE UNCHANGED asked /\ events' = Append(q, Ev("request", sel, Wlx, TRUE))
  <2>1. Ev("request", sel, Wlx, TRUE) \in Event /\ Ev("request", sel, Wlx, TRUE).kind = "request"
    BY EvTyped
  <2> QED BY <1>1, <1>3, <2>1, Zenon DEF TypeOK
<1>4. CASE UNCHANGED asked /\ events' = Append(q, Ev("notify", sel, NoOwner, FALSE))
  <2>1. Ev("notify", sel, NoOwner, FALSE) \in Event /\ Ev("notify", sel, NoOwner, FALSE).kind = "notify"
    BY EvTyped
  <2> QED BY <1>1, <1>4, <2>1, Zenon DEF TypeOK
<1> QED BY <1>2, <1>3, <1>4 DEF Convert

LEMMA Answered ==
    ASSUME NEW q \in Seq(Request), NEW k \in 1..Len(q)
    PROVE  RemoveAt(q, k) \in Seq(Request) /\ q[k] \in Request
<1>1. Len(q) \in Nat /\ q[k] \in Request
  OBVIOUS
<1>2. SubSeq(q, 1, k - 1) \in Seq(Request) /\ SubSeq(q, k + 1, Len(q)) \in Seq(Request)
  BY <1>1
<1> QED BY <1>1, <1>2 DEF RemoveAt

(***************************************************************************)
(* The invariant, step by step.                                             *)
(***************************************************************************)
LEMMA KnownKept ==
    ASSUME CInv, UNCHANGED <<weOwn, xOwner, events>>
    PROVE  Known'
BY DEF CInv, Known, KnownOf

\* A change of owner in the server.
LEMMA KnownChanges ==
    ASSUME CInv, NEW sel \in Selections, NEW owner \in {NoOwner, Wlx, App},
           xOwner' = [xOwner EXCEPT ![sel] = owner],
           events' = events \o OwnerEvents(sel, owner),
           \A s \in Selections : s # sel => weOwn'[s] = weOwn[s]
    PROVE  Known' /\ events' \in Seq(Event)
<1> USE DEF CInv
<1>1. PICK q \in Seq(Event), e \in Event :
         /\ events' = Append(q, e)
         /\ q = events \/ \E c \in Event : c.sel = sel /\ q = Append(events, c)
         /\ e.kind = "owner" /\ e.sel = sel /\ e.owner = owner
  <2>1. \E q \in Seq(Event), e \in Event :
          /\ events \o OwnerEvents(sel, owner) = Append(q, e)
          /\ q = events \/ \E c \in Event : c.sel = sel /\ q = Append(events, c)
          /\ e.kind = "owner" /\ e.sel = sel /\ e.owner = owner
    BY OwnerEventsTyped
  <2> QED BY <2>1
<1>2. /\ \A s \in Selections : s # sel => xOwner'[s] = xOwner[s]
      /\ xOwner'[sel] = owner
  BY DEF TypeOK
<1>3. KnownOf(sel)'
  <2>1. ~NoOwn(events', sel) /\ NewestNames(events', sel, owner)
    BY <1>1, AppendOwner
  <2> QED BY <1>2, <2>1 DEF KnownOf
<1>4. ASSUME NEW s \in Selections, s # sel PROVE KnownOf(s)'
  <2>1. KnownOf(s) /\ events \in Seq(Event)
    BY DEF Known, TypeOK
  <2>2. /\ NoOwn(q, s) => NoOwn(events, s)
        /\ \A w : NewestNames(events, s, w) => NewestNames(q, s, w)
    <3>1. CASE q = events
      BY <3>1
    <3>2. ASSUME NEW c \in Event, c.sel = sel, q = Append(events, c)
          PROVE  /\ NoOwn(q, s) => NoOwn(events, s)
                 /\ \A w : NewestNames(events, s, w) => NewestNames(q, s, w)
      <4>1. ~IsOwn(c, s)
        BY <1>4, <3>2 DEF IsOwn
      <4> QED BY <2>1, <3>2, <4>1, AppendOther
    <3> QED BY <1>1, <3>1, <3>2
  <2>3. ~IsOwn(e, s)
    BY <1>1, <1>4 DEF IsOwn
  <2>4. /\ NoOwn(events', s) => NoOwn(q, s)
        /\ \A w : NewestNames(q, s, w) => NewestNames(events', s, w)
    BY <1>1, <2>3, AppendOther
  <2>5. xOwner'[s] = xOwner[s] /\ weOwn'[s] = weOwn[s]
    BY <1>2, <1>4
  <2> QED BY <2>1, <2>2, <2>4, <2>5 DEF KnownOf
<1> QED BY <1>1, <1>3, <1>4, Appended DEF Known

\* An event is handled; another that is not about ownership may follow.
LEMMA KnownHandled ==
    ASSUME CInv, UNCHANGED xOwner, events # <<>>,
           \/ events' = Tail(events)
           \/ \E e \in Event : events' = Append(Tail(events), e) /\ e.kind \in {"request", "notify"},
           \A s \in Selections :
              /\ ~IsOwn(Head(events), s) => weOwn'[s] = weOwn[s]
              /\ IsOwn(Head(events), s) /\ Head(events).kind = "owner"
                   => (weOwn'[s] <=> Head(events).owner = Wlx)
    PROVE  Known' /\ events' \in Seq(Event)
<1> USE DEF CInv
<1>0. events \in Seq(Event) /\ Tail(events) \in Seq(Event)
  <2>1. events \in Seq(Event)
    BY DEF TypeOK
  <2> QED BY <2>1, HeadTail
<1>1. events' \in Seq(Event)
  BY <1>0, Appended
<1>2. ASSUME NEW s \in Selections PROVE KnownOf(s)'
  <2>1. /\ NoOwn(events', s) => NoOwn(Tail(events), s)
        /\ \A w : NewestNames(Tail(events), s, w) => NewestNames(events', s, w)
    <3>1. ASSUME NEW e \in Event, e.kind \in {"request", "notify"}, events' = Append(Tail(events), e)
          PROVE  /\ NoOwn(events', s) => NoOwn(Tail(events), s)
                 /\ \A w : NewestNames(Tail(events), s, w) => NewestNames(events', s, w)
      <4>1. ~IsOwn(e, s)
        BY <3>1 DEF IsOwn
      <4> QED BY <1>0, <3>1, <4>1, AppendOther
    <3> QED BY <3>1
  <2>2. NewestNames(events, s, xOwner[s]) /\ (NoOwn(events, s) => (weOwn[s] <=> xOwner[s] = Wlx))
    BY DEF Known, KnownOf
  <2>3. /\ NewestNames(Tail(events), s, xOwner[s])
        /\ NoOwn(Tail(events), s) /\ IsOwn(Head(events), s) =>
             Head(events).kind = "owner" /\ Head(events).owner = xOwner[s]
        /\ NoOwn(Tail(events), s) /\ ~IsOwn(Head(events), s) => NoOwn(events, s)
    BY <1>0, <2>2, DropEvent
  <2>4. NoOwn(Tail(events), s) => (weOwn'[s] <=> xOwner[s] = Wlx)
    <3>1. CASE IsOwn(Head(events), s)
      BY <2>3, <3>1
    <3>2. CASE ~IsOwn(Head(events), s)
      BY <2>2, <2>3, <3>2
    <3> QED BY <3>1, <3>2
  <2> QED BY <2>1, <2>3, <2>4 DEF KnownOf
<1> QED BY <1>1, <1>2 DEF Known

(***************************************************************************)
(* The initial state.                                                       *)
(***************************************************************************)
LEMMA SetToSeqTyped ==
    ASSUME NEW S, IsFiniteSet(S)
    PROVE  SetToSeq(S) \in Seq(S)
<1>1. Cardinality(S) \in Nat /\ ExistsBijection(1..Cardinality(S), S)
  BY FS_CardinalityType
<1>2. \E f \in [1..Cardinality(S) -> S] : IsInjective(f)
  BY <1>1, Zenon DEF ExistsBijection, Bijection, Injection, Surjection
<1>3. SetToSeq(S) \in [1..Cardinality(S) -> S]
  BY <1>2, Zenon DEF SetToSeq
<1> QED BY <1>1, <1>3

LEMMA SetToSeqOnto ==
    ASSUME NEW S, IsFiniteSet(S)
    PROVE  \A r : r \in {SetToSeq(S)[i] : i \in 1..Len(SetToSeq(S))} <=> r \in S
<1>1. Cardinality(S) \in Nat /\ ExistsBijection(1..Cardinality(S), S)
  BY FS_CardinalityType
<1>2. PICK g \in Bijection(1..Cardinality(S), S) : TRUE
  BY <1>1 DEF ExistsBijection
<1>3. g \in [1..Cardinality(S) -> S] /\ IsInjective(g)
  BY <1>2, Zenon DEF Bijection, Injection
<1>4. SetToSeq(S) \in [1..Cardinality(S) -> S] /\ IsInjective(SetToSeq(S))
  BY <1>3, Zenon DEF SetToSeq
<1>5. SetToSeq(S) \in Injection(1..Cardinality(S), S)
  BY <1>4, Zenon DEF Injection
<1>6. Cardinality(1..Cardinality(S)) = Cardinality(S)
  BY <1>1, FS_Interval
<1>7. SetToSeq(S) \in Surjection(1..Cardinality(S), S)
  BY <1>5, <1>6, FS_Injection, Zenon
<1>8. \A r \in S : \E i \in 1..Cardinality(S) : SetToSeq(S)[i] = r
  BY <1>7, Zenon DEF Surjection
<1>9. Len(SetToSeq(S)) = Cardinality(S)
  BY <1>1, <1>4
<1> QED BY <1>4, <1>8, <1>9

LEMMA OwnersFinite ==
    IsFiniteSet({[sel |-> s, text |-> appText[s]] : s \in {t \in Selections : xOwner[t] = App}})
<1> DEFINE T == {t \in Selections : xOwner[t] = App}
           R == {[sel |-> s, text |-> appText[s]] : s \in T}
           f == [s \in T |-> [sel |-> s, text |-> appText[s]]]
<1>1. IsFiniteSet(T)
  BY SelectionsAssumption, FS_Subset
<1>2. f \in Surjection(T, R)
  BY Zenon DEF Surjection
<1>3. IsFiniteSet(R)
  BY <1>1, <1>2, FS_Surjection
<1> QED BY <1>3

LEMMA InitInv == Init => CInv
<1> SUFFICES ASSUME Init PROVE CInv
  OBVIOUS
<1> DEFINE T == {t \in Selections : xOwner[t] = App}
           R == {[sel |-> s, text |-> appText[s]] : s \in T}
<1>1. AppOwnsText
  <2> SUFFICES ASSUME NEW s \in Selections, xOwner[s] = App PROVE appText[s] \in Texts
    BY DEF AppOwnsText
  <2>1. appText[s] # NoText /\ appText[s] \in Texts \cup {NoText}
    BY DEF Init, App, NoOwner
  <2> QED BY <2>1
<1>2. asked \in Seq(Request)
  <2>2. IsFiniteSet(R)
    BY OwnersFinite
  <2>3. R \subseteq Request
    BY <1>1 DEF AppOwnsText, Request
  <2>4. asked = SetToSeq(R)
    BY DEF Init
  <2> HIDE DEF R
  <2>5. asked \in Seq(R)
    BY <2>2, <2>4, SetToSeqTyped
  <2> QED BY <2>3, <2>5
<1>3. TypeOK
  <2>1. seat \in [Selections -> Source] /\ \A s \in Selections : seat[s].from = "nobody" <=> seat[s].text = NoText
    BY DEF Init, Source
  <2>2. read \in Seq(Read) /\ Len(read) <= 1 /\ events \in Seq(Event)
    BY DEF Init, NoRead
  <2> QED BY <1>2, <2>1, <2>2 DEF Init, TypeOK
<1>4. Known
  <2>1. Len(events) = 0 /\ \A s \in Selections : weOwn[s] = FALSE /\ xOwner[s] \in {NoOwner, App}
    BY DEF Init
  <2>2. \A i \in 1..Len(events) : FALSE
    BY <2>1
  <2>3. \A s \in Selections : xOwner[s] # Wlx
    BY <2>1 DEF Wlx, NoOwner, App
  <2> QED BY <2>1, <2>2, <2>3 DEF Known, KnownOf, NewestNames
<1> QED BY <1>1, <1>3, <1>4 DEF CInv

(***************************************************************************)
(* The steps.                                                               *)
(***************************************************************************)
\* What a step leaves of the invariant when the X side stays as it is.
LEMMA Typed ==
    ASSUME TypeOK, UNCHANGED habit,
           UNCHANGED seat \/ \E s \in Selections, v \in Source :
                                /\ v.from # "nobody" /\ v.text # NoText
                                /\ seat' = [seat EXCEPT ![s] = v],
           UNCHANGED read \/ read' = NoRead \/ (\E r \in Read : read' = <<r>>),
           outText' \in [Selections -> Texts \cup {NoText, Truncated}],
           weOwn' \in [Selections -> BOOLEAN],
           xOwner' \in [Selections -> {NoOwner, Wlx, App}],
           appText' \in [Selections -> Texts \cup {NoText}],
           property' \in [Selections -> Texts \cup {NoText, Truncated}],
           asked' \in Seq(Request), events' \in Seq(Event),
           latest' \in [Selections -> Texts \cup {NoText}]
    PROVE  TypeOK'
<1>1. seat' \in [Selections -> Source] /\ \A s \in Selections : seat'[s].from = "nobody" <=> seat'[s].text = NoText
  <2>1. CASE UNCHANGED seat
    BY <2>1 DEF TypeOK
  <2>2. ASSUME NEW s \in Selections, NEW v \in Source, v.from # "nobody", v.text # NoText,
               seat' = [seat EXCEPT ![s] = v]
        PROVE  seat' \in [Selections -> Source] /\ \A t \in Selections : seat'[t].from = "nobody" <=> seat'[t].text = NoText
    <3>1. seat \in [Selections -> Source] /\ \A t \in Selections : seat[t].from = "nobody" <=> seat[t].text = NoText
      BY DEF TypeOK
    <3>2. \A t \in Selections : seat'[t] = IF t = s THEN v ELSE seat[t]
      BY <2>2, <3>1
    <3>3. seat' \in [Selections -> Source]
      BY <2>2, <3>1
    <3> QED BY <2>2, <3>1, <3>2, <3>3
  <2> QED BY <2>1, <2>2
<1>2. read' \in Seq(Read) /\ Len(read') <= 1
  <2>1. CASE UNCHANGED read
    BY <2>1 DEF TypeOK
  <2>2. CASE read' = NoRead
    BY <2>2 DEF NoRead
  <2>3. ASSUME NEW r \in Read, read' = <<r>> PROVE read' \in Seq(Read) /\ Len(read') <= 1
    BY <2>3
  <2> QED BY <2>1, <2>2, <2>3
<1> QED BY <1>1, <1>2 DEF TypeOK

LEMMA ReadTyped ==
    ASSUME TypeOK, read # NoRead
    PROVE  /\ read = <<read[1]>> /\ read[1] \in Read
           /\ \A r : [read EXCEPT ![1] = r] = <<r>>
<1>1. read \in Seq(Read) /\ Len(read) <= 1 /\ read # <<>>
  BY DEF TypeOK, NoRead
<1>2. Len(read) = 1
  <2>1. Len(read) \in Nat \ {0}
    BY <1>1, HeadTail
  <2>2. PICK n \in Nat \ {0} : n = Len(read)
    BY <2>1
  <2>3. n <= 1
    BY <1>1, <2>2
  <2> QED BY <2>2, <2>3
<1>3. read = <<read[1]>> /\ read[1] \in Read
  <2>1. read \in [1..1 -> Read]
    BY <1>1, <1>2
  <2>2. <<read[1]>> \in [1..1 -> Read] /\ <<read[1]>>[1] = read[1]
    BY <2>1
  <2>3. \A i \in 1..1 : i = 1
    OBVIOUS
  <2> QED BY <2>1, <2>2, <2>3
<1>4. ASSUME NEW r PROVE [read EXCEPT ![1] = r] = <<r>>
  <2>1. PICK x \in Read : read = <<x>>
    BY <1>3
  <2>2. [<<x>> EXCEPT ![1] = r] = <<r>>
    OBVIOUS
  <2> QED BY <2>1, <2>2
<1> QED BY <1>3, <1>4

LEMMA TextsDiffer == \A t \in Texts : t # NoText /\ t # Truncated
BY TextsAssumption

LEMMA SameOwners ==
    ASSUME CInv, UNCHANGED <<xOwner, appText>>
    PROVE  AppOwnsText'
BY DEF CInv, AppOwnsText

LEMMA CopyInv ==
    ASSUME CInv, UNCHANGED habit, NEW sel \in Selections, NEW text \in Texts,
           WaylandClientCopies(sel, text)
    PROVE  CInv'
<1> USE DEF CInv
<1>1. /\ UNCHANGED <<outText, weOwn, xOwner, appText, property, asked, events>>
      /\ latest' = [latest EXCEPT ![sel] = text]
      /\ seat' = [seat EXCEPT ![sel] = [from |-> "client", text |-> text]]
      /\ read' = <<[sel |-> sel, text |-> text, written |-> 0, got |-> 0, closed |-> FALSE]>>
  BY DEF WaylandClientCopies, x11, Export
<1>2. [sel |-> sel, text |-> text, written |-> 0, got |-> 0, closed |-> FALSE] \in Read
  BY SelectionsAssumption DEF Read
<1>3. PICK v \in Source : v = [from |-> "client", text |-> text] /\ v.from # "nobody" /\ v.text # NoText
  <2>1. [from |-> "client", text |-> text] \in Source
    BY DEF Source
  <2>2. text # NoText
    BY TextsDiffer
  <2> QED BY <2>1, <2>2
<1>4. latest' \in [Selections -> Texts \cup {NoText}]
  BY <1>1 DEF TypeOK
<1>5. TypeOK'
  BY <1>1, <1>2, <1>3, <1>4, Typed, Zenon DEF TypeOK
<1> QED BY <1>1, <1>5, SameOwners, KnownKept

LEMMA PipeInv ==
    ASSUME CInv, UNCHANGED habit, ClientWrites \/ ClientCloses
    PROVE  CInv'
<1> USE DEF CInv
<1>1. /\ UNCHANGED <<seat, outText, weOwn, xOwner, appText, property, asked, events, latest>>
      /\ read # NoRead
  BY DEF ClientWrites, ClientCloses, x11
<1>2. PICK r \in Read : read = <<r>>
  BY <1>1, ReadTyped
<1>3. \E w \in Read : read' = <<w>>
  <2>1. CASE ClientWrites
    <3>1. read' = <<[r EXCEPT !.written = @ + 1]>> /\ r.written < Chunks
      BY <1>2, <2>1 DEF ClientWrites
    <3>2. [r EXCEPT !.written = @ + 1] \in Read
      BY <3>1, SelectionsAssumption DEF Read
    <3> QED BY <3>1, <3>2
  <2>2. CASE ClientCloses
    <3>0. read' = [read EXCEPT ![1] = [read[1] EXCEPT !.closed = TRUE]]
      BY <2>2 DEF ClientCloses
    <3>1. read' = <<[r EXCEPT !.closed = TRUE]>>
      <4>1. read[1] = r
        BY <1>2
      <4>2. read' = [read EXCEPT ![1] = [r EXCEPT !.closed = TRUE]]
        BY <3>0, <4>1
      <4> QED BY <1>1, <4>2, ReadTyped, Zenon
    <3>2. [r EXCEPT !.closed = TRUE] \in Read
      BY DEF Read
    <3> QED BY <3>1, <3>2
  <2> QED BY <2>1, <2>2
<1>4. TypeOK'
  BY <1>1, <1>3, Typed, Zenon DEF TypeOK
<1> QED BY <1>1, <1>4, SameOwners, KnownKept

\* The compositor takes a selection: the notify that ends OwnerEvents names it.
LEMMA ReadFdInv ==
    ASSUME CInv, UNCHANGED habit, ReadFd
    PROVE  CInv'
<1> USE DEF CInv
<1>1. /\ UNCHANGED <<seat, latest>> /\ read # NoRead
  BY DEF ReadFd
<1>2. PICK r \in Read : read = <<r>> /\ read[1] = r
  BY <1>1, ReadTyped
<1>3. CASE /\ UNCHANGED <<outText, weOwn, xOwner, appText, property, asked, events>>
           /\ read' = NoRead \/ \E w \in Read : read' = <<w>>
  <2>1. TypeOK'
    BY <1>1, <1>3, Typed, Zenon DEF TypeOK
  <2> QED BY <1>3, <2>1, SameOwners, KnownKept
<1>4. ASSUME NEW text \in Texts \cup {NoText, Truncated}, read' = NoRead, SetX11Owner(r.sel, text),
             UNCHANGED <<appText, property, asked>>
      PROVE  CInv'
  <2>1. PICK sel \in Selections : sel = r.sel
    BY DEF Read
  <2>2. /\ outText' = [outText EXCEPT ![sel] = text]
        /\ xOwner' = [xOwner EXCEPT ![sel] = Wlx]
        /\ events' = events \o OwnerEvents(sel, Wlx)
        /\ weOwn' = [weOwn EXCEPT ![sel] = TRUE]
    BY <1>4, <2>1 DEF SetX11Owner
  <2>3. /\ outText' \in [Selections -> Texts \cup {NoText, Truncated}]
        /\ xOwner' \in [Selections -> {NoOwner, Wlx, App}]
        /\ weOwn' \in [Selections -> BOOLEAN]
        /\ \A s \in Selections : s # sel => weOwn'[s] = weOwn[s] /\ xOwner'[s] = xOwner[s]
        /\ xOwner'[sel] = Wlx
    BY <2>2 DEF TypeOK
  <2>4. Known' /\ events' \in Seq(Event)
    BY <2>2, <2>3, KnownChanges
  <2>5. AppOwnsText'
    BY <1>4, <2>3 DEF AppOwnsText, Wlx, App
  <2>6. TypeOK'
    BY <1>1, <1>4, <2>3, <2>4, Typed, Zenon DEF TypeOK
  <2> QED BY <2>4, <2>5, <2>6
<1>5. CASE read[1].closed /\ EndRead /\ read[1].got = 0 /\ UNCHANGED <<outText, weOwn, x11>>
  BY <1>3, <1>5 DEF EndRead, x11
<1>6. CASE /\ read[1].closed /\ EndRead
           /\ SetX11Owner(read[1].sel, IF read[1].got = Chunks THEN read[1].text ELSE Truncated)
           /\ UNCHANGED <<appText, property, asked>>
  <2>1. PICK text \in Texts \cup {NoText, Truncated} :
           text = IF read[1].got = Chunks THEN read[1].text ELSE Truncated
    BY <1>2 DEF Read
  <2> QED BY <1>2, <1>4, <1>6, <2>1, Zenon DEF EndRead
<1>7. CASE /\ read' = [read EXCEPT ![1].got = read[1].written]
           /\ UNCHANGED <<outText, weOwn, x11>>
  <2>1. read' = <<[r EXCEPT !.got = r.written]>>
    BY <1>2, <1>7
  <2>2. [r EXCEPT !.got = r.written] \in Read
    BY DEF Read
  <2>3. \E w \in Read : read' = <<w>>
    BY <2>1, <2>2
  <2> QED BY <1>3, <1>7, <2>3 DEF x11
<1> QED BY <1>5, <1>6, <1>7 DEF ReadFd

LEMMA AppCopiesInv ==
    ASSUME CInv, UNCHANGED habit, NEW sel \in Selections, NEW text \in Texts, AppCopies(sel, text)
    PROVE  CInv'
<1> USE DEF CInv
<1>1. /\ UNCHANGED <<seat, read, outText, weOwn, property, asked>>
      /\ xOwner' = [xOwner EXCEPT ![sel] = App]
      /\ appText' = [appText EXCEPT ![sel] = text]
      /\ events' = events \o OwnerEvents(sel, App)
      /\ latest' = [latest EXCEPT ![sel] = text]
  BY DEF AppCopies, compositor
<1>2. /\ xOwner' \in [Selections -> {NoOwner, Wlx, App}]
      /\ appText' \in [Selections -> Texts \cup {NoText}]
      /\ latest' \in [Selections -> Texts \cup {NoText}]
      /\ \A s \in Selections : s # sel => xOwner'[s] = xOwner[s] /\ appText'[s] = appText[s]
      /\ appText'[sel] = text
  BY <1>1 DEF TypeOK
<1>3. Known' /\ events' \in Seq(Event)
  BY <1>1, KnownChanges
<1>4. AppOwnsText'
  BY <1>2 DEF AppOwnsText
<1>5. TypeOK'
  BY <1>1, <1>2, <1>3, Typed, Zenon DEF TypeOK
<1> QED BY <1>3, <1>4, <1>5

LEMMA AppQuitsInv ==
    ASSUME CInv, UNCHANGED habit, NEW sel \in Selections, AppQuits(sel)
    PROVE  CInv'
<1> USE DEF CInv
<1>1. /\ UNCHANGED <<seat, read, outText, weOwn, appText, property, asked, latest>>
      /\ xOwner' = [xOwner EXCEPT ![sel] = NoOwner]
      /\ events' = events \o OwnerEvents(sel, NoOwner)
  BY DEF AppQuits, compositor
<1>2. /\ xOwner' \in [Selections -> {NoOwner, Wlx, App}]
      /\ \A s \in Selections : s # sel => xOwner'[s] = xOwner[s]
      /\ xOwner'[sel] = NoOwner
  BY <1>1 DEF TypeOK
<1>3. Known' /\ events' \in Seq(Event)
  BY <1>1, KnownChanges
<1>4. AppOwnsText'
  BY <1>1, <1>2 DEF AppOwnsText, NoOwner, App
<1>5. TypeOK'
  BY <1>1, <1>2, <1>3, Typed, Zenon DEF TypeOK
<1> QED BY <1>3, <1>4, <1>5

\* An answer is queued behind what the server has reported.
LEMMA AppAnswersInv ==
    ASSUME CInv, UNCHANGED habit, NEW k \in 1..Len(asked), NEW ok \in BOOLEAN, AppAnswers(k, ok)
    PROVE  CInv'
<1> USE DEF CInv
<1>1. PICK r \in Request : r = asked[k]
  BY Answered DEF TypeOK
<1>2. PICK sel \in Selections, text \in Texts : sel = r.sel /\ text = r.text
  BY DEF Request
<1> DEFINE shown == IF habit.oneApp /\ xOwner[sel] = App THEN appText[sel] ELSE text
           e == Ev("notify", sel, App, ok)
<1>3. /\ UNCHANGED <<seat, read, outText, weOwn, xOwner, appText, latest>>
      /\ asked' = RemoveAt(asked, k)
      /\ property' = IF ok THEN [property EXCEPT ![sel] = shown] ELSE property
      /\ events' = Append(events, e)
  BY <1>1, <1>2 DEF AppAnswers, compositor
<1>4. shown \in Texts
  BY DEF AppOwnsText
<1>5. e \in Event /\ e.kind = "notify"
  BY DEF Ev, Event
<1> HIDE DEF shown, e
<1>6. /\ asked' \in Seq(Request)
      /\ property' \in [Selections -> Texts \cup {NoText, Truncated}]
      /\ events' \in Seq(Event)
  <2>1. asked' \in Seq(Request)
    BY <1>3, Answered DEF TypeOK
  <2>2. property' \in [Selections -> Texts \cup {NoText, Truncated}]
    BY <1>3, <1>4 DEF TypeOK
  <2>3. events' \in Seq(Event)
    BY <1>3, <1>5, Appended DEF TypeOK
  <2> QED BY <2>1, <2>2, <2>3
<1>7. TypeOK'
  BY <1>3, <1>6, Typed, Zenon DEF TypeOK
<1>8. ASSUME NEW s \in Selections PROVE KnownOf(s)'
  <2>1. ~IsOwn(e, s) /\ KnownOf(s) /\ events \in Seq(Event)
    BY <1>5 DEF IsOwn, Known, TypeOK
  <2>2. /\ NoOwn(events', s) => NoOwn(events, s)
        /\ \A w : NewestNames(events, s, w) => NewestNames(events', s, w)
    BY <1>3, <1>5, <2>1, AppendOther
  <2> QED BY <1>3, <2>1, <2>2 DEF KnownOf
<1> QED BY <1>3, <1>7, <1>8, SameOwners DEF Known

LEMMA HeadTyped ==
    ASSUME TypeOK, events # <<>>
    PROVE  /\ Head(events) \in Event /\ Head(events).sel \in Selections
           /\ Tail(events) \in Seq(Event)
<1>1. events \in Seq(Event)
  BY DEF TypeOK
<1>2. Head(events) \in Event /\ Tail(events) \in Seq(Event)
  BY <1>1, HeadTail
<1> QED BY <1>2 DEF Event

LEMMA HandleClearInv ==
    ASSUME CInv, UNCHANGED habit, HandleSelectionClear
    PROVE  CInv'
<1> USE DEF CInv
<1>1. /\ events # <<>> /\ Head(events).kind = "clear" /\ events' = Tail(events)
      /\ weOwn' = [weOwn EXCEPT ![Head(events).sel] = FALSE]
      /\ UNCHANGED <<seat, read, outText, xOwner, appText, property, asked, latest>>
  BY DEF HandleSelectionClear
<1>2. PICK sel \in Selections : sel = Head(events).sel
  BY <1>1, HeadTyped
<1>3. /\ weOwn' \in [Selections -> BOOLEAN]
      /\ \A s \in Selections : s # sel => weOwn'[s] = weOwn[s]
  BY <1>1, <1>2 DEF TypeOK
<1>4. \A s \in Selections : ~IsOwn(Head(events), s) => weOwn'[s] = weOwn[s]
  BY <1>1, <1>2, <1>3 DEF IsOwn
<1>5. Known' /\ events' \in Seq(Event)
  BY <1>1, <1>4, KnownHandled
<1>6. TypeOK'
  BY <1>1, <1>3, <1>5, Typed, Zenon DEF TypeOK
<1> QED BY <1>1, <1>5, <1>6, SameOwners

LEMMA HandleOwnerInv ==
    ASSUME CInv, UNCHANGED habit, HandleOwnerChange
    PROVE  CInv'
<1> USE DEF CInv
<1>1. /\ events # <<>> /\ Head(events).kind = "owner"
      /\ weOwn' = [weOwn EXCEPT ![Head(events).sel] = WeOwnAfter(Head(events))]
      /\ UNCHANGED <<seat, read, outText, xOwner, appText, latest>>
      /\ IF Head(events).owner = App THEN Convert(Head(events).sel, Tail(events))
         ELSE events' = Tail(events) /\ UNCHANGED <<property, asked>>
  BY DEF HandleOwnerChange
<1>2. PICK sel \in Selections : sel = Head(events).sel
  BY <1>1, HeadTyped
<1>3. Tail(events) \in Seq(Event)
  BY <1>1, HeadTyped
<1>4. /\ asked' \in Seq(Request)
      /\ property' \in [Selections -> Texts \cup {NoText, Truncated}]
      /\ \/ events' = Tail(events)
         \/ \E e \in Event : events' = Append(Tail(events), e) /\ e.kind \in {"request", "notify"}
  <2>1. CASE Head(events).owner = App
    BY <1>1, <1>2, <1>3, <2>1, Converts
  <2>2. CASE Head(events).owner # App
    BY <1>1, <2>2 DEF TypeOK
  <2> QED BY <2>1, <2>2
<1>5. /\ weOwn' \in [Selections -> BOOLEAN]
      /\ \A s \in Selections : s # sel => weOwn'[s] = weOwn[s]
      /\ weOwn'[sel] <=> Head(events).owner = Wlx
  <2>1. /\ weOwn' = [weOwn EXCEPT ![sel] = (Head(events).owner = Wlx)]
        /\ weOwn \in [Selections -> BOOLEAN] /\ (Head(events).owner = Wlx) \in BOOLEAN
    BY <1>1, <1>2, Zenon DEF WeOwnAfter, TypeOK
  <2> QED BY <2>1, Zenon
<1>6. \A s \in Selections :
        /\ ~IsOwn(Head(events), s) => weOwn'[s] = weOwn[s]
        /\ IsOwn(Head(events), s) /\ Head(events).kind = "owner"
             => (weOwn'[s] <=> Head(events).owner = Wlx)
  BY <1>1, <1>2, <1>5, Zenon DEF IsOwn
<1>7. Known' /\ events' \in Seq(Event)
  BY <1>1, <1>4, <1>6, KnownHandled, Zenon
<1>8. TypeOK'
  BY <1>1, <1>4, <1>5, <1>7, Typed, Zenon DEF TypeOK
<1> QED BY <1>1, <1>7, <1>8, SameOwners

LEMMA HandleRequestInv ==
    ASSUME CInv, UNCHANGED habit, HandleSelectionRequest
    PROVE  CInv'
<1> USE DEF CInv
<1>1. /\ events # <<>> /\ Head(events).kind = "request"
      /\ UNCHANGED <<seat, read, outText, weOwn, xOwner, appText, asked, latest>>
  BY DEF HandleSelectionRequest, compositor
<1>2. PICK sel \in Selections : sel = Head(events).sel
  BY <1>1, HeadTyped
<1>3. PICK served \in BOOLEAN : served = (outText[sel] # NoText)
  BY Zenon
<1>4. /\ property' = IF served THEN [property EXCEPT ![sel] = outText[sel]] ELSE property
      /\ events' = Append(Tail(events), Ev("notify", sel, Wlx, served))
  BY <1>2, <1>3, Zenon DEF HandleSelectionRequest
<1>5. property' \in [Selections -> Texts \cup {NoText, Truncated}]
  BY <1>4 DEF TypeOK
<1>6. \E e \in Event : events' = Append(Tail(events), e) /\ e.kind \in {"request", "notify"}
  <2>1. Ev("notify", sel, Wlx, served) \in Event /\ Ev("notify", sel, Wlx, served).kind = "notify"
    BY DEF Ev, Event
  <2> QED BY <1>4, <2>1, Zenon
<1>7. \A s \in Selections : IsOwn(Head(events), s) => FALSE
  BY <1>1 DEF IsOwn
<1>8. Known' /\ events' \in Seq(Event)
  BY <1>1, <1>6, <1>7, KnownHandled, Zenon
<1>9. TypeOK'
  BY <1>1, <1>5, <1>8, Typed, Zenon DEF TypeOK
<1> QED BY <1>1, <1>8, <1>9, SameOwners

LEMMA HandleNotifyInv ==
    ASSUME CInv, UNCHANGED habit, HandleSelectionNotify
    PROVE  CInv'
<1> USE DEF CInv
<1>1. /\ events # <<>> /\ Head(events).kind = "notify" /\ events' = Tail(events)
      /\ UNCHANGED <<outText, weOwn, xOwner, appText, property, asked, latest>>
  BY DEF HandleSelectionNotify
<1>2. PICK sel \in Selections : sel = Head(events).sel
  BY <1>1, HeadTyped
<1>3. /\ UNCHANGED read
      /\ UNCHANGED seat \/ \E s \in Selections, v \in Source :
                              /\ v.from # "nobody" /\ v.text # NoText
                              /\ seat' = [seat EXCEPT ![s] = v]
  <2>1. CASE HasText(Head(events))
    <3>1. /\ property[sel] # NoText /\ UNCHANGED read
          /\ seat' = [seat EXCEPT ![sel] = [from |-> "x11", text |-> property[sel]]]
      BY <1>2, <2>1 DEF HandleSelectionNotify, Offer, HasText
    <3>2. [from |-> "x11", text |-> property[sel]] \in Source
      BY DEF Source, TypeOK
    <3>3. PICK v \in Source : v = [from |-> "x11", text |-> property[sel]]
      BY <3>2
    <3>4. v.from # "nobody" /\ v.text # NoText
      BY <3>1, <3>3
    <3> QED BY <3>1, <3>3, <3>4, Zenon
  <2>2. CASE ~HasText(Head(events))
    BY <2>2 DEF HandleSelectionNotify
  <2> QED BY <2>1, <2>2
<1>4. \A s \in Selections : IsOwn(Head(events), s) => FALSE
  BY <1>1 DEF IsOwn
<1>5. Known' /\ events' \in Seq(Event)
  BY <1>1, <1>4, KnownHandled, Zenon
<1>6. TypeOK'
  BY <1>1, <1>3, <1>5, Typed, Zenon DEF TypeOK
<1> QED BY <1>1, <1>5, <1>6, SameOwners

LEMMA StepInv == CInv /\ [Next]_<<vars, habit>> => CInv'
<1>1. ASSUME CInv, UNCHANGED <<vars, habit>> PROVE CInv'
  <2>1. UNCHANGED <<seat, read, outText, weOwn, xOwner, appText, property, asked, events, latest, habit>>
    BY <1>1 DEF vars, compositor, x11
  <2>2. TypeOK'
    BY <1>1, <2>1 DEF CInv, TypeOK
  <2> QED BY <1>1, <2>1, <2>2, SameOwners, KnownKept DEF CInv
<1>2. ASSUME CInv, Next PROVE CInv'
  <2> USE <1>2 DEF CInv
  <2>1. UNCHANGED habit
    BY DEF Next
  <2>2. ASSUME NEW s \in habit.wayland, NEW t \in Texts, WaylandClientCopies(s, t) PROVE CInv'
    <3>1. s \in Selections
      BY SelectionsAssumption DEF TypeOK
    <3> QED BY <2>1, <2>2, <3>1, CopyInv
  <2>3. ASSUME NEW s \in habit.x11, NEW t \in Texts, AppCopies(s, t) PROVE CInv'
    <3>1. s \in Selections
      BY SelectionsAssumption DEF TypeOK
    <3> QED BY <2>1, <2>3, <3>1, AppCopiesInv
  <2>4. ASSUME NEW s \in habit.x11, AppQuits(s) PROVE CInv'
    <3>1. s \in Selections
      BY SelectionsAssumption DEF TypeOK
    <3> QED BY <2>1, <2>4, <3>1, AppQuitsInv
  <2>5. CASE ClientWrites \/ ClientCloses
    BY <2>1, <2>5, PipeInv
  <2>6. CASE ReadFd
    BY <2>1, <2>6, ReadFdInv
  <2>7. CASE Answers
    BY <2>1, <2>7, AppAnswersInv DEF Answers
  <2>8. CASE Dispatch
    BY <2>1, <2>8, HandleClearInv, HandleOwnerInv, HandleRequestInv, HandleNotifyInv DEF Dispatch
  <2> QED BY <1>2, <2>2, <2>3, <2>4, <2>5, <2>6, <2>7, <2>8, Zenon DEF Next, Step, Users
<1> QED BY <1>1, <1>2

(***************************************************************************)
(* Both sides paste the last copy.  Of each selection the entries of the    *)
(* queues that are about it tell where that copy is on its way.             *)
(***************************************************************************)
Of(q, s) == {e \in {q[i] : i \in 1..Len(q)} : e.sel = s}

\* A selection copied to from X11 only: the owner's text is announced, asked for
\* or in the property, with a notify for it queued or already handled.
Arrived(s) ==
    /\ property[s] = latest[s]
    /\ \/ \E e \in Of(events, s) : e.kind = "notify" /\ e.ok
       \/ seat[s].text = latest[s]
OnItsWay(s) ==
    \/ \E e \in Of(events, s) : e.kind = "owner" /\ e.owner = App
    \/ Of(asked, s) # {}
    \/ Arrived(s)
Imports(s) ==
    /\ xOwner[s] # Wlx
    /\ \A e \in Of(events, s) : e.kind # "request"
    /\ appText[s] = latest[s]
    /\ habit.oneApp /\ xOwner[s] = App => OnItsWay(s)

\* A selection copied to from Wayland only: its text is being read or is served,
\* and no application's events are about it.
Reading(s) == read # NoRead /\ read[1].sel = s
Exports(s) ==
    /\ xOwner[s] # App
    /\ \A e \in Of(events, s) : e.kind = "owner" /\ e.owner = Wlx
    /\ Of(asked, s) = {}
    /\ seat[s].text = latest[s]
    /\ IF Reading(s) THEN read[1].text = latest[s] ELSE outText[s] = latest[s]

ReadOK ==
    read # NoRead =>
       read[1].sel \in habit.wayland /\ (read[1].closed => read[1].got = Chunks)

BInv ==
    /\ ReadOK
    /\ \A s \in Selections \ habit.wayland : Imports(s)
    /\ \A s \in Selections \ habit.x11 : Exports(s)

LEMMA OfAppended ==
    ASSUME NEW S, NEW q \in Seq(S), NEW e \in S, NEW s
    PROVE  Of(Append(q, e), s) = Of(q, s) \cup {x \in {e} : x.sel = s}
<1> DEFINE t == Append(q, e)
<1>1. /\ Len(t) = Len(q) + 1 /\ Len(q) \in Nat /\ t[Len(q) + 1] = e
      /\ \A i \in 1..Len(q) : t[i] = q[i]
  BY Appended
<1> HIDE DEF t
<1>2. PICK n \in Nat : n = Len(q)
  BY <1>1
<1>3. 1..Len(q) = 1..n /\ 1..Len(t) = 1..n \cup {n + 1}
  BY <1>1, <1>2
<1>4. {t[i] : i \in 1..Len(t)} = {q[i] : i \in 1..Len(q)} \cup {e}
  BY <1>1, <1>2, <1>3
<1> QED BY <1>4 DEF Of, t

LEMMA OfOther ==
    ASSUME NEW S, NEW q \in Seq(S), NEW e \in S, NEW s, e.sel # s
    PROVE  Of(Append(q, e), s) = Of(q, s)
<1>1. Of(Append(q, e), s) = Of(q, s) \cup {x \in {e} : x.sel = s}
  BY OfAppended
<1>2. {x \in {e} : x.sel = s} = {}
  OBVIOUS
<1> QED BY <1>1, <1>2, Zenon

LEMMA OfTail ==
    ASSUME NEW S, NEW q \in Seq(S), q # <<>>, NEW s
    PROVE  Of(q, s) = Of(Tail(q), s) \cup {x \in {Head(q)} : x.sel = s}
<1> DEFINE t == Tail(q)
<1>1. /\ Len(t) = Len(q) - 1 /\ Len(q) \in Nat \ {0} /\ Head(q) = q[1]
      /\ \A i \in 1..(Len(q) - 1) : t[i] = q[i + 1]
  BY HeadTail
<1> HIDE DEF t
<1>2. PICK n \in Nat : Len(q) = n + 1
  <2>1. Len(q) - 1 \in Nat /\ Len(q) = (Len(q) - 1) + 1
    BY <1>1
  <2> QED BY <2>1
<1>3. /\ 1..Len(t) = 1..n /\ 1..Len(q) = 1..(n + 1) /\ 1 \in 1..(n + 1)
      /\ \A i \in 1..n : t[i] = q[i + 1] /\ i + 1 \in 1..(n + 1)
  BY <1>1, <1>2
<1>4. \A j \in 1..(n + 1) : j = 1 \/ (j - 1 \in 1..n /\ t[j - 1] = q[j])
  BY <1>3
<1>5. {q[i] : i \in 1..(n + 1)} = {t[i] : i \in 1..n} \cup {q[1]}
  <2>1. \A j \in 1..(n + 1) : q[j] \in {t[i] : i \in 1..n} \cup {q[1]}
    BY <1>4, Zenon
  <2>2. \A i \in 1..n : t[i] \in {q[j] : j \in 1..(n + 1)}
    BY <1>3, Zenon
  <2>3. q[1] \in {q[j] : j \in 1..(n + 1)}
    BY <1>3, Zenon
  <2> QED BY <2>1, <2>2, <2>3
<1> QED BY <1>1, <1>3, <1>5 DEF Of, t

LEMMA OfRemoved ==
    ASSUME NEW q \in Seq(Request), NEW k \in 1..Len(q), NEW s, q[k].sel # s
    PROVE  Of(RemoveAt(q, k), s) = Of(q, s)
<1> DEFINE l == SubSeq(q, 1, k - 1)
           r == SubSeq(q, k + 1, Len(q))
           t == l \o r
<1>1. PICK n \in Nat : n = Len(q)
  OBVIOUS
<1>2. /\ l \in Seq(Request) /\ Len(l) = k - 1 /\ \A i \in 1..(k - 1) : l[i] = q[i]
      /\ r \in Seq(Request) /\ Len(r) = n - k /\ \A i \in 1..(n - k) : r[i] = q[k + i]
  BY <1>1
<1> HIDE DEF l, r
<1>3. /\ Len(t) = n - 1
      /\ \A i \in 1..(k - 1) : t[i] = q[i]
      /\ \A i \in k..(n - 1) : t[i] = q[i + 1]
  <2>1. /\ Len(t) = Len(l) + Len(r)
        /\ \A i \in 1..Len(t) : t[i] = IF i <= Len(l) THEN l[i] ELSE r[i - Len(l)]
    <3>1. Len(t) = Len(l) + Len(r)
      BY <1>2, ConcatProperties
    <3>2. \A i \in 1..(Len(l) + Len(r)) : t[i] = IF i <= Len(l) THEN l[i] ELSE r[i - Len(l)]
      BY <1>2, ConcatProperties
    <3> HIDE DEF t
    <3> QED BY <3>1, <3>2
  <2>2. k \in 1..n /\ Len(t) = n - 1
    BY <1>1, <1>2, <2>1
  <2>3. ASSUME NEW i \in 1..(k - 1) PROVE t[i] = q[i]
    BY <1>2, <2>1, <2>2
  <2>4. ASSUME NEW i \in k..(n - 1) PROVE t[i] = q[i + 1]
    <3>1. i \in 1..Len(t) /\ ~(i <= Len(l)) /\ i - Len(l) = i - k + 1
      BY <1>2, <2>2
    <3>2. t[i] = r[i - k + 1]
      BY <2>1, <3>1
    <3>3. i - k + 1 \in 1..(n - k) /\ k + (i - k + 1) = i + 1
      BY <2>2
    <3> QED BY <1>2, <3>2, <3>3
  <2> QED BY <2>2, <2>3, <2>4
<1> HIDE DEF t
<1>4. k \in 1..n /\ 1..Len(t) = 1..(n - 1)
  BY <1>1, <1>3
<1>5. ASSUME NEW i \in 1..n, q[i].sel = s PROVE \E j \in 1..(n - 1) : t[j] = q[i]
  <2>1. CASE i < k
    BY <1>3, <1>4, <2>1
  <2>2. CASE i > k
    <3>1. i - 1 \in k..(n - 1) /\ i - 1 \in 1..(n - 1) /\ (i - 1) + 1 = i
      BY <1>4, <2>2
    <3>2. t[i - 1] = q[i]
      BY <1>3, <3>1
    <3> QED BY <3>1, <3>2
  <2> QED BY <1>4, <1>5, <2>1, <2>2
<1>6. ASSUME NEW j \in 1..(n - 1) PROVE \E i \in 1..n : t[j] = q[i]
  <2>1. CASE j < k
    BY <1>3, <1>4, <2>1
  <2>2. CASE j >= k
    <3>1. j \in k..(n - 1) /\ j + 1 \in 1..n
      BY <1>4, <2>2
    <3> QED BY <1>3, <3>1
  <2> QED BY <1>4, <2>1, <2>2
<1>7. Of(t, s) = Of(q, s)
  <2>1. ASSUME NEW x \in Of(t, s) PROVE x \in Of(q, s)
    <3>1. PICK j \in 1..(n - 1) : x = t[j]
      BY <1>4, Zenon DEF Of
    <3> QED BY <1>1, <1>6, <3>1, Zenon DEF Of
  <2>2. ASSUME NEW x \in Of(q, s) PROVE x \in Of(t, s)
    <3>1. PICK i \in 1..n : x = q[i]
      BY <1>1, Zenon DEF Of
    <3>2. x.sel = s
      BY Zenon DEF Of
    <3> QED BY <1>4, <1>5, <3>1, <3>2, Zenon DEF Of
  <2> QED BY <2>1, <2>2, Zenon
<1> QED BY <1>7 DEF RemoveAt, t, l, r

\* A change of owner is announced; SelectionClear tells the loser, who is never
\* the new owner.
LEMMA OfOwnerEvents ==
    ASSUME TypeOK, NEW sel \in Selections, NEW owner \in {NoOwner, Wlx, App},
           events' = events \o OwnerEvents(sel, owner)
    PROVE  /\ \A s : s # sel => Of(events', s) = Of(events, s)
           /\ \E e \in Of(events', sel) : e.kind = "owner" /\ e.owner = owner
           /\ \A e \in Of(events', sel) :
                 \/ e \in Of(events, sel)
                 \/ e.kind \in {"clear", "owner"} /\ (owner = Wlx => e.kind = "owner" /\ e.owner = Wlx)
<1>1. PICK e \in Event, c \in Event :
         /\ e.kind = "owner" /\ e.sel = sel /\ e.owner = owner
         /\ c.kind = "clear" /\ c.sel = sel
         /\ \/ events' = Append(events, e)
            \/ owner # Wlx /\ events' = Append(Append(events, c), e)
  BY OwnerEventsAppended
<1>2. events \in Seq(Event) /\ Append(events, c) \in Seq(Event)
  BY Appended DEF TypeOK
<1>3. \A s : Of(Append(events, e), s) = Of(events, s) \cup {x \in {e} : x.sel = s}
  BY <1>2, OfAppended
<1>4. \A s : Of(Append(Append(events, c), e), s)
                = Of(events, s) \cup {x \in {c} : x.sel = s} \cup {x \in {e} : x.sel = s}
  <2> TAKE s
  <2>1. Of(Append(events, c), s) = Of(events, s) \cup {x \in {c} : x.sel = s}
    BY <1>2, OfAppended
  <2> DEFINE q == Append(events, c)
  <2>2. q \in Seq(Event)
    BY <1>2
  <2> HIDE DEF q
  <2>3. Of(Append(q, e), s) = Of(q, s) \cup {x \in {e} : x.sel = s}
    BY <2>2, OfAppended
  <2> QED BY <2>1, <2>3 DEF q
<1> DEFINE C == IF events' = Append(events, e) THEN {} ELSE {c}
<1>5. \A s : Of(events', s) = Of(events, s) \cup {x \in C \cup {e} : x.sel = s}
  <2>1. CASE events' = Append(events, e)
    BY <1>3, <2>1
  <2>2. CASE events' # Append(events, e)
    <3>1. events' = Append(Append(events, c), e) /\ C = {c}
      BY <1>1, <2>2
    <3> HIDE DEF C
    <3> QED BY <1>4, <3>1
  <2> QED BY <2>1, <2>2
<1>6. C \subseteq {c} /\ (owner = Wlx => C = {})
  BY <1>1
<1> HIDE DEF C
<1>7. ASSUME NEW s, s # sel PROVE Of(events', s) = Of(events, s)
  <2>1. \A x \in C \cup {e} : x.sel = sel
    BY <1>1, <1>6
  <2>2. {x \in C \cup {e} : x.sel = s} = {}
    BY <1>7, <2>1
  <2> QED BY <1>5, <2>2
<1>8. e \in Of(events', sel)
  BY <1>1, <1>5
<1>9. ASSUME NEW x \in Of(events', sel)
      PROVE  \/ x \in Of(events, sel)
             \/ x.kind \in {"clear", "owner"} /\ (owner = Wlx => x.kind = "owner" /\ x.owner = Wlx)
  BY <1>1, <1>5, <1>6
<1> QED BY <1>1, <1>7, <1>8, <1>9

\* Nothing about s happens.
SameAt(s) ==
    /\ xOwner'[s] = xOwner[s] /\ appText'[s] = appText[s] /\ latest'[s] = latest[s]
    /\ property'[s] = property[s] /\ seat'[s] = seat[s] /\ outText'[s] = outText[s]
    /\ Of(events', s) = Of(events, s) /\ Of(asked', s) = Of(asked, s)

LEMMA ImportsKept ==
    ASSUME NEW s, Imports(s), SameAt(s), UNCHANGED habit
    PROVE  Imports(s)'
  BY DEF Imports, OnItsWay, Arrived, SameAt

LEMMA ExportsKept ==
    ASSUME NEW s, Exports(s), SameAt(s), UNCHANGED read
    PROVE  Exports(s)'
  BY DEF Exports, Reading, SameAt

\* A step about sel that leaves the read alone.
LEMMA StepsAt ==
    ASSUME BInv, UNCHANGED <<habit, read>>, NEW sel \in Selections,
           \A s \in Selections \ {sel} : SameAt(s),
           sel \notin habit.wayland /\ Imports(sel) => Imports(sel)',
           sel \notin habit.x11 /\ Exports(sel) => Exports(sel)'
    PROVE  BInv'
<1>1. ASSUME NEW s \in Selections \ habit.wayland PROVE Imports(s)'
  BY ImportsKept DEF BInv
<1>2. ASSUME NEW s \in Selections \ habit.x11 PROVE Exports(s)'
  BY ExportsKept DEF BInv
<1> QED BY <1>1, <1>2 DEF BInv, ReadOK

LEMMA StillBInv ==
    ASSUME BInv, UNCHANGED <<vars, habit>>
    PROVE  BInv'
<1>1. \A s \in Selections : SameAt(s)
  BY DEF SameAt, vars, compositor, x11
<1>2. UNCHANGED <<read, habit>>
  BY DEF vars, compositor
<1> QED BY <1>1, <1>2, ImportsKept, ExportsKept DEF BInv, ReadOK

\* Clients close the pipe once it is drained and copy to one selection only.
OneSource == ClosesLate /\ \A h \in Habits : \A s, t \in h.wayland : s = t

LEMMA InitBInv == Init => BInv
<1> SUFFICES ASSUME Init PROVE BInv
  OBVIOUS
<1>1. CInv
  BY InitInv
<1>2. \A s \in Selections : Of(events, s) = {}
  BY DEF Init, Of
<1> DEFINE T == {t \in Selections : xOwner[t] = App}
           R == {[sel |-> t, text |-> appText[t]] : t \in T}
<1>3. \A r : r \in {asked[i] : i \in 1..Len(asked)} <=> r \in R
  <2>1. IsFiniteSet(R)
    BY OwnersFinite
  <2>2. asked = SetToSeq(R)
    BY DEF Init
  <2> HIDE DEF R
  <2> QED BY <2>1, <2>2, SetToSeqOnto
<1>4. \A s \in Selections : Of(asked, s) = {} <=> xOwner[s] # App
  <2> TAKE s \in Selections
  <2>1. ASSUME xOwner[s] = App PROVE Of(asked, s) # {}
    <3>1. [sel |-> s, text |-> appText[s]] \in R
      BY <2>1
    <3>2. [sel |-> s, text |-> appText[s]] \in Of(asked, s)
      BY <1>3, <3>1, Zenon DEF Of
    <3> QED BY <3>2
  <2>2. ASSUME NEW r \in Of(asked, s) PROVE xOwner[s] = App
    <3>1. r \in R /\ r.sel = s
      BY <1>3 DEF Of
    <3> QED BY <3>1
  <2> QED BY <2>1, <2>2
<1>5. ASSUME NEW s \in Selections \ habit.wayland PROVE Imports(s)
  <2>1. xOwner[s] # Wlx /\ appText[s] = latest[s]
    BY DEF Init, NoOwner, App, Wlx
  <2>2. s \in Selections /\ (xOwner[s] = App => Of(asked, s) # {})
    BY <1>4
  <2>3. \A e \in Of(events, s) : e.kind # "request"
    BY <1>2
  <2>4. habit.oneApp /\ xOwner[s] = App => OnItsWay(s)
    BY <2>2 DEF OnItsWay
  <2> QED BY <2>1, <2>3, <2>4 DEF Imports
<1>6. ASSUME NEW s \in Selections \ habit.x11 PROVE Exports(s)
  <2>1. xOwner[s] = NoOwner
    BY DEF Init
  <2>2. /\ xOwner[s] # App /\ seat[s].text = NoText /\ outText[s] = NoText
        /\ latest[s] = NoText /\ read = NoRead
    BY <2>1 DEF Init, NoOwner, App
  <2> QED BY <1>2, <1>4, <2>2 DEF Exports, Reading
<1> QED BY <1>5, <1>6 DEF BInv, ReadOK, Init

LEMMA CopyBInv ==
    ASSUME OneSource, CInv, BInv, UNCHANGED habit, NEW sel \in habit.wayland, NEW text \in Texts,
           WaylandClientCopies(sel, text)
    PROVE  BInv'
<1>1. /\ UNCHANGED <<outText, weOwn, xOwner, appText, property, asked, events>>
      /\ latest' = [latest EXCEPT ![sel] = text]
      /\ seat' = [seat EXCEPT ![sel] = [from |-> "client", text |-> text]]
      /\ read' = <<[sel |-> sel, text |-> text, written |-> 0, got |-> 0, closed |-> FALSE]>>
  BY DEF WaylandClientCopies, x11, Export
<1>2. sel \in Selections /\ \A s \in habit.wayland : s = sel
  BY SelectionsAssumption DEF CInv, TypeOK, OneSource
<1>3. \A s \in Selections \ {sel} : SameAt(s)
  BY <1>1, <1>2 DEF SameAt, CInv, TypeOK
<1>4. ReadOK' /\ Reading(sel)' /\ read'[1].text = text
  BY <1>1 DEF ReadOK, Reading, NoRead
<1>5. ASSUME NEW s \in Selections \ habit.wayland PROVE Imports(s)'
  BY <1>2, <1>3, <1>5, ImportsKept DEF BInv
<1>6. ASSUME NEW s \in Selections \ habit.x11 PROVE Exports(s)'
  <2>1. Exports(s)
    BY DEF BInv
  <2>2. CASE s = sel
    <3>1. latest'[s] = text /\ seat'[s].text = text
      BY <1>1, <1>2, <2>2 DEF CInv, TypeOK
    <3> QED BY <1>1, <1>4, <2>1, <2>2, <3>1 DEF Exports
  <2>3. CASE s # sel
    <3>1. SameAt(s) /\ ~Reading(s) /\ ~Reading(s)'
      <4>1. ~Reading(s)
        BY <1>2, <2>3 DEF Reading, BInv, ReadOK
      <4>2. ~Reading(s)'
        BY <1>1, <2>3 DEF Reading
      <4> QED BY <1>3, <2>3, <4>1, <4>2
    <3> QED BY <1>1, <2>1, <3>1 DEF Exports, SameAt
  <2> QED BY <2>2, <2>3
<1> QED BY <1>4, <1>5, <1>6 DEF BInv

\* A step of the pipe: the read stays the same read.
LEMMA SameRead ==
    ASSUME BInv, UNCHANGED <<seat, outText, weOwn, xOwner, appText, property, asked, events, latest, habit>>,
           read # NoRead, read' # NoRead, read'[1].sel = read[1].sel, read'[1].text = read[1].text,
           read'[1].closed => read'[1].got = Chunks
    PROVE  BInv'
<1>1. \A s \in Selections : SameAt(s) /\ Reading(s)' = Reading(s)
  BY DEF SameAt, Reading
<1>2. \A s \in Selections \ habit.wayland : Imports(s)'
  BY <1>1, ImportsKept DEF BInv
<1>3. ASSUME NEW s \in Selections \ habit.x11 PROVE Exports(s)'
  BY <1>1 DEF BInv, Exports, SameAt
<1> QED BY <1>2, <1>3 DEF BInv, ReadOK

LEMMA PipeBInv ==
    ASSUME OneSource, CInv, BInv, UNCHANGED habit, ClientWrites \/ ClientCloses
    PROVE  BInv'
<1>1. /\ UNCHANGED <<seat, outText, weOwn, xOwner, appText, property, asked, events, latest>>
      /\ read # NoRead
  BY DEF ClientWrites, ClientCloses, x11
<1>2. PICK r \in Read : read = <<r>> /\ read[1] = r
  BY <1>1, ReadTyped DEF CInv
<1>3. CASE ClientWrites
  <2>1. read' = <<[r EXCEPT !.written = @ + 1]>> /\ ~r.closed
    BY <1>2, <1>3 DEF ClientWrites
  <2>2. read'[1].sel = r.sel /\ read'[1].text = r.text /\ ~read'[1].closed /\ read' # NoRead
    BY <2>1 DEF Read, NoRead
  <2> QED BY <1>1, <1>2, <2>2, SameRead
<1>4. CASE ClientCloses
  <2>1. read' = [read EXCEPT ![1] = [r EXCEPT !.closed = TRUE]]
    BY <1>2, <1>4 DEF ClientCloses
  <2>2. read' = <<[r EXCEPT !.closed = TRUE]>>
    BY <1>1, <2>1, ReadTyped, Zenon DEF CInv
  <2>3. r.written = Chunks /\ r.got = r.written
    BY <1>2, <1>4 DEF ClientCloses, OneSource
  <2>4. read'[1].sel = r.sel /\ read'[1].text = r.text /\ read'[1].got = Chunks /\ read' # NoRead
    BY <2>2, <2>3 DEF Read, NoRead
  <2> QED BY <1>1, <1>2, <2>4, SameRead
<1> QED BY <1>3, <1>4

LEMMA ReadFdBInv ==
    ASSUME OneSource, CInv, BInv, UNCHANGED habit, ReadFd
    PROVE  BInv'
<1>1. UNCHANGED <<seat, latest>> /\ read # NoRead
  BY DEF ReadFd
<1>2. PICK r \in Read : read = <<r>> /\ read[1] = r
  BY <1>1, ReadTyped DEF CInv
<1>3. CASE ~read[1].closed
  <2>1. /\ UNCHANGED <<outText, weOwn, xOwner, appText, property, asked, events>>
        /\ read' = <<[r EXCEPT !.got = r.written]>>
    BY <1>2, <1>3 DEF ReadFd, x11
  <2>2. read'[1].sel = r.sel /\ read'[1].text = r.text /\ ~read'[1].closed /\ read' # NoRead
    BY <1>2, <1>3, <2>1 DEF Read, NoRead
  <2> QED BY <1>1, <1>2, <2>1, <2>2, SameRead
<1>4. CASE read[1].closed
  <2>1. PICK sel \in Selections : sel = r.sel /\ sel \in habit.wayland
    BY <1>1, <1>2 DEF Read, BInv, ReadOK
  <2>2. r.got = Chunks /\ r.got # 0
    BY <1>1, <1>2, <1>4, SelectionsAssumption DEF BInv, ReadOK
  <2>3. /\ read' = NoRead /\ UNCHANGED <<appText, property, asked>>
        /\ SetX11Owner(r.sel, r.text)
    BY <1>2, <1>4, <2>2 DEF ReadFd, EndRead
  <2>4. /\ outText' = [outText EXCEPT ![sel] = r.text]
        /\ xOwner' = [xOwner EXCEPT ![sel] = Wlx]
        /\ events' = events \o OwnerEvents(sel, Wlx)
    BY <2>1, <2>3 DEF SetX11Owner
  <2>5. /\ \A s : s # sel => Of(events', s) = Of(events, s)
        /\ \A e \in Of(events', sel) : e \in Of(events, sel) \/ (e.kind = "owner" /\ e.owner = Wlx)
    BY <2>4, OfOwnerEvents DEF CInv
  <2>6. \A s \in Selections \ {sel} : SameAt(s)
    BY <1>1, <2>3, <2>4, <2>5 DEF SameAt, CInv, TypeOK
  <2>7. \A s \in Selections : ~Reading(s)' /\ (Reading(s) <=> s = sel)
    BY <1>1, <1>2, <2>1, <2>3 DEF Reading, NoRead
  <2>8. ASSUME NEW s \in Selections \ habit.wayland PROVE Imports(s)'
    BY <2>1, <2>6, <2>8, ImportsKept DEF BInv
  <2>9. ASSUME NEW s \in Selections \ habit.x11 PROVE Exports(s)'
    <3>1. Exports(s)
      BY DEF BInv
    <3>2. CASE s # sel
      BY <2>6, <2>7, <3>1, <3>2 DEF Exports, SameAt
    <3>3. CASE s = sel
      <4>1. xOwner'[s] # App /\ outText'[s] = r.text
        BY <2>1, <2>4, <3>3 DEF CInv, TypeOK, App, Wlx
      <4>2. r.text = latest[s]
        BY <1>2, <2>7, <3>1, <3>3 DEF Exports
      <4>3. \A e \in Of(events', s) : e.kind = "owner" /\ e.owner = Wlx
        BY <2>5, <3>1, <3>3 DEF Exports
      <4> QED BY <1>1, <2>3, <2>7, <3>1, <4>1, <4>2, <4>3 DEF Exports
    <3> QED BY <3>2, <3>3
  <2> QED BY <2>3, <2>8, <2>9 DEF BInv, ReadOK
<1> QED BY <1>3, <1>4

LEMMA AppBInv ==
    ASSUME CInv, BInv, UNCHANGED habit, NEW sel \in habit.x11,
           (\E text \in Texts : AppCopies(sel, text)) \/ AppQuits(sel)
    PROVE  BInv'
<1>1. sel \in Selections
  BY SelectionsAssumption DEF CInv, TypeOK
<1>2. PICK owner \in {App, NoOwner}, text \in Texts \cup {NoText} :
         /\ UNCHANGED <<seat, read, outText, weOwn, property, asked>>
         /\ xOwner' = [xOwner EXCEPT ![sel] = owner]
         /\ events' = events \o OwnerEvents(sel, owner)
         /\ \/ owner = App /\ appText' = [appText EXCEPT ![sel] = text]
                           /\ latest' = [latest EXCEPT ![sel] = text]
            \/ owner = NoOwner /\ UNCHANGED <<appText, latest>>
  <2>1. ASSUME NEW text \in Texts, AppCopies(sel, text)
        PROVE  /\ UNCHANGED <<seat, read, outText, weOwn, property, asked>>
               /\ xOwner' = [xOwner EXCEPT ![sel] = App]
               /\ events' = events \o OwnerEvents(sel, App)
               /\ appText' = [appText EXCEPT ![sel] = text]
               /\ latest' = [latest EXCEPT ![sel] = text]
    BY <2>1 DEF AppCopies, compositor
  <2>2. ASSUME AppQuits(sel)
        PROVE  /\ UNCHANGED <<seat, read, outText, weOwn, property, asked>>
               /\ xOwner' = [xOwner EXCEPT ![sel] = NoOwner]
               /\ events' = events \o OwnerEvents(sel, NoOwner)
               /\ UNCHANGED <<appText, latest>>
    BY <2>2 DEF AppQuits, compositor
  <2> QED BY <2>1, <2>2, Zenon
<1>3. /\ \A s : s # sel => Of(events', s) = Of(events, s)
      /\ \E e \in Of(events', sel) : e.kind = "owner" /\ e.owner = owner
      /\ \A e \in Of(events', sel) : e \in Of(events, sel) \/ e.kind \in {"clear", "owner"}
  <2>1. owner \in {NoOwner, Wlx, App}
    OBVIOUS
  <2> QED BY <1>1, <1>2, <2>1, OfOwnerEvents DEF CInv
<1>4. \A s \in Selections \ {sel} : SameAt(s)
  BY <1>2, <1>3 DEF SameAt, CInv, TypeOK
<1>5. ASSUME Imports(sel) PROVE Imports(sel)'
  <2>1. xOwner'[sel] = owner /\ owner # Wlx /\ appText'[sel] = latest'[sel]
    BY <1>1, <1>2, <1>5 DEF Imports, CInv, TypeOK, App, NoOwner, Wlx
  <2>2. \A e \in Of(events', sel) : e.kind # "request"
    BY <1>3, <1>5 DEF Imports
  <2>3. xOwner'[sel] = App => \E e \in Of(events', sel) : e.kind = "owner" /\ e.owner = App
    BY <1>3, <2>1
  <2> QED BY <2>1, <2>2, <2>3 DEF Imports, OnItsWay
<1> QED BY <1>1, <1>2, <1>4, <1>5, StepsAt

LEMMA AnswersBInv ==
    ASSUME CInv, BInv, UNCHANGED habit, NEW k \in 1..Len(asked), NEW ok \in BOOLEAN, AppAnswers(k, ok)
    PROVE  BInv'
<1>1. asked \in Seq(Request) /\ events \in Seq(Event)
  BY DEF CInv, TypeOK
<1>2. PICK sel \in Selections : sel = asked[k].sel
  <2>1. asked[k] \in Request
    BY <1>1, Answered
  <2> QED BY <2>1 DEF Request
<1> DEFINE text == IF habit.oneApp /\ xOwner[sel] = App THEN appText[sel] ELSE asked[k].text
           e == Ev("notify", sel, App, ok)
<1>3. /\ UNCHANGED <<seat, read, outText, weOwn, xOwner, appText, latest>>
      /\ asked' = RemoveAt(asked, k)
      /\ property' = IF ok THEN [property EXCEPT ![sel] = text] ELSE property
      /\ events' = Append(events, e)
      /\ ok \/ xOwner[sel] # App
  BY <1>2 DEF AppAnswers, compositor
<1>4. e \in Event /\ e.kind = "notify" /\ e.sel = sel /\ e.ok = ok
  BY DEF Ev, Event
<1> HIDE DEF e
<1>5. \A s : Of(events', s) = Of(events, s) \cup {x \in {e} : x.sel = s}
  BY <1>1, <1>3, <1>4, OfAppended
<1>6. \A s : s # sel => Of(asked', s) = Of(asked, s)
  BY <1>1, <1>2, <1>3, OfRemoved
<1>7. \A s \in Selections \ {sel} : SameAt(s)
  <2> SUFFICES ASSUME NEW s \in Selections \ {sel} PROVE SameAt(s)
    OBVIOUS
  <2>1. Of(events', s) = Of(events, s)
    BY <1>4, <1>5
  <2>2. property'[s] = property[s]
    BY <1>3 DEF CInv, TypeOK
  <2> QED BY <1>3, <1>6, <2>1, <2>2 DEF SameAt
<1>8. ~Exports(sel)
  <2>1. asked[k] \in Of(asked, sel)
    BY <1>2 DEF Of
  <2> QED BY <2>1 DEF Exports
<1>9. ASSUME Imports(sel) PROVE Imports(sel)'
  <2>1. \A x \in Of(events', sel) : x.kind # "request"
    BY <1>4, <1>5, <1>9 DEF Imports
  <2>2. ASSUME habit.oneApp, xOwner[sel] = App PROVE Arrived(sel)'
    <3>1. ok /\ property'[sel] = appText[sel]
      BY <1>3, <2>2 DEF CInv, TypeOK
    <3>2. e \in Of(events', sel)
      BY <1>4, <1>5
    <3> QED BY <1>3, <1>4, <1>9, <3>1, <3>2 DEF Arrived, Imports
  <2> QED BY <1>3, <1>9, <2>1, <2>2 DEF Imports, OnItsWay
<1> QED BY <1>3, <1>7, <1>8, <1>9, StepsAt

\* The event handled was about its selection only.
LEMMA Handled ==
    ASSUME CInv, events # <<>>
    PROVE  /\ Head(events) \in Event /\ Head(events).sel \in Selections
           /\ Head(events) \in Of(events, Head(events).sel)
           /\ Tail(events) \in Seq(Event)
           /\ \A s : Of(events, s) = Of(Tail(events), s) \cup {x \in {Head(events)} : x.sel = s}
           /\ \A s : s # Head(events).sel => Of(Tail(events), s) = Of(events, s)
<1>1. events \in Seq(Event)
  BY DEF CInv, TypeOK
<1>2. \A s : Of(events, s) = Of(Tail(events), s) \cup {x \in {Head(events)} : x.sel = s}
  BY <1>1, OfTail
<1>3. Head(events) \in Event /\ Head(events).sel \in Selections /\ Tail(events) \in Seq(Event)
  BY HeadTyped DEF CInv
<1> QED BY <1>2, <1>3

LEMMA ClearBInv ==
    ASSUME CInv, BInv, UNCHANGED habit, HandleSelectionClear
    PROVE  BInv'
<1>1. /\ events # <<>> /\ Head(events).kind = "clear" /\ events' = Tail(events)
      /\ UNCHANGED <<seat, read, outText, xOwner, appText, property, asked, latest>>
  BY DEF HandleSelectionClear
<1>2. PICK h \in Event : h = Head(events)
  BY <1>1, Handled
<1> DEFINE sel == h.sel
<1>3. /\ sel \in Selections /\ h \in Of(events, sel)
      /\ Of(events, sel) = Of(events', sel) \cup {h}
      /\ \A s : s # sel => Of(events', s) = Of(events, s)
  BY <1>1, <1>2, Handled
<1>4. \A s \in Selections \ {sel} : SameAt(s)
  BY <1>1, <1>3 DEF SameAt
<1>5. ~Exports(sel)
  BY <1>1, <1>2, <1>3 DEF Exports
<1>6. ASSUME Imports(sel) PROVE Imports(sel)'
  BY <1>1, <1>2, <1>3, <1>6 DEF Imports, OnItsWay, Arrived
<1> HIDE DEF sel
<1> QED BY <1>1, <1>3, <1>4, <1>5, <1>6, StepsAt

\* Who announces a new owner to asks for its text; wl-x11's own claims ask nothing.
LEMMA OwnerBInv ==
    ASSUME CInv, BInv, UNCHANGED habit, HandleOwnerChange
    PROVE  BInv'
<1>1. /\ events # <<>> /\ Head(events).kind = "owner"
      /\ UNCHANGED <<seat, read, outText, xOwner, appText, latest>>
      /\ IF Head(events).owner = App THEN Convert(Head(events).sel, Tail(events))
         ELSE events' = Tail(events) /\ UNCHANGED <<property, asked>>
  BY DEF HandleOwnerChange
<1>2. PICK h \in Event : h = Head(events) /\ h.kind = "owner"
  BY <1>1, Handled
<1> DEFINE sel == h.sel
           q == Tail(events)
<1>3. /\ sel \in Selections /\ h \in Of(events, sel) /\ q \in Seq(Event)
      /\ Of(events, sel) = Of(q, sel) \cup {h}
      /\ \A s : s # sel => Of(q, s) = Of(events, s)
  BY <1>1, <1>2, Handled
<1> HIDE DEF sel, q
<1>4. CASE h.owner # App
  <2>1. events' = q /\ UNCHANGED <<property, asked>>
    BY <1>1, <1>2, <1>4 DEF q
  <2>2. \A s \in Selections \ {sel} : SameAt(s)
    BY <1>1, <1>3, <2>1 DEF SameAt
  <2>3. ASSUME Exports(sel) PROVE Exports(sel)'
    BY <1>1, <1>3, <2>1, <2>3 DEF Exports, Reading
  <2>4. ASSUME Imports(sel) PROVE Imports(sel)'
    BY <1>1, <1>2, <1>3, <1>4, <2>1, <2>4 DEF Imports, OnItsWay, Arrived
  <2> QED BY <1>1, <1>3, <2>2, <2>3, <2>4, StepsAt
<1>5. CASE h.owner = App
  <2>1. Convert(sel, q)
    BY <1>1, <1>2, <1>5 DEF sel, q
  <2>2. property' = [property EXCEPT ![sel] = NoText]
    BY <2>1 DEF Convert
  <2>3. ~Exports(sel)
    BY <1>3, <1>5 DEF Exports, App, Wlx
  <2>4. ASSUME xOwner[sel] = App
        PROVE  /\ events' = q
               /\ \A s : s # sel => Of(asked', s) = Of(asked, s)
               /\ Of(asked', sel) # {}
    <3>1. events' = q /\ asked' = Append(asked, [sel |-> sel, text |-> appText[sel]])
      BY <2>1, <2>4 DEF Convert, App, Wlx, NoOwner
    <3>2. appText[sel] \in Texts
      BY <1>3, <2>4 DEF CInv, AppOwnsText
    <3>3. PICK r \in Request : r = [sel |-> sel, text |-> appText[sel]]
      BY <1>3, <3>2 DEF Request
    <3>4. r.sel = sel
      BY <3>3
    <3>5. asked \in Seq(Request) /\ asked' = Append(asked, r)
      BY <3>1, <3>3 DEF CInv, TypeOK
    <3>6. Of(asked', sel) = Of(asked, sel) \cup {x \in {r} : x.sel = sel}
      BY <3>5, OfAppended
    <3>7. \A s : s # sel => Of(asked', s) = Of(asked, s)
      BY <3>4, <3>5, OfOther
    <3> QED BY <3>1, <3>4, <3>6, <3>7
  <2>5. ASSUME xOwner[sel] # App
        PROVE  \E e \in Event :
                  /\ e.sel = sel /\ events' = Append(q, e) /\ UNCHANGED asked
                  /\ e.kind = "notify" \/ (e.kind = "request" /\ xOwner[sel] = Wlx)
    <3>1. CASE UNCHANGED asked /\ xOwner[sel] = Wlx /\ events' = Append(q, Ev("request", sel, Wlx, TRUE))
      <4>1. Ev("request", sel, Wlx, TRUE) \in Event /\ Ev("request", sel, Wlx, TRUE).sel = sel
            /\ Ev("request", sel, Wlx, TRUE).kind = "request"
        BY <1>3 DEF Ev, Event
      <4> QED BY <3>1, <4>1, Zenon
    <3>2. CASE UNCHANGED asked /\ events' = Append(q, Ev("notify", sel, NoOwner, FALSE))
      <4>1. Ev("notify", sel, NoOwner, FALSE) \in Event /\ Ev("notify", sel, NoOwner, FALSE).sel = sel
            /\ Ev("notify", sel, NoOwner, FALSE).kind = "notify"
        BY <1>3 DEF Ev, Event
      <4> QED BY <3>2, <4>1, Zenon
    <3> QED BY <2>1, <2>5, <3>1, <3>2 DEF Convert
  <2>6. \A s : s # sel => Of(events', s) = Of(events, s) /\ Of(asked', s) = Of(asked, s)
    <3>1. CASE xOwner[sel] = App
      BY <1>3, <2>4, <3>1
    <3>2. CASE xOwner[sel] # App
      <4>1. PICK e \in Event : e.sel = sel /\ events' = Append(q, e) /\ UNCHANGED asked
        BY <2>5, <3>2
      <4>2. \A s : s # sel => Of(events', s) = Of(q, s)
        BY <1>3, <4>1, OfOther
      <4> QED BY <1>3, <4>1, <4>2
    <3> QED BY <3>1, <3>2
  <2>7. \A s \in Selections \ {sel} : SameAt(s)
    BY <1>1, <1>3, <2>2, <2>6 DEF SameAt, CInv, TypeOK
  <2>8. ASSUME Imports(sel) PROVE Imports(sel)'
    <3>1. xOwner'[sel] # Wlx /\ appText'[sel] = latest'[sel]
      BY <1>1, <2>8 DEF Imports
    <3>2. CASE xOwner[sel] = App
      <4>1. events' = q /\ Of(asked', sel) # {}
        BY <2>4, <3>2
      <4> QED BY <1>3, <2>8, <3>1, <4>1 DEF Imports, OnItsWay
    <3>3. CASE xOwner[sel] # App
      <4>1. PICK e \in Event : e.sel = sel /\ events' = Append(q, e) /\ e.kind = "notify"
        BY <2>5, <2>8, <3>3 DEF Imports
      <4>2. Of(events', sel) = Of(q, sel) \cup {x \in {e} : x.sel = sel}
        BY <1>3, <4>1, OfAppended
      <4>3. \A x \in Of(events', sel) : x.kind # "request"
        BY <1>3, <2>8, <4>1, <4>2 DEF Imports
      <4> QED BY <1>1, <3>1, <3>3, <4>3 DEF Imports
    <3> QED BY <3>2, <3>3
  <2> QED BY <1>1, <1>3, <2>3, <2>7, <2>8, StepsAt
<1> QED BY <1>4, <1>5

LEMMA RequestBInv ==
    ASSUME CInv, BInv, UNCHANGED habit, HandleSelectionRequest
    PROVE  BInv'
<1>1. /\ events # <<>> /\ Head(events).kind = "request"
      /\ UNCHANGED <<seat, read, outText, xOwner, appText, asked, latest>>
  BY DEF HandleSelectionRequest, compositor
<1>2. PICK h \in Event : h = Head(events) /\ h.kind = "request"
  BY <1>1, Handled
<1> DEFINE sel == h.sel
           q == Tail(events)
<1>3. /\ sel \in Selections /\ h \in Of(events, sel) /\ q \in Seq(Event)
      /\ \A s : s # sel => Of(q, s) = Of(events, s)
  BY <1>1, <1>2, Handled
<1>4. PICK served \in BOOLEAN : served = (outText[sel] # NoText)
  BY Zenon
<1>5. /\ property' = IF served THEN [property EXCEPT ![sel] = outText[sel]] ELSE property
      /\ events' = Append(q, Ev("notify", sel, Wlx, served))
  BY <1>2, <1>4, Zenon DEF HandleSelectionRequest
<1> HIDE DEF sel, q
<1>6. PICK e \in Event : e.sel = sel /\ events' = Append(q, e)
  <2>1. Ev("notify", sel, Wlx, served) \in Event /\ Ev("notify", sel, Wlx, served).sel = sel
    BY <1>3 DEF Ev, Event
  <2> QED BY <1>5, <2>1, Zenon
<1>7. \A s : s # sel => Of(events', s) = Of(q, s)
  BY <1>3, <1>6, OfOther
<1>8. ASSUME NEW s \in Selections \ {sel} PROVE SameAt(s)
  <2>1. Of(events', s) = Of(events, s)
    BY <1>3, <1>6, <1>7
  <2>2. property'[s] = property[s]
    BY <1>5 DEF CInv, TypeOK
  <2> QED BY <1>1, <2>1, <2>2 DEF SameAt
<1>9. ~Exports(sel) /\ ~Imports(sel)
  BY <1>2, <1>3 DEF Exports, Imports
<1> QED BY <1>1, <1>3, <1>8, <1>9, StepsAt

\* What the property holds when its notify is handled is the last copy, unless a
\* later conversion has deleted it, whose answer is then on its way.
LEMMA NotifyBInv ==
    ASSUME CInv, BInv, UNCHANGED habit, HandleSelectionNotify
    PROVE  BInv'
<1>1. /\ events # <<>> /\ Head(events).kind = "notify" /\ events' = Tail(events)
      /\ UNCHANGED <<outText, weOwn, xOwner, appText, property, asked, latest>>
  BY DEF HandleSelectionNotify
<1>2. PICK h \in Event : h = Head(events) /\ h.kind = "notify"
  BY <1>1, Handled
<1> DEFINE sel == h.sel
<1>3. /\ sel \in Selections /\ h \in Of(events, sel)
      /\ Of(events, sel) = Of(events', sel) \cup {h}
      /\ \A s : s # sel => Of(events', s) = Of(events, s)
  BY <1>1, <1>2, Handled
<1>4. /\ UNCHANGED read
      /\ HasText(h) => seat' = [seat EXCEPT ![sel] = [from |-> "x11", text |-> property[sel]]]
      /\ ~HasText(h) => UNCHANGED seat
  BY <1>2 DEF HandleSelectionNotify, Offer
<1> HIDE DEF sel
<1>5. ASSUME NEW s \in Selections \ {sel} PROVE SameAt(s)
  <2>1. seat'[s] = seat[s]
    BY <1>4 DEF CInv, TypeOK
  <2> QED BY <1>1, <1>3, <2>1 DEF SameAt
<1>6. ~Exports(sel)
  BY <1>2, <1>3 DEF Exports
<1>7. ASSUME Imports(sel) PROVE Imports(sel)'
  <2>1. /\ xOwner'[sel] # Wlx /\ appText'[sel] = latest'[sel]
        /\ \A x \in Of(events', sel) : x.kind # "request"
    BY <1>1, <1>3, <1>7 DEF Imports
  <2>2. ASSUME habit.oneApp, xOwner[sel] = App PROVE OnItsWay(sel)'
    <3>1. OnItsWay(sel)
      BY <1>7, <2>2 DEF Imports
    <3>2. CASE (\E e \in Of(events, sel) : e.kind = "owner" /\ e.owner = App) \/ Of(asked, sel) # {}
      BY <1>1, <1>2, <1>3, <3>2 DEF OnItsWay
    <3>3. CASE Arrived(sel)
      <4>1. property[sel] = latest[sel] /\ property[sel] # NoText
        BY <1>3, <1>7, <2>2, <3>3, TextsDiffer DEF Arrived, Imports, CInv, AppOwnsText
      <4>2. CASE h.ok
        <5>1. seat' = [seat EXCEPT ![sel] = [from |-> "x11", text |-> property[sel]]]
          BY <1>4, <4>1, <4>2 DEF HasText, sel
        <5>2. seat'[sel].text = latest[sel]
          BY <1>3, <4>1, <5>1 DEF CInv, TypeOK
        <5> QED BY <1>1, <4>1, <5>2 DEF OnItsWay, Arrived
      <4>3. CASE ~h.ok
        <5>1. UNCHANGED seat
          BY <1>4, <4>3 DEF HasText
        <5>2. (\E e \in Of(events', sel) : e.kind = "notify" /\ e.ok) \/ seat[sel].text = latest[sel]
          BY <1>3, <3>3, <4>3 DEF Arrived
        <5> QED BY <1>1, <4>1, <5>1, <5>2 DEF OnItsWay, Arrived
      <4> QED BY <4>2, <4>3
    <3> QED BY <3>1, <3>2, <3>3 DEF OnItsWay
  <2> QED BY <1>1, <2>1, <2>2 DEF Imports
<1> QED BY <1>3, <1>4, <1>5, <1>6, <1>7, StepsAt

LEMMA StepBInv ==
    ASSUME OneSource, CInv, BInv, [Next]_<<vars, habit>>
    PROVE  BInv'
<1>1. CASE UNCHANGED <<vars, habit>>
  BY <1>1, StillBInv
<1>2. CASE Next
  <2>1. UNCHANGED habit
    BY <1>2 DEF Next
  <2>2. ASSUME NEW s \in habit.wayland, NEW t \in Texts, WaylandClientCopies(s, t) PROVE BInv'
    BY <2>1, <2>2, CopyBInv
  <2>3. ASSUME NEW s \in habit.x11, (\E t \in Texts : AppCopies(s, t)) \/ AppQuits(s) PROVE BInv'
    BY <2>1, <2>3, AppBInv
  <2>4. CASE ClientWrites \/ ClientCloses
    BY <2>1, <2>4, PipeBInv
  <2>5. CASE ReadFd
    BY <2>1, <2>5, ReadFdBInv
  <2>6. CASE Answers
    BY <2>1, <2>6, AnswersBInv DEF Answers
  <2>7. CASE Dispatch
    BY <2>1, <2>7, ClearBInv, OwnerBInv, RequestBInv, NotifyBInv DEF Dispatch
  <2> QED BY <1>2, <2>2, <2>3, <2>4, <2>5, <2>6, <2>7, Zenon DEF Next, Step, Users
<1> QED BY <1>1, <1>2

\* The inductive invariant of the clipboard bridge (handle_xcb_readable with
\* clipboard_set_x11_owner and clipboard_request_from_x11).
THEOREM Inductive == Spec => []CInv
<1> QED BY InitInv, StepInv, PTL DEF Spec

\* Every handler keeps the types: in particular the text asked of an application
\* is one it has, and a seat selection that stands has a text.
THEOREM TypeCorrect == Spec => []TypeOK
<1>1. CInv => TypeOK
  BY DEF CInv
<1> QED BY <1>1, Inductive, PTL

\* clip_we_own_x11 and pri_we_own_x11 agree with the server once no event is
\* queued, whatever SelectionClear and XFixes events crossed a claim.
THEOREM Ownership == Spec => []OwnershipKnown
<1>1. CInv => OwnershipKnown
  <2> SUFFICES ASSUME CInv, Quiet, NEW s \in Selections PROVE weOwn[s] <=> xOwner[s] = Wlx
    BY DEF OwnershipKnown
  <2>1. events \in Seq(Event) /\ asked \in Seq(Request) /\ read \in Seq(Read)
    BY DEF CInv, TypeOK
  <2>2. PICK i \in Nat, j \in Nat, k \in Nat : i = Len(events) /\ j = Len(asked) /\ k = Len(read)
    BY <2>1
  <2>3. i = 0
    BY <2>2 DEF Quiet, InFlight
  <2>4. NoOwn(events, s)
    BY <2>2, <2>3 DEF NoOwn
  <2> QED BY <2>4 DEF CInv, Known, KnownOf
<1> QED BY <1>1, Inductive, PTL

\* Copies cross in either direction and announcements, answers and properties of
\* older copies are still about; once all are handled both sides paste the last
\* one.  Both assumptions are needed: a client that writes and closes loses its
\* copy (clip_claim_hangup), and a copy to another selection cancels the read of
\* the first (clip_claim_shared).
THEOREM LastCopyPasted ==
    ASSUME OneSource
    PROVE  Spec => []Bridged
<1>1. CInv /\ BInv /\ [Next]_<<vars, habit>> => BInv'
  BY StepBInv
<1>2. CInv /\ BInv => Bridged
  <2> SUFFICES ASSUME CInv, BInv, Quiet, habit.oneApp,
                      NEW s \in Selections, s \notin habit.wayland \cap habit.x11, xOwner[s] # NoOwner
               PROVE  Served(s) = latest[s] /\ seat[s].text = latest[s]
    BY DEF Bridged
  <2>1. events \in Seq(Event) /\ asked \in Seq(Request) /\ read \in Seq(Read)
    BY DEF CInv, TypeOK
  <2>2. PICK i \in Nat, j \in Nat, k \in Nat : i = Len(events) /\ j = Len(asked) /\ k = Len(read)
    BY <2>1
  <2>3. i = 0 /\ j = 0 /\ k = 0
    BY <2>2 DEF Quiet, InFlight
  <2>4. Of(events, s) = {} /\ Of(asked, s) = {} /\ read = NoRead
    <3>1. Len(events) = 0 /\ Len(asked) = 0 /\ read = <<>>
      BY <2>1, <2>2, <2>3, EmptySeq
    <3>2. 1..Len(events) = {} /\ 1..Len(asked) = {}
      BY <3>1
    <3> QED BY <3>1, <3>2 DEF Of, NoRead
  <2>5. CASE s \notin habit.wayland
    <3>1. Imports(s)
      BY <2>5 DEF BInv
    <3>2. xOwner[s] = App
      BY <3>1 DEF Imports, CInv, TypeOK
    <3>3. seat[s].text = latest[s]
      BY <2>4, <3>1, <3>2 DEF Imports, OnItsWay, Arrived
    <3> QED BY <3>1, <3>2, <3>3 DEF Imports, Served, App, Wlx
  <2>6. CASE s \notin habit.x11
    <3>1. Exports(s)
      BY <2>6 DEF BInv
    <3>2. xOwner[s] = Wlx
      BY <3>1 DEF Exports, CInv, TypeOK
    <3> QED BY <2>4, <3>1, <3>2 DEF Exports, Reading, Served
  <2> QED BY <2>5, <2>6
<1> QED BY <1>1, <1>2, InitBInv, Inductive, PTL DEF Spec
=============================================================================
