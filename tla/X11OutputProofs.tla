-------------------------- MODULE X11OutputProofs --------------------------
(***************************************************************************)
(* For any set of sizes and any backlog of the window manager, once every   *)
(* message is answered the backend and the server agree about the window's  *)
(* size, in every behaviour in which the backend never issues half of the   *)
(* sequence numbers (2^15 requests) after a ConfigureWindow without another *)
(* ConfigureWindow: []Recent below.  The code does nothing to ensure that,  *)
(* has_configure_seq is set once and never cleared; x11_claim_wrap.cfg      *)
(* shows a resize of the host lost when it does not hold.                   *)
(*                                                                         *)
(* The argument: the newest ConfigureWindow still among the requests asks   *)
(* for winSize, and Since requests have been issued after it.  So while     *)
(* none is under way, the server's clock is ahead of last_configure_seq by  *)
(* at most Since, and whatever is notified now is not stale.                *)
(***************************************************************************)
EXTENDS X11Output, TLAPS

\* What the signed 16-bit difference of handle_x11_configure_notify relies on.
Recent == Since < SeqMod \div 2
NoConfigure == \A i \in 1..Len(requests) : requests[i] = Other

PendingIsMode == pendingSize \in {NoSize, winSize}
NewestAsksMode ==
    \A i \in 1..Len(requests) :
       /\ i > Len(requests) - Since => requests[i] = Other
       /\ i = Len(requests) - Since => requests[i] = winSize
LastEventIsReal == events # <<>> => events[Len(events)].size = real
EventsTyped == events \in Seq(Event)
\* Nothing on its way to the WM: the last event decides, or all is decided.
Decided ==
    NoConfigure /\ asked = <<>> =>
       (events # <<>> /\ ~Stale(events[Len(events)].seq)) \/ Agreement

XInv == /\ TypeOK /\ PendingIsMode /\ NewestAsksMode
        /\ LastEventIsReal /\ Decided

(***************************************************************************)
(* Sequence numbers.                                                        *)
(***************************************************************************)
LEMMA Division ==
    ASSUME NEW a \in Int, NEW n \in Nat \ {0}
    PROVE  /\ a = (a \div n) * n + (a % n)
           /\ a % n \in 0..(n - 1) /\ a \div n \in Int
OBVIOUS

LEMMA AtLeastOnce ==
    ASSUME NEW n \in Nat \ {0}, NEW k \in Int, k >= 1
    PROVE  k * n >= n
OBVIOUS

\* Quotient and remainder are unique.
LEMMA Remainder ==
    ASSUME NEW a \in Int, NEW n \in Nat \ {0}, NEW q \in Int, NEW r \in 0..(n - 1),
           a = q * n + r
    PROVE  a % n = r
<1>1. PICK d \in Int, m \in 0..(n - 1) : a = d * n + m /\ m = a % n
  BY Division
<1>2. (q - d) * n = m - r
  BY <1>1
<1>3. CASE q - d >= 1
  <2>1. (q - d) * n >= n
    BY <1>3, AtLeastOnce
  <2> QED
    BY <1>2, <2>1
<1>4. CASE d - q >= 1
  <2>1. (d - q) * n >= n
    BY <1>4, AtLeastOnce
  <2>2. (d - q) * n = r - m
    BY <1>2
  <2> QED
    BY <2>1, <2>2
<1>5. CASE q = d
  BY <1>1, <1>5
<1> QED
  BY <1>3, <1>4, <1>5

LEMMA Turns ==
    ASSUME NEW a \in Int, NEW n \in Nat \ {0}, NEW q \in Int
    PROVE  (q * n + a) % n = a % n
<1>1. PICK d \in Int, m \in 0..(n - 1) : a = d * n + m /\ m = a % n
  BY Division
<1>2. q * n + a = (q + d) * n + m
  BY <1>1
<1>3. q * n + a \in Int /\ q + d \in Int
  OBVIOUS
<1>4. (q * n + a) % n = m
  BY <1>2, <1>3, Remainder
<1> QED
  BY <1>1, <1>4

LEMMA Reduced ==
    ASSUME NEW a \in Int, NEW b \in Int, NEW n \in Nat \ {0}
    PROVE  ((a % n) + b) % n = (a + b) % n
<1>1. PICK d \in Int, m \in 0..(n - 1) : a = d * n + m /\ m = a % n
  BY Division
<1>2. a + b = d * n + (m + b) /\ m + b \in Int
  BY <1>1
<1>3. (d * n + (m + b)) % n = (m + b) % n
  BY <1>2, Turns
<1> QED
  BY <1>1, <1>2, <1>3

\* Processing a request does not issue one.
LEMMA ProcessKeepsIssued ==
    ASSUME NEW d \in Int, NEW n \in Nat
    PROVE  (((d + 1) % SeqMod) + (n - 1)) % SeqMod = (d + n) % SeqMod
<1>1. (((d + 1) % SeqMod) + (n - 1)) % SeqMod = ((d + 1) + (n - 1)) % SeqMod
  <2>1. d + 1 \in Int /\ n - 1 \in Int
    OBVIOUS
  <2> QED
    BY <2>1, Reduced, BoundsAssumption, Zenon
<1>2. (d + 1) + (n - 1) = d + n
  OBVIOUS
<1> QED
  BY <1>1, <1>2

\* Issuing one does, whatever the server has processed.
LEMMA IssueCounts ==
    ASSUME NEW d \in Int, NEW n \in Nat
    PROVE  (d + (n + 1)) % SeqMod = (((d + n) % SeqMod) + 1) % SeqMod
<1>1. (((d + n) % SeqMod) + 1) % SeqMod = ((d + n) + 1) % SeqMod
  <2>1. d + n \in Int /\ 1 \in Int
    OBVIOUS
  <2> QED
    BY <2>1, Reduced, BoundsAssumption, Zenon
<1>2. (d + n) + 1 = d + (n + 1)
  OBVIOUS
<1> QED
  BY <1>1, <1>2

\* One more request since the ConfigureWindow numbered l.
LEMMA OneMore ==
    ASSUME NEW issued \in Int, NEW l \in Int, (issued - l) % SeqMod < SeqMod - 1
    PROVE  (((issued + 1) % SeqMod) - l) % SeqMod = ((issued - l) % SeqMod) + 1
<1>1. SeqMod \in Nat \ {0} /\ issued + 1 \in Int /\ -l \in Int /\ issued - l \in Int
  BY BoundsAssumption
<1>2. (((issued + 1) % SeqMod) + (-l)) % SeqMod = ((issued + 1) + (-l)) % SeqMod
  BY <1>1, Reduced, Zenon
<1>3. PICK d \in Int, m \in 0..(SeqMod - 1) : issued - l = d * SeqMod + m
                                              /\ m = (issued - l) % SeqMod
  BY <1>1, Division, Zenon
<1>4. (issued + 1) + (-l) = d * SeqMod + (m + 1) /\ m + 1 \in 0..(SeqMod - 1)
  BY <1>1, <1>3
<1>5. ((issued + 1) + (-l)) % SeqMod = m + 1
  <2>1. (issued + 1) + (-l) \in Int
    BY <1>1
  <2> QED
    BY <1>1, <1>3, <1>4, <2>1, Remainder, Zenon
<1>6. ((issued + 1) % SeqMod) - l = ((issued + 1) % SeqMod) + (-l)
  BY <1>1
<1> QED
  BY <1>2, <1>3, <1>5, <1>6

\* With n requests to process and no fewer issued since the ConfigureWindow
\* numbered l, the server has passed that one.
LEMMA Passed ==
    ASSUME NEW d \in Int, NEW n \in Nat, NEW l \in Int,
           (((d + n) % SeqMod) - l) % SeqMod >= n
    PROVE  (d - l) % SeqMod = ((((d + n) % SeqMod) - l) % SeqMod) - n
<1>1. /\ SeqMod \in Nat \ {0} /\ d + n \in Int /\ -l \in Int
      /\ (d + n) - l \in Int /\ d - l \in Int
  BY BoundsAssumption
<1>2. (((d + n) % SeqMod) + (-l)) % SeqMod = ((d + n) + (-l)) % SeqMod
  BY <1>1, Reduced, Zenon
<1>3. /\ ((d + n) % SeqMod) - l = ((d + n) % SeqMod) + (-l)
      /\ (d + n) + (-l) = (d + n) - l
  BY <1>1
<1>4. PICK q \in Int, m \in 0..(SeqMod - 1) : (d + n) - l = q * SeqMod + m
                                              /\ m = ((d + n) - l) % SeqMod
  BY <1>1, Division, Zenon
<1>5. m = (((d + n) % SeqMod) - l) % SeqMod
  BY <1>2, <1>3, <1>4
<1>6. d - l = q * SeqMod + (m - n) /\ m - n \in 0..(SeqMod - 1)
  BY <1>1, <1>4, <1>5
<1>7. (d - l) % SeqMod = m - n
  BY <1>1, <1>4, <1>6, Remainder, Zenon
<1> QED
  BY <1>5, <1>7

(***************************************************************************)
(* The requests.                                                            *)
(***************************************************************************)
LEMMA Facts ==
    ASSUME TypeOK
    PROVE  /\ SeqMod \in Nat \ {0}
           /\ winSize \in Sizes /\ winSize # Other /\ winSize # NoSize
           /\ requests \in Seq(Sizes \cup {Other}) /\ Len(requests) \in Nat
           /\ lastSeq \in Nat /\ done \in Nat
           /\ Issued \in SeqNumbers /\ SeqNumbers \subseteq Nat
           /\ Since \in Nat
<1>1. SeqMod \in Nat \ {0}
  BY BoundsAssumption
<1>2. winSize \in Sizes /\ winSize # Other /\ winSize # NoSize
  BY TagsAssumption DEF TypeOK
<1>3. lastSeq \in Nat /\ done \in Nat /\ SeqNumbers \subseteq Nat
  BY <1>1 DEF TypeOK, SeqNumbers
<1>4. requests \in Seq(Sizes \cup {Other})
  BY DEF TypeOK
<1>5. Len(requests) \in Nat
  BY <1>4
<1>6. Issued \in SeqNumbers
  BY <1>1, <1>3, <1>5, Division DEF Issued, SeqNumbers
<1>7. Issued - lastSeq \in Int
  BY <1>3, <1>6
<1>8. Since \in Nat
  BY <1>1, <1>7, Division DEF Since
<1> QED
  BY <1>1, <1>2, <1>3, <1>4, <1>5, <1>6, <1>8

\* Without a ConfigureWindow under way the server's clock has passed the newest.
LEMMA Fresh ==
    TypeOK /\ Recent /\ NewestAsksMode /\ NoConfigure => ~Stale(done)
<1> SUFFICES ASSUME TypeOK, Recent, NewestAsksMode, NoConfigure
             PROVE  ~Stale(done)
  OBVIOUS
<1>1. /\ Len(requests) \in Nat /\ done \in Nat /\ lastSeq \in Nat
      /\ winSize # Other /\ Since \in Nat /\ SeqMod \in Nat \ {0}
  BY Facts
<1>2. Since = (((done + Len(requests)) % SeqMod) - lastSeq) % SeqMod
  BY DEF Since, Issued
<1>3. Since >= Len(requests)
  <2> SUFFICES ASSUME Since < Len(requests) PROVE FALSE
    BY <1>1
  <2>1. Len(requests) - Since \in 1..Len(requests)
    BY <1>1
  <2> QED
    BY <1>1, <2>1 DEF NewestAsksMode, NoConfigure
<1>4. (done - lastSeq) % SeqMod = Since - Len(requests)
  <2>1. done \in Int /\ lastSeq \in Int
    BY <1>1
  <2> QED
    BY <1>1, <1>2, <1>3, <2>1, Passed, Zenon
<1>5. SeqMod \div 2 \in Int
  BY <1>1
<1> QED
  BY <1>1, <1>4, <1>5 DEF Stale, Recent

\* The same, after a step.
LEMMA FreshNext ==
    ASSUME TypeOK', Recent', NewestAsksMode', NoConfigure'
    PROVE  (~Stale(done))'
BY Fresh, PTL

(***************************************************************************)
(* Each action keeps the invariant.                                         *)
(***************************************************************************)
\* A mode commit with a new size: it leads what is under way.
LEMMA SetCustomModeKeeps ==
    ASSUME XInv, Recent, NEW s \in Sizes, SetCustomMode(s),
           s # winSize,
           done' = done, asked' = asked, real' = real,
           EventsTyped', LastEventIsReal'
    PROVE  XInv'
<1>1. /\ requests' = Append(requests, s) /\ lastSeq' = (Issued + 1) % SeqMod
      /\ pendingSize' = s /\ winSize' = s
  BY DEF SetCustomMode
<1>2. /\ Len(requests) \in Nat /\ done \in Nat /\ lastSeq \in Nat
      /\ SeqMod \in Nat \ {0} /\ requests \in Seq(Sizes \cup {Other}) /\ s # Other
  BY Facts, TagsAssumption DEF XInv
<1>3. /\ requests' \in Seq(Sizes \cup {Other}) /\ Len(requests') = Len(requests) + 1
      /\ requests'[Len(requests')] = s
  BY <1>1, <1>2
<1>4. Issued' = (Issued + 1) % SeqMod
  BY <1>1, <1>2, <1>3, IssueCounts DEF Issued
<1>5. lastSeq' = Issued' /\ lastSeq' \in SeqNumbers
  <2>1. Issued + 1 \in Int
    BY Facts DEF XInv
  <2> QED
    BY <1>1, <1>2, <1>4, <2>1, Division DEF SeqNumbers
<1>6. Since' = 0
  <2>1. 0 % SeqMod = 0
    BY <1>2, Remainder
  <2>2. Issued' - lastSeq' = 0
    <3>1. lastSeq' \in Nat
      <4>1. SeqNumbers \subseteq Nat
        BY Facts DEF XInv
      <4> QED
        BY <1>5, <4>1
    <3>2. \A n \in Nat : n - n = 0
      OBVIOUS
    <3>3. lastSeq' - lastSeq' = 0
      BY <3>1, <3>2, Zenon
    <3> QED
      BY <1>5, <3>3, Zenon
  <2> QED
    BY <2>1, <2>2 DEF Since
<1>7. TypeOK'
  BY <1>1, <1>3, <1>5 DEF TypeOK, XInv, EventsTyped
<1>8. PendingIsMode'
  BY <1>1 DEF PendingIsMode
<1>9. NewestAsksMode'
  BY <1>1, <1>2, <1>3, <1>6 DEF NewestAsksMode
<1>10. ~NoConfigure'
  <2>1. Len(requests') \in 1..Len(requests')
    BY <1>2, <1>3
  <2> QED
    BY <1>2, <1>3, <2>1 DEF NoConfigure
<1> QED
  BY <1>7, <1>8, <1>9, <1>10 DEF XInv, Decided

LEMMA FitWindowKeeps ==
    ASSUME XInv, Recent, NEW s \in FitSizes, FitWindow(s)
    PROVE  XInv'
<1>1. /\ s \in Sizes /\ SetCustomMode(s) /\ s # winSize
      /\ done' = done /\ asked' = asked /\ real' = real /\ events' = events
  BY SizesAssumption DEF FitWindow
<1>2. LastEventIsReal' /\ EventsTyped'
  BY <1>1 DEF XInv, LastEventIsReal, TypeOK, EventsTyped
<1> QED
  BY <1>1, <1>2, SetCustomModeKeeps

\* Any other request makes the newest ConfigureWindow one older.
LEMMA SendOtherKeeps ==
    ASSUME XInv, Recent, SendOther
    PROVE  XInv'
<1>1. /\ requests' = Append(requests, Other)
      /\ winSize' = winSize /\ pendingSize' = pendingSize /\ lastSeq' = lastSeq
      /\ done' = done /\ asked' = asked /\ real' = real /\ events' = events
  BY DEF SendOther, backend
<1>2. /\ Len(requests) \in Nat /\ done \in Nat /\ lastSeq \in Nat
      /\ Since \in Nat /\ Issued \in Nat /\ requests \in Seq(Sizes \cup {Other})
  BY Facts DEF XInv
<1>3. /\ requests' \in Seq(Sizes \cup {Other}) /\ Len(requests') = Len(requests) + 1
      /\ requests'[Len(requests) + 1] = Other
      /\ \A i \in 1..Len(requests) : requests'[i] = requests[i]
  BY <1>1, <1>2
<1>4. Issued' = (Issued + 1) % SeqMod
  BY <1>1, <1>2, <1>3, IssueCounts DEF Issued
<1>5. Since' = Since + 1
  <2>1. SeqMod \div 2 <= SeqMod - 1 /\ SeqMod \in Nat
    BY BoundsAssumption
  <2>2. Since < SeqMod - 1
    BY <1>2, <2>1 DEF Recent
  <2>3. (((Issued + 1) % SeqMod) - lastSeq) % SeqMod = ((Issued - lastSeq) % SeqMod) + 1
    BY <1>2, <2>2, OneMore DEF Since
  <2> QED
    BY <1>1, <1>4, <2>3 DEF Since
<1>6. TypeOK' /\ PendingIsMode' /\ LastEventIsReal'
  BY <1>1, <1>3 DEF TypeOK, XInv, PendingIsMode, LastEventIsReal
<1>7. NewestAsksMode'
  <2> SUFFICES ASSUME NEW i \in 1..(Len(requests) + 1)
               PROVE  /\ i > Len(requests) - Since => requests'[i] = Other
                      /\ i = Len(requests) - Since => requests'[i] = winSize
    BY <1>1, <1>2, <1>3, <1>5 DEF NewestAsksMode
  <2>1. CASE i = Len(requests) + 1
    BY <1>2, <1>3, <1>5, <2>1
  <2>2. CASE i \in 1..Len(requests)
    BY <1>3, <2>2 DEF XInv, NewestAsksMode
  <2> QED
    BY <1>2, <2>1, <2>2
<1>8. NoConfigure' => NoConfigure
  BY <1>2, <1>3 DEF NoConfigure
<1>9. Decided'
  BY <1>1, <1>8 DEF XInv, Decided, Stale, Agreement
<1> QED
  BY <1>6, <1>7, <1>9 DEF XInv

\* Dropping the first event leaves the last, if there was another.
LEMMA TailFacts ==
    ASSUME TypeOK, LastEventIsReal, events # <<>>, events' = Tail(events), real' = real
    PROVE  /\ EventsTyped' /\ LastEventIsReal'
           /\ events' # <<>> => events'[Len(events')] = events[Len(events)]
           /\ events' = <<>> => Head(events) = events[Len(events)]
           /\ Head(events) = events[1]
           /\ Head(events).size \in Sizes
<1>1. events \in Seq(Event)
  BY DEF TypeOK
<1>2. \A e \in Event : e.size \in Sizes
  BY DEF Event
<1>3. /\ Len(events) \in Nat \ {0} /\ events' \in Seq(Event) /\ Len(events') = Len(events) - 1
      /\ \A i \in 1..Len(events') : events'[i] = events[i + 1]
      /\ Head(events) = events[1] /\ Head(events) \in Event
  BY <1>1
<1>4. events' # <<>> => Len(events') \in 1..Len(events')
  BY <1>3
<1>5. events' = <<>> => Len(events) = 1
  <2>1. events' = <<>> => Len(events') = 0
    OBVIOUS
  <2> QED
    BY <1>3, <2>1
<1>6. events' # <<>> => events'[Len(events')] = events[Len(events)]
  BY <1>3, <1>4
<1>7. LastEventIsReal'
  BY <1>6 DEF LastEventIsReal
<1>8. EventsTyped'
  BY <1>3 DEF EventsTyped
<1> QED
  BY <1>2, <1>3, <1>5, <1>6, <1>7, <1>8

LEMMA HandleConfigureNotifyKeeps ==
    ASSUME XInv, Recent, HandleConfigureNotify
    PROVE  XInv'
<1> DEFINE ev == Head(events)
           last == events[Len(events)]
<1>1. /\ events # <<>> /\ events' = Tail(events)
      /\ done' = done /\ asked' = asked /\ real' = real /\ TypeOK
  BY DEF HandleConfigureNotify, XInv
<1>2. /\ EventsTyped' /\ LastEventIsReal'
      /\ events' # <<>> => events'[Len(events')] = last
      /\ events' = <<>> => ev = last
      /\ last.size = real /\ ev.size \in Sizes
  BY <1>1, TailFacts DEF XInv, LastEventIsReal
<1>3. \/ /\ Stale(ev.seq) \/ (~SelfAck(ev.size) /\ ev.size = winSize)
         /\ UNCHANGED <<backend, requests>>
      \/ /\ ~Stale(ev.seq) /\ SelfAck(ev.size)
         /\ pendingSize' = NoSize
         /\ UNCHANGED <<winSize, lastSeq, requests>>
      \/ /\ ~Stale(ev.seq) /\ ~SelfAck(ev.size) /\ ev.size # winSize
         /\ SetCustomMode(ev.size)
  BY DEF HandleConfigureNotify
<1> HIDE DEF ev, last
<1>4. CASE ev.size # winSize /\ SetCustomMode(ev.size)
  BY <1>1, <1>2, <1>4, SetCustomModeKeeps
<1>5. ASSUME winSize' = winSize, lastSeq' = lastSeq, requests' = requests,
             pendingSize' \in {pendingSize, NoSize},
             events' = <<>> /\ ~Stale(last.seq) => pendingSize' = NoSize /\ winSize = real,
             pendingSize = NoSize => pendingSize' = NoSize
      PROVE  XInv'
  <2>1. TypeOK' /\ PendingIsMode'
    BY <1>1, <1>2, <1>5 DEF TypeOK, EventsTyped, XInv, PendingIsMode
  <2>2. Since' = Since
    BY <1>1, <1>5 DEF Since, Issued
  <2>3. NewestAsksMode'
    BY <1>5, <2>2 DEF XInv, NewestAsksMode
  <2>4. (NoConfigure' <=> NoConfigure) /\ (Agreement => Agreement')
    BY <1>1, <1>5 DEF NoConfigure, Agreement
  <2>5. \A q : Stale(q)' <=> Stale(q)
    BY <1>5 DEF Stale
  <2>6. ASSUME NoConfigure, asked = <<>>
        PROVE  (events' # <<>> /\ ~Stale(events[Len(events)].seq)) \/ Agreement'
    <3>1. (events # <<>> /\ ~Stale(last.seq)) \/ Agreement
      BY <2>6 DEF XInv, Decided, last
    <3>2. CASE Agreement
      BY <2>4, <3>2
    <3>3. CASE ~Stale(last.seq) /\ events' # <<>>
      BY <3>3 DEF last
    <3>4. CASE ~Stale(last.seq) /\ events' = <<>>
      BY <1>1, <1>5, <3>4 DEF Agreement
    <3> QED
      BY <3>1, <3>2, <3>3, <3>4
  <2>7. Decided'
    <3> SUFFICES ASSUME NoConfigure', asked' = <<>>
                 PROVE  (events' # <<>> /\ ~Stale(events[Len(events)].seq)') \/ Agreement'
      BY <1>2 DEF Decided, last
    <3> QED
      BY <1>1, <2>4, <2>5, <2>6
  <2> QED
    BY <1>2, <2>1, <2>3, <2>7 DEF XInv
<1>6. CASE /\ Stale(ev.seq) \/ (~SelfAck(ev.size) /\ ev.size = winSize)
           /\ UNCHANGED <<backend, requests>>
  <2>1. winSize' = winSize /\ lastSeq' = lastSeq /\ requests' = requests /\ pendingSize' = pendingSize
    BY <1>6 DEF backend
  <2>2. events' = <<>> /\ ~Stale(last.seq) => pendingSize = NoSize /\ winSize = real
    BY <1>2, <1>6 DEF SelfAck, XInv, PendingIsMode
  <2> QED
    BY <1>5, <2>1, <2>2
<1>7. CASE /\ ~Stale(ev.seq) /\ SelfAck(ev.size)
           /\ pendingSize' = NoSize
           /\ UNCHANGED <<winSize, lastSeq, requests>>
  <2>1. ev.size = winSize
    BY <1>2, <1>7, TagsAssumption DEF SelfAck, XInv, PendingIsMode
  <2> QED
    BY <1>2, <1>5, <1>7, <2>1
<1> QED
  BY <1>3, <1>4, <1>6, <1>7

\* The host or the WM sizes the window and the server says so.
LEMMA NotifyKeeps ==
    ASSUME XInv, Recent, NEW s \in Sizes, real' = s,
           backend' = backend, requests' = requests, done' = done,
           asked' \in Seq(Sizes), Notify(s)
    PROVE  XInv'
<1>1. /\ winSize' = winSize /\ pendingSize' = pendingSize /\ lastSeq' = lastSeq
      /\ events' = Append(events, [seq |-> done, size |-> s])
      /\ TypeOK /\ events \in Seq(Event)
  BY DEF backend, Notify, XInv, TypeOK
<1>2. [seq |-> done, size |-> s] \in Event
  BY <1>1 DEF TypeOK, Event
<1>3. events' \in Seq(Event) /\ events' # <<>> /\ events'[Len(events')] = [seq |-> done, size |-> s]
  BY <1>1, <1>2
<1>4. events'[Len(events')].seq = done /\ events'[Len(events')].size = s
  BY <1>3
<1>5. TypeOK' /\ PendingIsMode' /\ LastEventIsReal'
  BY <1>1, <1>3, <1>4 DEF TypeOK, XInv, PendingIsMode, LastEventIsReal
<1>6. Since' = Since
  BY <1>1 DEF Since, Issued
<1>7. NewestAsksMode'
  BY <1>1, <1>6 DEF XInv, NewestAsksMode
<1>8. NoConfigure' => ~Stale(done)
  BY Fresh DEF XInv, NoConfigure
<1>9. Stale(events[Len(events)].seq)' <=> Stale(done)
  BY <1>1, <1>4 DEF Stale
<1>10. Decided'
  BY <1>3, <1>8, <1>9 DEF Decided
<1> QED
  BY <1>5, <1>7, <1>10 DEF XInv

LEMMA HostResizesKeeps ==
    ASSUME XInv, Recent, NEW s \in Sizes, HostResizes(s)
    PROVE  XInv'
<1>1. /\ real' = s /\ backend' = backend /\ requests' = requests /\ done' = done
      /\ asked' = asked /\ Notify(s)
  BY DEF HostResizes, backend
<1>2. asked' \in Seq(Sizes)
  BY <1>1 DEF XInv, TypeOK
<1> QED
  BY <1>1, <1>2, NotifyKeeps

LEMMA WmAnswersKeeps ==
    ASSUME XInv, Recent, WmAnswers
    PROVE  XInv'
<1>1. /\ asked # <<>> /\ asked' = Tail(asked) /\ asked \in Seq(Sizes)
      /\ real' = Head(asked) \/ real' = real
      /\ backend' = backend /\ requests' = requests /\ done' = done /\ Notify(real')
      /\ real \in Sizes
  BY DEF WmAnswers, backend, XInv, TypeOK
<1>2. asked' \in Seq(Sizes) /\ Head(asked) \in Sizes
  BY <1>1
<1>3. PICK s \in Sizes : s = real'
  BY <1>1, <1>2
<1> QED
  BY <1>1, <1>2, <1>3, NotifyKeeps

\* The server processes a request: those left are where they were, relative to
\* the newest ConfigureWindow.
LEMMA ProcessFacts ==
    ASSUME TypeOK, NewestAsksMode, Recent, requests # <<>>, requests' = Tail(requests),
           done' = (done + 1) % SeqMod, backend' = backend
    PROVE  /\ done' \in SeqNumbers
           /\ requests' \in Seq(Sizes \cup {Other})
           /\ Len(requests') = Len(requests) - 1 /\ Len(requests) \in Nat \ {0}
           /\ Head(requests) = requests[1] /\ Head(requests) \in Sizes \cup {Other}
           /\ \A i \in 1..Len(requests') : requests'[i] = requests[i + 1]
           /\ Recent' /\ NewestAsksMode'
<1>1. /\ SeqMod \in Nat \ {0} /\ done \in Nat /\ Since \in Nat
      /\ requests \in Seq(Sizes \cup {Other}) /\ lastSeq' = lastSeq /\ winSize' = winSize
  BY Facts DEF backend
<1>2. /\ requests' \in Seq(Sizes \cup {Other})
      /\ Len(requests') = Len(requests) - 1 /\ Len(requests) \in Nat \ {0}
      /\ Head(requests) = requests[1] /\ Head(requests) \in Sizes \cup {Other}
      /\ \A i \in 1..Len(requests') : requests'[i] = requests[i + 1]
  BY <1>1
<1>3. done' \in SeqNumbers
  <2>1. done + 1 \in Int
    BY <1>1
  <2> QED
    BY <1>1, <2>1, Division, Zenon DEF SeqNumbers
<1>4. Issued' = Issued
  <2>1. done \in Int /\ Len(requests) \in Nat
    BY <1>1, <1>2
  <2>2. (((done + 1) % SeqMod) + (Len(requests) - 1)) % SeqMod = (done + Len(requests)) % SeqMod
    BY <2>1, ProcessKeepsIssued, Zenon
  <2> QED
    BY <1>2, <2>2, Zenon DEF Issued
<1>5. Since' = Since
  BY <1>1, <1>4 DEF Since
<1>6. Recent'
  BY <1>5 DEF Recent
<1>7. NewestAsksMode'
  <2> SUFFICES ASSUME NEW i \in 1..Len(requests')
               PROVE  /\ i > Len(requests') - Since => requests'[i] = Other
                      /\ i = Len(requests') - Since => requests'[i] = winSize
    BY <1>1, <1>5 DEF NewestAsksMode
  <2>1. /\ i + 1 \in 1..Len(requests)
        /\ i > Len(requests') - Since <=> i + 1 > Len(requests) - Since
        /\ i = Len(requests') - Since <=> i + 1 = Len(requests) - Since
    <3>1. PICK n \in Nat, u \in Nat : n + 1 = Len(requests) /\ n = Len(requests') /\ u = Since
      <4>1. Len(requests) \in Nat \ {0} /\ Len(requests') = Len(requests) - 1
        BY <1>2
      <4>2. Len(requests') \in Nat /\ Len(requests') + 1 = Len(requests)
        BY <4>1
      <4>3. Since \in Nat
        BY <1>1
      <4> QED
        BY <4>2, <4>3
    <3>2. i \in 1..n
      BY <3>1
    <3>3. /\ i + 1 \in 1..(n + 1)
          /\ i > n - u <=> i + 1 > (n + 1) - u
          /\ i = n - u <=> i + 1 = (n + 1) - u
      BY <3>2
    <3> QED
      BY <3>1, <3>3
  <2>2. requests'[i] = requests[i + 1]
    BY <1>2
  <2> QED
    BY <2>1, <2>2 DEF NewestAsksMode
<1> QED
  BY <1>2, <1>3, <1>6, <1>7

LEMMA ServerProcessesKeeps ==
    ASSUME XInv, Recent, ServerProcesses
    PROVE  XInv'
<1> DEFINE r == Head(requests)
<1>1. /\ requests # <<>> /\ requests' = Tail(requests) /\ done' = (done + 1) % SeqMod
      /\ backend' = backend /\ TypeOK
      /\ winSize' = winSize /\ pendingSize' = pendingSize /\ lastSeq' = lastSeq
  BY DEF ServerProcesses, backend, XInv
<1>2. /\ done' \in SeqNumbers
      /\ requests' \in Seq(Sizes \cup {Other})
      /\ Len(requests') = Len(requests) - 1 /\ Len(requests) \in Nat \ {0}
      /\ r = requests[1] /\ r \in Sizes \cup {Other}
      /\ \A i \in 1..Len(requests') : requests'[i] = requests[i + 1]
      /\ Recent' /\ NewestAsksMode'
  BY <1>1, ProcessFacts DEF XInv
<1>3. \/ /\ r = Other
         /\ UNCHANGED <<asked, real, events>>
      \/ /\ r # Other /\ Managed
         /\ asked' = Append(asked, r)
         /\ UNCHANGED <<real, events>>
      \/ /\ r # Other /\ ~Managed
         /\ real' = r
         /\ IF r = real THEN UNCHANGED events ELSE Notify(r)
         /\ UNCHANGED asked
  BY DEF ServerProcesses
<1> HIDE DEF r
<1>4. PendingIsMode'
  BY <1>1 DEF XInv, PendingIsMode
<1>5. ASSUME asked' \in Seq(Sizes), real' \in Sizes, events' \in Seq(Event)
      PROVE  TypeOK'
  BY <1>1, <1>2, <1>5 DEF TypeOK
<1>6. asked \in Seq(Sizes) /\ real \in Sizes /\ events \in Seq(Event)
  BY <1>1 DEF TypeOK
<1>7. CASE r = Other /\ UNCHANGED <<asked, real, events>>
  <2>1. TypeOK' /\ LastEventIsReal'
    BY <1>5, <1>6, <1>7 DEF XInv, LastEventIsReal
  <2>2. NoConfigure' => NoConfigure
    <3> SUFFICES ASSUME NoConfigure', NEW i \in 1..Len(requests)
                 PROVE  requests[i] = Other
      BY DEF NoConfigure
    <3>1. CASE i = 1
      BY <1>2, <1>7, <3>1
    <3>2. CASE i > 1
      <4>1. i - 1 \in 1..Len(requests') /\ (i - 1) + 1 = i
        BY <1>2, <3>2
      <4> QED
        BY <1>2, <4>1 DEF NoConfigure
    <3> QED
      BY <1>2, <3>1, <3>2
  <2>3. Decided'
    BY <1>1, <1>7, <2>2 DEF XInv, Decided, Stale, Agreement
  <2> QED
    BY <1>2, <1>4, <2>1, <2>3 DEF XInv
<1>8. CASE r # Other /\ asked' = Append(asked, r) /\ UNCHANGED <<real, events>>
  <2>1. asked' \in Seq(Sizes) /\ asked' # <<>>
    BY <1>2, <1>6, <1>8
  <2>2. TypeOK' /\ LastEventIsReal'
    BY <1>5, <1>6, <1>8, <2>1 DEF XInv, LastEventIsReal
  <2> QED
    BY <1>2, <1>4, <2>1, <2>2 DEF XInv, Decided
<1>9. CASE r # Other /\ real' = r /\ r # real /\ Notify(r) /\ UNCHANGED asked
  <2>1. /\ events' = Append(events, [seq |-> done', size |-> r])
        /\ [seq |-> done', size |-> r] \in Event /\ r \in Sizes
    BY <1>2, <1>9 DEF Notify, Event
  <2>2. /\ events' \in Seq(Event) /\ events' # <<>>
        /\ events'[Len(events')] = [seq |-> done', size |-> r]
    BY <1>6, <2>1
  <2>3. events'[Len(events')].seq = done' /\ events'[Len(events')].size = r
    BY <2>2
  <2>4. TypeOK' /\ LastEventIsReal'
    BY <1>5, <1>6, <1>9, <2>1, <2>2, <2>3 DEF LastEventIsReal
  <2>5. NoConfigure' => ~Stale(done)'
    BY <1>2, <2>4, FreshNext
  <2>6. Stale(events[Len(events)].seq)' <=> Stale(done)'
    BY <2>3 DEF Stale
  <2>7. Decided'
    BY <2>2, <2>5, <2>6 DEF Decided
  <2> QED
    BY <1>2, <1>4, <2>4, <2>7 DEF XInv
<1>10. CASE /\ r # Other /\ ~Managed /\ real' = r /\ r = real
            /\ UNCHANGED <<asked, events>>
  <2>1. TypeOK' /\ LastEventIsReal'
    BY <1>5, <1>6, <1>10 DEF XInv, LastEventIsReal
  <2>2. ASSUME NoConfigure'
        PROVE  winSize = r
    <3>1. Since \in Nat /\ winSize # Other
      BY <1>1, Facts
    <3>2. Since <= Len(requests) - 1
      <4>1. 1 \in 1..Len(requests) /\ requests[1] # Other
        BY <1>2, <1>10
      <4>2. ~(1 > Len(requests) - Since)
        BY <4>1 DEF XInv, NewestAsksMode
      <4> QED
        BY <1>2, <3>1, <4>2
    <3> DEFINE i == Len(requests) - Since
    <3>3. i \in 1..Len(requests)
      BY <1>2, <3>1, <3>2
    <3>4. requests[i] = winSize
      BY <3>3 DEF XInv, NewestAsksMode
    <3> HIDE DEF i
    <3>5. i = 1
      <4> SUFFICES ASSUME i # 1 PROVE FALSE
        OBVIOUS
      <4>1. i - 1 \in 1..Len(requests') /\ (i - 1) + 1 = i
        BY <1>2, <3>3
      <4>2. requests'[i - 1] = requests[i]
        BY <1>2, <4>1
      <4>3. requests'[i - 1] = Other
        BY <2>2, <4>1 DEF NoConfigure
      <4> QED
        BY <3>1, <3>4, <4>2, <4>3
    <3> QED
      BY <1>2, <3>4, <3>5
  <2>3. Decided'
    BY <1>1, <1>4, <1>10, <2>2 DEF Decided, Agreement, PendingIsMode
  <2> QED
    BY <1>2, <1>4, <2>1, <2>3 DEF XInv
<1> QED
  BY <1>3, <1>7, <1>8, <1>9, <1>10

(***************************************************************************)
(* The theorems.                                                            *)
(***************************************************************************)
LEMMA InitEstablishes ==
    ASSUME Init
    PROVE  XInv
<1>1. /\ winSize \in Sizes /\ real = winSize /\ pendingSize = NoSize
      /\ done = 0 /\ lastSeq = 0 /\ requests = <<>> /\ asked = <<>> /\ events = <<>>
  BY DEF Init
<1>2. SeqMod \in Nat \ {0}
  BY BoundsAssumption
<1>3. TypeOK
  BY <1>1, <1>2 DEF TypeOK, SeqNumbers
<1>4. Since = 0
  <2>1. 0 % SeqMod = 0
    BY <1>2, Remainder
  <2>2. (0 + 0) % SeqMod = 0
    BY <2>1
  <2> QED
    BY <1>1, <2>1, <2>2 DEF Since, Issued
<1>5. PendingIsMode /\ LastEventIsReal
  BY <1>1 DEF PendingIsMode, LastEventIsReal
<1>6. NewestAsksMode
  BY <1>1 DEF NewestAsksMode
<1>7. Decided
  BY <1>1 DEF Decided, Agreement
<1> QED
  BY <1>3, <1>5, <1>6, <1>7 DEF XInv

LEMMA NextKeeps ==
    ASSUME XInv, Recent, [Next]_vars
    PROVE  XInv'
<1>1. ASSUME NEW s \in FitSizes, FitWindow(s) PROVE XInv'
  BY <1>1, FitWindowKeeps
<1>2. ASSUME NEW s \in Sizes, HostResizes(s) PROVE XInv'
  BY <1>2, HostResizesKeeps
<1>3. CASE SendOther \/ HandleConfigureNotify \/ ServerProcesses \/ WmAnswers
  BY <1>3, SendOtherKeeps, HandleConfigureNotifyKeeps, ServerProcessesKeeps, WmAnswersKeeps
<1>4. CASE UNCHANGED vars
  <2>1. /\ winSize' = winSize /\ pendingSize' = pendingSize /\ lastSeq' = lastSeq
        /\ requests' = requests /\ done' = done /\ asked' = asked /\ real' = real
        /\ events' = events
    BY <1>4 DEF vars, backend, server
  <2>2. Since' = Since
    BY <2>1 DEF Since, Issued
  <2>3. TypeOK' /\ PendingIsMode' /\ LastEventIsReal'
    BY <2>1 DEF XInv, TypeOK, PendingIsMode, LastEventIsReal
  <2>4. NewestAsksMode'
    BY <2>1, <2>2 DEF XInv, NewestAsksMode
  <2>5. Decided'
    BY <2>1 DEF XInv, Decided, NoConfigure, Stale, Agreement
  <2> QED
    BY <2>3, <2>4, <2>5 DEF XInv
<1> QED
  BY <1>1, <1>2, <1>3, <1>4 DEF Next, Moves

LEMMA HeadTail ==
    ASSUME NEW S, NEW q \in Seq(S), q # <<>>
    PROVE  Tail(q) \in Seq(S) /\ Head(q) \in S
OBVIOUS

\* Types need no such condition: every number is reduced where it is made.
LEMMA CommitTypes ==
    ASSUME TypeOK, NEW s \in Sizes, SetCustomMode(s)
    PROVE  /\ winSize' \in Sizes /\ pendingSize' \in Sizes \cup {NoSize}
           /\ lastSeq' \in SeqNumbers /\ requests' \in Seq(Sizes \cup {Other})
<1>1. SeqMod \in Nat \ {0} /\ Issued \in Nat
  BY Facts
<1>2. (Issued + 1) % SeqMod \in SeqNumbers
  <2>1. Issued + 1 \in Int
    BY <1>1
  <2> QED
    BY <1>1, <2>1, Division, Zenon DEF SeqNumbers
<1>3. CASE UNCHANGED <<backend, requests>>
  BY <1>3 DEF TypeOK, backend
<1>4. CASE /\ requests' = Append(requests, s) /\ lastSeq' = (Issued + 1) % SeqMod
           /\ pendingSize' = s /\ winSize' = s
  BY <1>2, <1>4 DEF TypeOK
<1> QED
  BY <1>3, <1>4 DEF SetCustomMode

LEMMA NextTypes == TypeOK /\ [Next]_vars => TypeOK'
<1> SUFFICES ASSUME TypeOK, [Next]_vars PROVE TypeOK'
  OBVIOUS
<1>1. \A seq \in SeqNumbers, s \in Sizes :
         Append(events, [seq |-> seq, size |-> s]) \in Seq(Event)
  BY DEF TypeOK, Event
<1>2. ASSUME NEW s \in FitSizes, FitWindow(s) PROVE TypeOK'
  <2>1. /\ s \in Sizes /\ SetCustomMode(s)
        /\ done' = done /\ asked' = asked /\ real' = real /\ events' = events
    BY <1>2, SizesAssumption DEF FitWindow
  <2> QED
    BY <2>1, CommitTypes DEF TypeOK
<1>3. ASSUME NEW s \in Sizes, HostResizes(s) PROVE TypeOK'
  <2>1. /\ UNCHANGED <<winSize, pendingSize, lastSeq, requests, done, asked>> /\ real' = s
        /\ events' = Append(events, [seq |-> done, size |-> s])
    BY <1>3 DEF HostResizes, Notify, backend
  <2> QED
    BY <1>1, <2>1 DEF TypeOK
<1>4. CASE SendOther
  BY <1>4 DEF SendOther, backend, TypeOK
<1>5. CASE HandleConfigureNotify
  <2>1. /\ events # <<>> /\ events' = Tail(events) /\ UNCHANGED <<done, asked, real>>
        /\ events \in Seq(Event)
    BY <1>5 DEF HandleConfigureNotify, TypeOK
  <2>2. events' \in Seq(Event) /\ Head(events).size \in Sizes
    <3>1. events' \in Seq(Event) /\ Head(events) \in Event
      BY <2>1
    <3>2. \A e \in Event : e.size \in Sizes
      BY DEF Event
    <3> QED
      BY <3>1, <3>2
  <2>3. /\ winSize' \in Sizes /\ pendingSize' \in Sizes \cup {NoSize}
        /\ lastSeq' \in SeqNumbers /\ requests' \in Seq(Sizes \cup {Other})
    <3>1. CASE UNCHANGED <<backend, requests>>
      BY <3>1 DEF backend, TypeOK
    <3>2. CASE pendingSize' = NoSize /\ UNCHANGED <<winSize, lastSeq, requests>>
      BY <3>2 DEF TypeOK
    <3>3. CASE SetCustomMode(Head(events).size)
      BY <2>2, <3>3, CommitTypes
    <3> QED
      BY <1>5, <3>1, <3>2, <3>3 DEF HandleConfigureNotify
  <2> QED
    BY <2>1, <2>2, <2>3 DEF TypeOK
<1>6. CASE ServerProcesses
  <2> DEFINE r == Head(requests)
  <2>1. /\ requests # <<>> /\ requests' = Tail(requests) /\ done' = (done + 1) % SeqMod
        /\ UNCHANGED <<winSize, pendingSize, lastSeq>>
        /\ requests \in Seq(Sizes \cup {Other}) /\ SeqMod \in Nat \ {0} /\ done \in Nat
    BY <1>6, Facts DEF ServerProcesses, backend
  <2>2. requests' \in Seq(Sizes \cup {Other}) /\ r \in Sizes \cup {Other}
    BY <2>1
  <2>3. done' \in SeqNumbers
    <3>1. done + 1 \in Int
      BY <2>1
    <3> QED
      BY <2>1, <3>1, Division, Zenon DEF SeqNumbers
  <2>4. \/ UNCHANGED <<asked, real, events>>
        \/ r # Other /\ asked' = Append(asked, r) /\ UNCHANGED <<real, events>>
        \/ /\ r # Other /\ real' = r /\ UNCHANGED asked
           /\ events' = events \/ events' = Append(events, [seq |-> done', size |-> r])
    BY <1>6 DEF ServerProcesses, Notify
  <2> HIDE DEF r
  <2>5. asked' \in Seq(Sizes) /\ real' \in Sizes /\ events' \in Seq(Event)
    <3>1. asked \in Seq(Sizes) /\ real \in Sizes /\ events \in Seq(Event)
      BY DEF TypeOK
    <3>2. r # Other => Append(asked, r) \in Seq(Sizes)
      BY <2>2, <3>1
    <3>3. r # Other => Append(events, [seq |-> done', size |-> r]) \in Seq(Event)
      BY <1>1, <2>2, <2>3
    <3>4. /\ asked' = asked \/ (r # Other /\ asked' = Append(asked, r))
          /\ real' = real \/ (r # Other /\ real' = r)
          /\ \/ events' = events
             \/ r # Other /\ events' = Append(events, [seq |-> done', size |-> r])
      BY <2>4, Zenon
    <3> QED
      BY <2>2, <3>1, <3>2, <3>3, <3>4, Zenon
  <2> QED
    BY <2>1, <2>2, <2>3, <2>5 DEF TypeOK
<1>7. CASE WmAnswers
  <2>1. /\ asked # <<>> /\ asked' = Tail(asked)
        /\ real' \in {Head(asked), real}
        /\ UNCHANGED <<winSize, pendingSize, lastSeq, requests, done>>
        /\ events' = Append(events, [seq |-> done, size |-> real'])
        /\ asked \in Seq(Sizes) /\ real \in Sizes
    BY <1>7 DEF WmAnswers, Notify, backend, TypeOK
  <2>2. Tail(asked) \in Seq(Sizes) /\ Head(asked) \in Sizes
    BY <2>1, HeadTail, Zenon
  <2>3. asked' \in Seq(Sizes) /\ real' \in Sizes
    BY <2>1, <2>2, Zenon
  <2> QED
    BY <1>1, <2>1, <2>3 DEF TypeOK
<1>8. CASE UNCHANGED vars
  BY <1>8 DEF vars, backend, server, TypeOK
<1> QED
  BY <1>2, <1>3, <1>4, <1>5, <1>6, <1>7, <1>8 DEF Next, Moves

\* XInv, the inductive invariant of output_set_custom_mode and
\* handle_x11_configure_notify, whatever the host, the WM and the policy do,
\* while no ConfigureWindow is half a cycle of sequence numbers old.
THEOREM Inductive == Spec /\ []Recent => []XInv
<1>1. Init => XInv
  BY InitEstablishes
<1>2. XInv /\ Recent /\ [Next]_vars => XInv'
  BY NextKeeps
<1> QED
  BY <1>1, <1>2, PTL DEF Spec

\* Types, under no condition; no sequence number leaves its 16 bits
\* (last_configure_seq).
THEOREM TypeCorrect == Spec => []TypeOK
<1>1. Init => TypeOK
  BY InitEstablishes DEF XInv
<1>2. TypeOK /\ [Next]_vars => TypeOK'
  BY NextTypes
<1> QED
  BY <1>1, <1>2, PTL DEF Spec

\* Once every message is answered, the backend believes the size the window
\* has and waits for no other (handle_x11_configure_notify drops no resize of
\* the host as stale and takes none for an answer), unless some ConfigureWindow
\* was followed by half of the sequence numbers without another.
THEOREM QuietAgrees == Spec /\ []Recent => []QuietAgreement
<1>1. XInv => QuietAgreement
  <2> SUFFICES ASSUME XInv, Traffic = 0 PROVE Agreement
    BY DEF QuietAgreement
  <2>1. /\ requests \in Seq(Sizes \cup {Other}) /\ asked \in Seq(Sizes) /\ events \in Seq(Event)
    BY DEF XInv, TypeOK
  <2>2. Len(requests) = 0 /\ Len(asked) = 0 /\ Len(events) = 0
    BY <2>1 DEF Traffic
  <2>3. requests = <<>> /\ asked = <<>> /\ events = <<>>
    BY <2>1, <2>2
  <2>4. NoConfigure
    BY <2>3 DEF NoConfigure
  <2> QED
    BY <2>3, <2>4 DEF XInv, Decided
<1> QED
  BY <1>1, Inductive, PTL

=============================================================================
