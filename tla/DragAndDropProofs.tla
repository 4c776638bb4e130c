------------------------- MODULE DragAndDropProofs -------------------------
(***************************************************************************)
(* DragAndDrop's invariants, for any foreign windows and sources, buttons  *)
(* and any number of drags and messages in flight; and what keeps a drop   *)
(* from being forgotten, the safety half of DroppedEnds, InboundAnswered.  *)
(***************************************************************************)
EXTENDS DragAndDrop, SequenceTheorems, TLAPS

(***************************************************************************)
(* Queues.  P and V are sets of messages.                                  *)
(***************************************************************************)
No(q, P) == \A i \in 1..Len(q) : q[i] \notin P
One(q, P) == \A i, j \in 1..Len(q) : q[i] \in P /\ q[j] \in P => i = j
\* The newest message of P, if there is one, is in V.
NewestIn(q, P, V) ==
    \A i \in 1..Len(q) :
       q[i] \in P /\ (\A j \in 1..Len(q) : j > i => q[j] \notin P) => q[i] \in V
\* A message of V is behind every message of P.
Followed(q, P, V) == \A i \in 1..Len(q) : q[i] \in P => \E j \in 1..Len(q) : j > i /\ q[j] \in V

LEMMA Appended ==
    ASSUME NEW S, NEW q \in Seq(S), NEW x \in S
    PROVE  /\ Append(q, x) \in Seq(S)
           /\ Len(Append(q, x)) = Len(q) + 1 /\ Len(q) \in Nat
           /\ Append(q, x)[Len(q) + 1] = x
           /\ \A i \in 1..Len(q) : Append(q, x)[i] = q[i]
OBVIOUS

LEMMA Taken ==
    ASSUME NEW S, NEW q \in Seq(S), q # <<>>
    PROVE  /\ Tail(q) \in Seq(S) /\ Head(q) \in S
           /\ Len(Tail(q)) = Len(q) - 1 /\ Len(q) \in Nat \ {0} /\ Head(q) = q[1]
           /\ \A i \in 1..(Len(q) - 1) : Tail(q)[i] = q[i + 1]
BY HeadTailProperties

LEMMA Empty == \A P : No(<<>>, P) /\ One(<<>>, P)
BY DEF No, One

\* What a message at the end changes.
LEMMA AppendAny ==
    ASSUME NEW S, NEW q \in Seq(S), NEW x \in S, NEW P, NEW V
    PROVE  LET t == Append(q, x)
           IN /\ No(t, P) <=> No(q, P) /\ x \notin P
              /\ No(q, P) => One(t, P)
              /\ x \notin P => (One(t, P) <=> One(q, P))
              /\ x \notin P /\ NewestIn(q, P, V) => NewestIn(t, P, V)
              /\ x \in P \cap V => NewestIn(t, P, V)
              /\ x \notin P /\ Followed(q, P, V) => Followed(t, P, V)
              /\ x \in V \ P => Followed(t, P, V)
<1> DEFINE t == Append(q, x)
<1>1. PICK n \in Nat : n = Len(q)
  BY Appended
<1>2. /\ Len(q) = n /\ Len(t) = n + 1 /\ t[n + 1] = x
      /\ \A i \in 1..n : t[i] = q[i]
  BY <1>1, Appended
<1> HIDE DEF t
<1>3. 1..(n + 1) = 1..n \cup {n + 1} /\ n + 1 \notin 1..n /\ \A i \in 1..n : n + 1 > i
  OBVIOUS
<1>4. /\ No(t, P) <=> No(q, P) /\ x \notin P
      /\ No(q, P) => One(t, P)
      /\ x \notin P => (One(t, P) <=> One(q, P))
  BY <1>2, <1>3 DEF No, One
<1>5. x \notin P /\ NewestIn(q, P, V) => NewestIn(t, P, V)
  BY <1>2, <1>3 DEF NewestIn
<1>6. x \in P \cap V => NewestIn(t, P, V)
  BY <1>2, <1>3 DEF NewestIn
<1>7. x \notin P /\ Followed(q, P, V) => Followed(t, P, V)
  BY <1>2, <1>3 DEF Followed
<1>8. x \in V \ P => Followed(t, P, V)
  BY <1>2, <1>3 DEF Followed
<1> QED BY <1>4, <1>5, <1>6, <1>7, <1>8 DEF t

LEMMA AppendNo ==
    ASSUME NEW S, NEW q \in Seq(S), NEW x \in S, NEW P
    PROVE  /\ No(Append(q, x), P) <=> No(q, P) /\ x \notin P
           /\ No(q, P) => One(Append(q, x), P)
           /\ x \notin P => (One(Append(q, x), P) <=> One(q, P))
BY AppendAny, Zenon

\* What is left when the first message is taken.
LEMMA TakeAny ==
    ASSUME NEW S, NEW q \in Seq(S), q # <<>>, NEW P, NEW V
    PROVE  LET t == Tail(q)
           IN /\ No(q, P) <=> No(t, P) /\ Head(q) \notin P
              /\ One(q, P) => One(t, P)
              /\ Head(q) \notin P => (One(t, P) <=> One(q, P))
              /\ Head(q) \in P /\ One(q, P) => No(t, P)
              /\ NewestIn(q, P, V) => NewestIn(t, P, V)
              /\ NewestIn(q, P, V) /\ Head(q) \in P /\ No(t, P) => Head(q) \in V
              /\ Followed(q, P, V) => Followed(t, P, V)
<1> DEFINE t == Tail(q)
<1>1. PICK n \in Nat : n + 1 = Len(q)
  <2>1. Len(q) - 1 \in Nat /\ (Len(q) - 1) + 1 = Len(q)
    BY Taken
  <2> QED BY <2>1
<1>2. /\ Len(q) = n + 1 /\ Len(t) = n /\ Head(q) = q[1]
      /\ \A i \in 1..n : t[i] = q[i + 1]
  BY <1>1, Taken
<1> HIDE DEF t
<1>3. /\ 1 \in 1..(n + 1)
      /\ \A i \in 1..n : i + 1 \in 1..(n + 1) /\ i + 1 # 1 /\ i + 1 > 1
      /\ \A i \in 1..(n + 1) : i # 1 => i - 1 \in 1..n /\ (i - 1) + 1 = i
      /\ \A i, j \in 1..n : (i + 1 = j + 1 <=> i = j) /\ (i + 1 > j + 1 <=> i > j)
  OBVIOUS
<1>4. \A i \in 1..(n + 1) : i # 1 => q[i] = t[i - 1]
  BY <1>2, <1>3
<1>5. No(q, P) <=> No(t, P) /\ Head(q) \notin P
  BY <1>2, <1>3, <1>4 DEF No
<1>6. One(q, P) => One(t, P)
  BY <1>2, <1>3 DEF One
<1>7. ASSUME Head(q) \notin P, One(t, P) PROVE One(q, P)
  <2> SUFFICES ASSUME NEW i \in 1..(n + 1), NEW j \in 1..(n + 1), q[i] \in P, q[j] \in P
               PROVE  i = j
    BY <1>2 DEF One
  <2>1. i # 1 /\ j # 1
    BY <1>2, <1>7
  <2>2. i - 1 \in 1..n /\ j - 1 \in 1..n /\ t[i - 1] \in P /\ t[j - 1] \in P
    BY <1>3, <1>4, <2>1
  <2>3. i - 1 = j - 1
    BY <1>2, <1>7, <2>2 DEF One
  <2> QED BY <2>3
<1>8. Head(q) \in P /\ One(q, P) => No(t, P)
  BY <1>2, <1>3 DEF No, One
<1>9. ASSUME NewestIn(q, P, V) PROVE NewestIn(t, P, V)
  <2> SUFFICES ASSUME NEW i \in 1..n, t[i] \in P, \A j \in 1..n : j > i => t[j] \notin P
               PROVE  t[i] \in V
    BY <1>2 DEF NewestIn
  <2>1. ASSUME NEW j \in 1..(n + 1), j > i + 1 PROVE q[j] \notin P
    <3>1. j # 1 /\ j - 1 \in 1..n /\ j - 1 > i
      BY <2>1
    <3> QED BY <1>4, <3>1
  <2> QED BY <1>2, <1>3, <1>9, <2>1 DEF NewestIn
<1>10. ASSUME NewestIn(q, P, V), Head(q) \in P, No(t, P) PROVE Head(q) \in V
  <2>1. \A j \in 1..(n + 1) : j > 1 => q[j] \notin P
    BY <1>2, <1>3, <1>4, <1>10 DEF No
  <2> QED BY <1>2, <1>3, <1>10, <2>1 DEF NewestIn
<1>11. ASSUME Followed(q, P, V) PROVE Followed(t, P, V)
  <2> SUFFICES ASSUME NEW i \in 1..n, t[i] \in P
               PROVE  \E j \in 1..n : j > i /\ t[j] \in V
    BY <1>2 DEF Followed
  <2>1. PICK j \in 1..(n + 1) : j > i + 1 /\ q[j] \in V
    BY <1>2, <1>3, <1>11 DEF Followed
  <2>2. j - 1 \in 1..n /\ j - 1 > i /\ t[j - 1] \in V
    BY <1>4, <2>1
  <2> QED BY <2>2
<1> QED BY <1>5, <1>6, <1>7, <1>8, <1>9, <1>10, <1>11 DEF t

LEMMA TakeNo ==
    ASSUME NEW S, NEW q \in Seq(S), q # <<>>, NEW P
    PROVE  /\ No(q, P) <=> No(Tail(q), P) /\ Head(q) \notin P
           /\ One(q, P) => One(Tail(q), P)
           /\ Head(q) \notin P => (One(Tail(q), P) <=> One(q, P))
           /\ Head(q) \in P /\ One(q, P) => No(Tail(q), P)
BY TakeAny, Zenon

\* Where a message of V is behind the messages of P and none of V is left, so is none of P.
LEMMA NoneFollowed ==
    ASSUME NEW q, NEW P, NEW V, Followed(q, P, V), No(q, V) PROVE No(q, P)
BY DEF Followed, No

(***************************************************************************)
(* The compositor's record.                                                *)
(***************************************************************************)
\* A window that was sent XdndDrop is about to read it, its request for the text
\* waits at the compositor, or an answer to it at the window.
DropAnswers == {"Drop", "Text", "Refused"}
RequestsOf(w) == {m \in ToUs : m.type = "Request" /\ m.from = w}
DropsPending(s) ==
    \A w \in Targets :
       s.drop[w] # 0 => ~No(s.mail[w], DropAnswers) \/ ~No(s.inbox, RequestsOf(w))

Sessions(s) == s.open \subseteq {s.target} \cup s.forgotten
Selection(s) == /\ s.text # 0 => s.owner = Own \/ s.taken
                /\ s.text = 0 => s.owner # Own
Unsigned == {m \in ToUs : m.type = "Enter" /\ m.from \notin Sources}

Sane(s) == /\ s \in Dnd /\ Sessions(s) /\ Selection(s) /\ DropsPending(s)
           /\ No(s.inbox, Unsigned)

\* A message that belongs to an inbound drop: XdndDrop, the compositor's conversion
\* of the selection at its source, the answer, XdndFinished.
InboxAnswers == {m \in ToUs : m.type \in {"Drop", "Notify"}} \cup RequestsOf(Own)
MailAnswers == {"Convert", "Finished"}

SameMail(s, v) ==
    \A f \in Peers : \A P \in {MailAnswers, {"Convert"}, {"Finished"}} :
       /\ No(v.mail[f], P) <=> No(s.mail[f], P)
       /\ One(v.mail[f], P) <=> One(s.mail[f], P)

\* What the outbound drag leaves alone of an inbound one.
Quiet(s, v) ==
    /\ v.inbox = s.inbox /\ v.receives = s.receives /\ v.from = s.from
    /\ v.owner = s.owner \/ v.owner \notin Sources
    /\ SameMail(s, v)

LEMMA QuietTransitive ==
    ASSUME NEW s, NEW u, NEW v, Quiet(s, u), Quiet(u, v)
    PROVE  Quiet(s, v)
BY DEF Quiet, SameMail

LEMMA DndFields ==
    ASSUME NEW s \in Dnd
    PROVE  /\ s.text \in Texts /\ s.target \in Targets \cup {None} /\ s.accepted \in BOOLEAN
           /\ s.receives \in BOOLEAN /\ s.from \in Sources \cup {None}
           /\ s.owner \in Sources \cup {None, Own}
           /\ s.taken \in BOOLEAN /\ s.mail \in [Peers -> Seq(ToPeer)]
           /\ s.inbox \in Seq(ToUs) /\ s.open \subseteq Targets /\ s.forgotten \subseteq Targets
           /\ s.drop \in [Targets -> Texts] /\ s.lost \in BOOLEAN
BY DEF Dnd

LEMMA SendFields ==
    ASSUME NEW s \in Dnd, NEW w, NEW m \in ToPeer
    PROVE  LET v == Send(s, w, m)
           IN /\ v \in Dnd /\ v = [s EXCEPT !.mail = v.mail]
              /\ \A u \in Peers : v.mail[u] = IF u = w THEN Append(s.mail[u], m) ELSE s.mail[u]
<1> DEFINE mail == [s.mail EXCEPT ![w] = Append(@, m)]
<1>1. s.mail \in [Peers -> Seq(ToPeer)]
  BY DEF Dnd
<1>2. \A u \in Peers : s.mail[u] \in Seq(ToPeer) /\ Append(s.mail[u], m) \in Seq(ToPeer)
  BY <1>1
<1>3. /\ \A u \in Peers : mail[u] = IF u = w THEN Append(s.mail[u], m) ELSE s.mail[u]
      /\ mail \in [Peers -> Seq(ToPeer)]
  BY <1>1, <1>2
<1>4. Send(s, w, m) = [s EXCEPT !.mail = mail]
  BY DEF Send, Dnd
<1> HIDE DEF mail
<1>5. [s EXCEPT !.mail = mail] \in Dnd /\ [s EXCEPT !.mail = mail].mail = mail
  BY <1>3 DEF Dnd
<1> QED BY <1>3, <1>4, <1>5

LEMMA PostFields ==
    ASSUME NEW s \in Dnd, NEW m \in ToUs
    PROVE  /\ Post(s, m) \in Dnd
           /\ Post(s, m) = [s EXCEPT !.inbox = Append(s.inbox, m)]
           /\ Post(s, m).inbox = Append(s.inbox, m)
<1>1. s.inbox \in Seq(ToUs) /\ Append(s.inbox, m) \in Seq(ToUs)
  BY DEF Dnd
<1> QED BY <1>1 DEF Post, Dnd

\* Sending what is no answer of an inbound drop.
LEMMA SendQuiet ==
    ASSUME NEW s \in Dnd, NEW w, NEW m \in ToPeer \ MailAnswers
    PROVE  Quiet(s, Send(s, w, m))
<1> DEFINE v == Send(s, w, m)
<1>1. /\ v = [s EXCEPT !.mail = v.mail]
      /\ \A u \in Peers : v.mail[u] = IF u = w THEN Append(s.mail[u], m) ELSE s.mail[u]
  BY SendFields
<1>2. \A u \in Peers : s.mail[u] \in Seq(ToPeer)
  BY DndFields
<1>3. \A P \in {MailAnswers, {"Convert"}, {"Finished"}} : m \notin P
  BY DEF MailAnswers
<1> HIDE DEF v
<1>4. ASSUME NEW f \in Peers, NEW P \in {MailAnswers, {"Convert"}, {"Finished"}}
      PROVE  /\ No(v.mail[f], P) <=> No(s.mail[f], P)
             /\ One(v.mail[f], P) <=> One(s.mail[f], P)
  <2>1. CASE f # w
    BY <1>1, <2>1
  <2>2. CASE f = w
    <3>1. v.mail[f] = Append(s.mail[f], m)
      BY <1>1, <2>2
    <3> QED BY <1>2, <1>3, <3>1, AppendNo
  <2> QED BY <2>1, <2>2
<1>5. v.inbox = s.inbox /\ v.receives = s.receives /\ v.from = s.from /\ v.owner = s.owner
  BY <1>1 DEF Dnd
<1> QED BY <1>4, <1>5 DEF Quiet, SameMail, v

\* A window reads what is no answer of an inbound drop.
LEMMA ReadQuiet ==
    ASSUME NEW w \in Peers, dnd \in Dnd, dnd.mail[w] # <<>>
    PROVE  LET v == ReadMail(w)
           IN /\ v \in Dnd /\ v = [dnd EXCEPT !.mail = v.mail]
              /\ \A u \in Peers : v.mail[u] = IF u = w THEN Tail(dnd.mail[u]) ELSE dnd.mail[u]
              /\ Mail(w) \in ToPeer
              /\ Mail(w) \notin MailAnswers => Quiet(dnd, v)
<1> DEFINE v == ReadMail(w)
           mail == [dnd.mail EXCEPT ![w] = Tail(@)]
<1>1. dnd.mail \in [Peers -> Seq(ToPeer)]
  BY DndFields
<1>2. dnd.mail[w] \in Seq(ToPeer) /\ Tail(dnd.mail[w]) \in Seq(ToPeer) /\ Mail(w) \in ToPeer
  BY <1>1, Taken DEF Mail
<1>3. /\ \A u \in Peers : mail[u] = IF u = w THEN Tail(dnd.mail[u]) ELSE dnd.mail[u]
      /\ mail \in [Peers -> Seq(ToPeer)]
  BY <1>1, <1>2
<1>4. v = [dnd EXCEPT !.mail = mail]
  BY DEF ReadMail, Dnd
<1> HIDE DEF mail
<1>5. [dnd EXCEPT !.mail = mail] \in Dnd /\ [dnd EXCEPT !.mail = mail].mail = mail
  BY <1>3 DEF Dnd
<1> HIDE DEF v
<1>6. ASSUME Mail(w) \notin MailAnswers PROVE Quiet(dnd, v)
  <2>1. ASSUME NEW f \in Peers, NEW P \in {MailAnswers, {"Convert"}, {"Finished"}}
        PROVE  /\ No(v.mail[f], P) <=> No(dnd.mail[f], P)
               /\ One(v.mail[f], P) <=> One(dnd.mail[f], P)
    <3>1. CASE f # w
      BY <1>3, <1>4, <1>5, <3>1
    <3>2. CASE f = w
      <4>1. v.mail[f] = Tail(dnd.mail[f]) /\ dnd.mail[f] # <<>>
        BY <1>3, <1>4, <1>5, <3>2
      <4>2. Head(dnd.mail[f]) \notin P
        BY <1>6, <3>2 DEF Mail, MailAnswers
      <4> QED BY <1>2, <3>2, <4>1, <4>2, TakeNo
    <3> QED BY <3>1, <3>2
  <2>2. v.inbox = dnd.inbox /\ v.receives = dnd.receives /\ v.from = dnd.from /\ v.owner = dnd.owner
    BY <1>4 DEF Dnd
  <2> QED BY <2>1, <2>2 DEF Quiet, SameMail
<1> QED BY <1>2, <1>3, <1>4, <1>5, <1>6 DEF v

LEMMA RestFields ==
    ASSUME dnd \in Dnd, dnd.inbox # <<>>
    PROVE  /\ Rest \in Dnd /\ Rest = [dnd EXCEPT !.inbox = Tail(dnd.inbox)]
           /\ Rest.inbox = Tail(dnd.inbox) /\ Head(dnd.inbox) \in ToUs
           /\ dnd.inbox \in Seq(ToUs) /\ Tail(dnd.inbox) \in Seq(ToUs)
<1>1. dnd.inbox \in Seq(ToUs) /\ Tail(dnd.inbox) \in Seq(ToUs) /\ Head(dnd.inbox) \in ToUs
  BY DndFields, Taken
<1> QED BY <1>1 DEF Rest, Dnd

(***************************************************************************)
(* What the parts of Sane need.                                            *)
(***************************************************************************)
\* Other mail, as long as no answer to a drop is taken.
LEMMA MailSane ==
    ASSUME NEW s, Sane(s), NEW v \in Dnd, v = [s EXCEPT !.mail = v.mail],
           \A w \in Targets : No(v.mail[w], DropAnswers) => No(s.mail[w], DropAnswers)
    PROVE  Sane(v)
<1>1. /\ v.open = s.open /\ v.target = s.target /\ v.forgotten = s.forgotten
      /\ v.text = s.text /\ v.owner = s.owner
      /\ v.taken = s.taken /\ v.inbox = s.inbox /\ v.drop = s.drop
  BY DEF Sane, Dnd
<1> QED BY <1>1 DEF Sane, Sessions, Selection, DropsPending

LEMMA SendSane ==
    ASSUME NEW s, Sane(s), NEW w, NEW m \in ToPeer
    PROVE  Sane(Send(s, w, m))
<1> DEFINE v == Send(s, w, m)
<1>1. /\ v \in Dnd /\ v = [s EXCEPT !.mail = v.mail]
      /\ \A u \in Peers : v.mail[u] = IF u = w THEN Append(s.mail[u], m) ELSE s.mail[u]
  BY SendFields DEF Sane
<1>2. \A u \in Peers : s.mail[u] \in Seq(ToPeer)
  BY DndFields DEF Sane
<1> HIDE DEF v
<1>3. ASSUME NEW u \in Targets, No(v.mail[u], DropAnswers) PROVE No(s.mail[u], DropAnswers)
  <2>1. u \in Peers
    BY DEF Peers
  <2>2. CASE u # w
    BY <1>1, <1>3, <2>1, <2>2
  <2>3. CASE u = w
    <3>1. v.mail[u] = Append(s.mail[u], m) /\ s.mail[u] \in Seq(ToPeer)
      BY <1>1, <1>2, <2>1, <2>3
    <3> QED BY <1>3, <3>1, AppendNo
  <2> QED BY <2>2, <2>3
<1> QED BY <1>1, <1>3, MailSane DEF v

LEMMA PostSane ==
    ASSUME NEW s, Sane(s), NEW m \in ToUs \ Unsigned
    PROVE  Sane(Post(s, m))
<1> DEFINE v == Post(s, m)
<1>1. s \in Dnd /\ s.inbox \in Seq(ToUs)
  BY DndFields DEF Sane
<1>2. v \in Dnd /\ v = [s EXCEPT !.inbox = Append(s.inbox, m)] /\ v.inbox = Append(s.inbox, m)
  BY <1>1, PostFields
<1> HIDE DEF v
<1>3. /\ v.open = s.open /\ v.target = s.target /\ v.forgotten = s.forgotten
      /\ v.text = s.text /\ v.owner = s.owner
      /\ v.taken = s.taken /\ v.mail = s.mail /\ v.drop = s.drop
  BY <1>1, <1>2 DEF Dnd
<1>4. \A P : No(v.inbox, P) => No(s.inbox, P)
  BY <1>1, <1>2, AppendNo
<1>5. No(v.inbox, Unsigned)
  BY <1>1, <1>2, AppendNo DEF Sane
<1> QED BY <1>2, <1>3, <1>4, <1>5 DEF Sane, Sessions, Selection, DropsPending, v

\* The compositor takes an event that asks for nothing that was dropped.
LEMMA RestSane ==
    ASSUME Sane(dnd), dnd.inbox # <<>>,
           \A w \in Targets : Head(dnd.inbox) \notin RequestsOf(w)
    PROVE  Sane(Rest)
<1> DEFINE v == Rest
<1>1. dnd \in Dnd
  BY DEF Sane
<1>2. /\ v \in Dnd /\ v = [dnd EXCEPT !.inbox = Tail(dnd.inbox)] /\ v.inbox = Tail(dnd.inbox)
      /\ dnd.inbox \in Seq(ToUs)
  BY <1>1, RestFields
<1> HIDE DEF v
<1>3. /\ v.open = dnd.open /\ v.target = dnd.target /\ v.forgotten = dnd.forgotten
      /\ v.text = dnd.text /\ v.owner = dnd.owner
      /\ v.taken = dnd.taken /\ v.mail = dnd.mail /\ v.drop = dnd.drop
  BY <1>1, <1>2 DEF Dnd
<1>4. \A w \in Targets : No(v.inbox, RequestsOf(w)) => No(dnd.inbox, RequestsOf(w))
  BY <1>2, TakeNo
<1>5. No(v.inbox, Unsigned)
  BY <1>2, TakeNo DEF Sane
<1> QED BY <1>2, <1>3, <1>4, <1>5 DEF Sane, Sessions, Selection, DropsPending, v

(***************************************************************************)
(* The outbound drag.                                                      *)
(***************************************************************************)
\* What a handler of the outbound drag keeps.
Kept(s, v) == Sane(v) /\ Quiet(s, v)

LEMMA KeptItself ==
    ASSUME NEW s, Sane(s) PROVE Kept(s, s)
BY DEF Kept, Quiet, SameMail

LEMMA KeptTransitive ==
    ASSUME NEW s, NEW u, NEW v, Kept(s, u), Kept(u, v)
    PROVE  Kept(s, v)
BY QuietTransitive DEF Kept

\* A target is left for good: what else the drag has open it has forgotten.
LEMMA OutLeaveKeeps ==
    ASSUME NEW s, Sane(s)
    PROVE  LET v == OutLeave(s)
           IN /\ Kept(s, v) /\ v.text = s.text /\ v.owner = s.owner /\ v.taken = s.taken
              /\ v.target = None /\ v.open \subseteq v.forgotten
<1> DEFINE v == OutLeave(s)
<1>1. CASE s.target = None
  <2>1. v = s
    BY <1>1 DEF OutLeave
  <2>2. None \notin Targets /\ s.open \subseteq Targets
    BY DragAssumption, DndFields DEF Sane
  <2> QED BY <1>1, <2>1, <2>2, KeptItself DEF Sane, Sessions
<1>2. CASE s.target # None
  <2>1. v = [s EXCEPT !.target = None, !.accepted = FALSE, !.open = s.open \ {s.target}]
    BY <1>2 DEF OutLeave, Sane, Dnd
  <2> HIDE DEF v
  <2>2. /\ v \in Dnd /\ v.target = None /\ v.open = s.open \ {s.target}
        /\ v.text = s.text /\ v.owner = s.owner /\ v.taken = s.taken /\ v.forgotten = s.forgotten
        /\ v.inbox = s.inbox /\ v.mail = s.mail /\ v.drop = s.drop
        /\ v.receives = s.receives /\ v.from = s.from
    BY <2>1 DEF Sane, Dnd
  <2>3. v.open \subseteq v.forgotten
    BY <2>2 DEF Sane, Sessions
  <2>4. Sane(v)
    BY <2>2, <2>3 DEF Sane, Sessions, Selection, DropsPending
  <2>5. Quiet(s, v)
    BY <2>2 DEF Quiet, SameMail
  <2> QED BY <2>2, <2>3, <2>4, <2>5 DEF Kept, v
<1> QED BY <1>1, <1>2

LEMMA OutFinishKeeps ==
    ASSUME NEW s, Sane(s)
    PROVE  Kept(s, OutFinish(s))
<1> DEFINE u == OutLeave(s)
           v == OutFinish(s)
<1>1. Kept(s, u)
  BY OutLeaveKeeps
<1>2. v = [u EXCEPT !.text = 0, !.owner = IF @ = Own THEN None ELSE @, !.taken = FALSE]
  BY DEF OutFinish
<1> HIDE DEF u, v
<1>3. u \in Dnd /\ 0 \in Texts
  BY <1>1, DragAssumption DEF Kept, Sane, Texts
<1>4. /\ v \in Dnd /\ v.target = u.target /\ v.open = u.open /\ v.forgotten = u.forgotten
      /\ v.text = 0 /\ v.owner = (IF u.owner = Own THEN None ELSE u.owner)
      /\ v.inbox = u.inbox /\ v.mail = u.mail /\ v.drop = u.drop
      /\ v.receives = u.receives /\ v.from = u.from
  BY <1>2, <1>3 DEF Dnd
<1>5. Sane(v)
  BY <1>1, <1>4, DragAssumption DEF Kept, Sane, Sessions, Selection, DropsPending
<1>6. Quiet(u, v)
  BY <1>4, DragAssumption DEF Quiet, SameMail
<1>7. Kept(u, v)
  BY <1>5, <1>6 DEF Kept
<1> QED BY <1>1, <1>7, KeptTransitive DEF v

LEMMA OutUpdateKeeps ==
    ASSUME NEW s, Sane(s), NEW hit
    PROVE  Kept(s, OutUpdatePosition(s, hit))
<1>1. CASE s.text = 0
  BY <1>1, KeptItself DEF OutUpdatePosition
<1>2. CASE s.text # 0 /\ (hit \/ pointer \notin Targets)
  BY <1>2, OutLeaveKeeps DEF OutUpdatePosition
<1>3. CASE s.text # 0 /\ ~hit /\ pointer \in Targets
  <2> DEFINE u == OutLeave(s)
             entered == IF pointer = s.target THEN s
                        ELSE [u EXCEPT !.target = pointer, !.accepted = FALSE,
                                       !.open = @ \cup {pointer}]
  <2>1. OutUpdatePosition(s, hit) = Send(entered, pointer, "Position")
    BY <1>3 DEF OutUpdatePosition
  <2>2. Kept(s, u) /\ u.open \subseteq u.forgotten
    BY OutLeaveKeeps
  <2> HIDE DEF u
  <2>3. Kept(s, entered)
    <3>1. CASE pointer = s.target
      BY <3>1, KeptItself
    <3>2. CASE pointer # s.target
      <4>1. entered = [u EXCEPT !.target = pointer, !.accepted = FALSE,
                                !.open = u.open \cup {pointer}]
        BY <2>2, <3>2 DEF Kept, Sane, Dnd
      <4> HIDE DEF entered
      <4>2. /\ entered \in Dnd /\ entered.target = pointer /\ entered.open = u.open \cup {pointer}
            /\ entered.text = u.text /\ entered.owner = u.owner
            /\ entered.taken = u.taken /\ entered.forgotten = u.forgotten
            /\ entered.inbox = u.inbox /\ entered.mail = u.mail /\ entered.drop = u.drop
            /\ entered.receives = u.receives /\ entered.from = u.from
        BY <1>3, <2>2, <4>1 DEF Kept, Sane, Dnd
      <4>3. Sane(entered)
        BY <2>2, <4>2 DEF Kept, Sane, Sessions, Selection, DropsPending
      <4>4. Quiet(u, entered)
        BY <4>2 DEF Quiet, SameMail
      <4> QED BY <2>2, <4>3, <4>4, KeptTransitive DEF Kept
    <3> QED BY <3>1, <3>2
  <2> HIDE DEF entered
  <2>4. "Position" \in ToPeer \ MailAnswers
    BY DEF ToPeer, MailAnswers
  <2>5. Kept(entered, Send(entered, pointer, "Position"))
    BY <2>3, <2>4, SendSane, SendQuiet DEF Kept, Sane
  <2> QED BY <2>1, <2>3, <2>5, KeptTransitive
<1> QED BY <1>1, <1>2, <1>3

\* XdndDrop is on its way to the window that owes an answer.
LEMMA OutReleaseKeeps ==
    ASSUME NEW s, Sane(s)
    PROVE  Kept(s, OutRelease(s))
<1>1. CASE s.text = 0
  BY <1>1, KeptItself DEF OutRelease
<1>2. CASE s.text # 0 /\ ~(s.target # None /\ s.accepted)
  BY <1>2, OutFinishKeeps DEF OutRelease
<1>3. CASE s.text # 0 /\ s.target # None /\ s.accepted
  <2> DEFINE u == Send(s, s.target, "Drop")
             v == OutRelease(s)
  <2>1. s \in Dnd /\ s.target \in Targets /\ s.target \in Peers /\ "Drop" \in ToPeer \ MailAnswers
    BY <1>3, DndFields DEF Sane, Peers, ToPeer, MailAnswers
  <2>2. Kept(s, u)
    BY <2>1, SendSane, SendQuiet DEF Kept
  <2>3. /\ u = [s EXCEPT !.mail = u.mail]
        /\ u.mail[s.target] = Append(s.mail[s.target], "Drop")
    <3>1. /\ u = [s EXCEPT !.mail = u.mail]
          /\ \A w \in Peers : u.mail[w] = IF w = s.target THEN Append(s.mail[w], "Drop")
                                                        ELSE s.mail[w]
      <4>1. "Drop" \in ToPeer
        BY <2>1
      <4> QED BY <2>1, <4>1, SendFields
    <3> QED BY <2>1, <3>1, Zenon
  <2>4. u.target = s.target /\ u.text = s.text /\ u.drop = s.drop
    BY <2>1, <2>3 DEF Dnd
  <2>5. v = [u EXCEPT !.open = @ \ {s.target}, !.drop[s.target] = s.text]
    BY <1>3 DEF OutRelease
  <2> HIDE DEF u, v
  <2>6. u \in Dnd
    BY <2>2 DEF Kept, Sane
  <2> DEFINE drop == [u.drop EXCEPT ![s.target] = s.text]
  <2>7. drop \in [Targets -> Texts] /\ \A w \in Targets : w # s.target => drop[w] = u.drop[w]
    BY <2>1, <2>6, DndFields
  <2>8. v = [u EXCEPT !.open = u.open \ {s.target}, !.drop = drop]
    BY <2>5, <2>6 DEF Dnd
  <2> HIDE DEF drop
  <2>9. /\ v \in Dnd /\ v.open = u.open \ {s.target} /\ v.drop = drop
        /\ v.target = u.target /\ v.text = u.text /\ v.owner = u.owner
        /\ v.taken = u.taken /\ v.forgotten = u.forgotten
        /\ v.inbox = u.inbox /\ v.mail = u.mail /\ v.receives = u.receives /\ v.from = u.from
    BY <2>6, <2>7, <2>8 DEF Dnd
  <2>10. ~No(v.mail[s.target], DropAnswers)
    <3>1. s.mail[s.target] \in Seq(ToPeer)
      BY <2>1, DndFields
    <3>2. v.mail[s.target] = Append(s.mail[s.target], "Drop")
      BY <2>3, <2>9
    <3>3. "Drop" \in ToPeer /\ "Drop" \in DropAnswers
      BY DEF ToPeer, DropAnswers
    <3> QED BY <3>1, <3>2, <3>3, AppendNo
  <2>11. DropsPending(v)
    BY <2>2, <2>7, <2>9, <2>10 DEF DropsPending, Kept, Sane
  <2>12. Sane(v)
    BY <2>2, <2>9, <2>11 DEF Kept, Sane, Sessions, Selection
  <2>13. Quiet(u, v)
    BY <2>9 DEF Quiet, SameMail
  <2> QED BY <2>2, <2>12, <2>13, KeptTransitive DEF Kept, v
<1> QED BY <1>1, <1>2, <1>3

LEMMA DragDestroyedKeeps ==
    ASSUME NEW s, Sane(s)
    PROVE  Kept(s, DragDestroyed(s))
BY KeptItself, OutFinishKeeps DEF DragDestroyed

\* The selection is claimed with the text, and older sessions are forgotten.
LEMMA OutBeginKeeps ==
    ASSUME NEW s, Sane(s), NEW n \in 1..MaxDrags, NEW hit
    PROVE  Kept(s, OutBegin(s, n, hit))
<1> DEFINE u == [s EXCEPT !.text = n, !.target = None, !.accepted = FALSE,
                          !.owner = Own, !.taken = FALSE,
                          !.forgotten = s.forgotten \cup s.open]
<1>0. n \in Texts /\ n # 0
  BY DragAssumption DEF Texts
<1>1. OutBegin(s, n, hit) = OutUpdatePosition(u, hit)
  BY DEF OutBegin, Sane, Dnd
<1>2. /\ u \in Dnd /\ u.text = n /\ u.target = None /\ u.owner = Own
      /\ u.forgotten = s.forgotten \cup s.open /\ u.open = s.open
      /\ u.inbox = s.inbox /\ u.mail = s.mail /\ u.drop = s.drop
      /\ u.receives = s.receives /\ u.from = s.from
  BY <1>0 DEF Sane, Dnd
<1> HIDE DEF u
<1>3. Sane(u)
  BY <1>0, <1>2, DragAssumption DEF Sane, Sessions, Selection, DropsPending
<1>4. Quiet(s, u)
  BY <1>2, DragAssumption DEF Quiet, SameMail
<1>5. Kept(s, u)
  BY <1>3, <1>4 DEF Kept
<1> QED BY <1>1, <1>3, <1>5, OutUpdateKeeps, KeptTransitive

(***************************************************************************)
(* The inductive invariant.                                                *)
(***************************************************************************)
Inputs == [type : {"motion", "press", "release"}, button : Buttons \cup {None}]
AboutButton(b) == {e \in Inputs : e.type # "motion" /\ e.button = b}
Strays == {e \in Inputs : e.type # "motion" /\ e.button \notin Buttons}
Presses == {e \in Inputs : e.type = "press"}
Releases == {e \in Inputs : e.type = "release"}

\* What is queued brings the seat's buttons to the user's.
InputTells ==
    \A b \in Buttons :
       /\ No(input, AboutButton(b)) => (b \in seat <=> b \in held)
       /\ b \in held => NewestIn(input, AboutButton(b), Presses)
       /\ b \notin held => NewestIn(input, AboutButton(b), Releases)

InputOK == /\ seat \subseteq Buttons /\ held \subseteq Buttons
           /\ pointer \in Targets \cup {None, Own}
           /\ input \in Seq(Inputs) /\ No(input, Strays) /\ InputTells

DragOK == /\ drag \in [live : BOOLEAN, number : Texts, button : Buttons \cup {None},
                       focus : BOOLEAN, pumping : SUBSET (1..MaxDrags)]

SourceOK == source \in [Sources -> {"idle", "over", "asked", "told", "dropped"}]

DInv == Sane(dnd) /\ InputOK /\ DragOK /\ SourceOK

LEMMA InitDInv == Init => DInv
<1> SUFFICES ASSUME Init PROVE DInv
  OBVIOUS
<1> DEFINE none == [w \in Peers |-> <<>>]
           zero == [w \in Targets |-> 0]
<1>1. none \in [Peers -> Seq(ToPeer)] /\ zero \in [Targets -> Texts] /\ 0 \in Texts
      /\ <<>> \in Seq(ToUs) /\ <<>> \in Seq(Inputs)
  BY DragAssumption DEF Texts
<1>2. \A w \in Targets : zero[w] = 0
  OBVIOUS
<1> HIDE DEF none, zero
<1>3. dnd = [text |-> 0, target |-> None, accepted |-> FALSE, receives |-> FALSE,
             from |-> None, owner |-> None, taken |-> FALSE, mail |-> none, inbox |-> <<>>,
             open |-> {}, forgotten |-> {}, drop |-> zero, lost |-> FALSE]
  BY DEF Init, none, zero
<1>4. /\ dnd \in Dnd /\ dnd.drop = zero /\ dnd.inbox = <<>> /\ dnd.open = {}
      /\ dnd.text = 0 /\ dnd.owner = None
  BY <1>1, <1>3 DEF Dnd
<1>5. Sane(dnd)
  BY <1>2, <1>4, Empty, DragAssumption DEF Sane, Sessions, Selection, DropsPending
<1>6. InputOK
  BY <1>1, Empty DEF Init, InputOK, InputTells, NewestIn
<1>7. DragOK /\ SourceOK
  BY <1>1 DEF Init, DragOK, SourceOK
<1> QED BY <1>5, <1>6, <1>7 DEF DInv

(***************************************************************************)
(* Pointer events.                                                         *)
(***************************************************************************)
LEMMA TakeInput ==
    ASSUME InputOK, input # <<>>
    PROVE  /\ input \in Seq(Inputs) /\ Tail(input) \in Seq(Inputs) /\ Head(input) \in Inputs
           /\ Head(input).type # "motion" => Head(input).button \in Buttons
           /\ No(Tail(input), Strays)
<1>1. input \in Seq(Inputs) /\ Tail(input) \in Seq(Inputs) /\ Head(input) \in Inputs
  BY Taken DEF InputOK
<1>2. Head(input) \notin Strays /\ No(Tail(input), Strays)
  BY <1>1, TakeNo DEF InputOK
<1> QED BY <1>1, <1>2 DEF Strays

LEMMA MotionInput ==
    ASSUME InputOK, input # <<>>, Head(input).type = "motion", input' = Tail(input),
           UNCHANGED <<seat, held, pointer>>
    PROVE  InputOK'
<1>1. /\ input \in Seq(Inputs) /\ input' \in Seq(Inputs) /\ No(input', Strays)
  BY TakeInput
<1>2. \A b \in Buttons : Head(input) \notin AboutButton(b)
  BY DEF AboutButton
<1>3. \A b \in Buttons : No(input', AboutButton(b)) => No(input, AboutButton(b))
  BY <1>1, <1>2, TakeNo
<1>4. \A b, V : NewestIn(input, AboutButton(b), V) => NewestIn(input', AboutButton(b), V)
  BY <1>1, TakeAny
<1>5. InputTells'
  BY <1>3, <1>4 DEF InputTells, InputOK
<1> QED BY <1>1, <1>5 DEF InputOK

\* A press or a release handled was the last word on its button, or another waits.
LEMMA ButtonInput ==
    ASSUME InputOK, input # <<>>, Head(input).type # "motion", input' = Tail(input),
           UNCHANGED <<held, pointer>>,
           seat' = IF Head(input).type = "press" THEN seat \cup {Head(input).button}
                                                 ELSE seat \ {Head(input).button}
    PROVE  InputOK'
<1>1. /\ input \in Seq(Inputs) /\ input' \in Seq(Inputs) /\ No(input', Strays)
      /\ Head(input) \in Inputs /\ Head(input).button \in Buttons
  BY TakeInput
<1>2. \A b, V : NewestIn(input, AboutButton(b), V) => NewestIn(input', AboutButton(b), V)
  BY <1>1, TakeAny
<1>3. ASSUME NEW b \in Buttons, No(input', AboutButton(b))
      PROVE  b \in seat' <=> b \in held'
  <2>1. CASE b # Head(input).button
    <3>1. Head(input) \notin AboutButton(b)
      BY <2>1 DEF AboutButton
    <3>2. No(input, AboutButton(b))
      BY <1>1, <1>3, <3>1, TakeNo
    <3>3. b \in seat <=> b \in held
      BY <3>2 DEF InputTells, InputOK
    <3> QED BY <2>1, <3>3
  <2>2. CASE b = Head(input).button
    <3>1. Head(input) \in AboutButton(b)
      BY <1>1, <2>2 DEF AboutButton
    <3>2. \A V : NewestIn(input, AboutButton(b), V) => Head(input) \in V
      BY <1>1, <1>3, <3>1, TakeAny
    <3>3. CASE b \in held
      <4>1. Head(input) \in Presses
        BY <3>2, <3>3 DEF InputOK, InputTells
      <4> QED BY <2>2, <3>3, <4>1 DEF Presses
    <3>4. CASE b \notin held
      <4>1. Head(input) \in Releases
        BY <3>2, <3>4 DEF InputOK, InputTells
      <4> QED BY <2>2, <3>4, <4>1 DEF Releases
    <3> QED BY <3>3, <3>4
  <2> QED BY <2>1, <2>2
<1>4. InputTells'
  BY <1>2, <1>3 DEF InputTells, InputOK
<1>5. seat' \subseteq Buttons
  BY <1>1 DEF InputOK
<1> QED BY <1>1, <1>4, <1>5 DEF InputOK

LEMMA UserInput ==
    ASSUME InputOK, User
    PROVE  InputOK' /\ UNCHANGED <<dnd, drag, source>>
<1>1. ASSUME NEW w \in Targets \cup {None, Own}, MovePointer(w)
      PROVE  InputOK' /\ UNCHANGED <<dnd, drag, source>>
  <2>1. /\ pointer' = w /\ UNCHANGED <<dnd, drag, seat, held, source>>
        /\ input' = input \/ input' = Append(input, Event("motion", None))
    BY <1>1 DEF MovePointer
  <2>2. CASE input' = input
    BY <2>1, <2>2 DEF InputOK, InputTells
  <2>3. CASE input' = Append(input, Event("motion", None))
    <3> DEFINE e == Event("motion", None)
    <3>1. e \in Inputs /\ e \notin Strays /\ \A b \in Buttons : e \notin AboutButton(b)
      BY DEF Event, Inputs, Strays, AboutButton
    <3> HIDE DEF e
    <3>2. input \in Seq(Inputs) /\ input' = Append(input, e)
      BY <2>3 DEF InputOK, e
    <3>3. input' \in Seq(Inputs) /\ No(input', Strays)
      BY <3>1, <3>2, Appended, AppendNo DEF InputOK
    <3>4. ASSUME NEW b \in Buttons
          PROVE  /\ No(input', AboutButton(b)) => No(input, AboutButton(b))
                 /\ \A V : NewestIn(input, AboutButton(b), V) => NewestIn(input', AboutButton(b), V)
      BY <3>1, <3>2, AppendAny
    <3>5. InputTells'
      BY <2>1, <3>4 DEF InputTells, InputOK
    <3> QED BY <2>1, <3>3, <3>5 DEF InputOK
  <2> QED BY <2>1, <2>2, <2>3
<1>2. ASSUME NEW b \in Buttons, NEW e \in Inputs, e.type # "motion", e.button = b,
             input' = Append(input, e), UNCHANGED <<seat, pointer>>,
             held' = IF e.type = "press" THEN held \cup {b} ELSE held \ {b}
      PROVE  InputOK'
  <2>1. input \in Seq(Inputs) /\ e \notin Strays
    BY <1>2 DEF InputOK, Strays
  <2>2. input' \in Seq(Inputs) /\ No(input', Strays)
    BY <1>2, <2>1, Appended, AppendNo DEF InputOK
  <2>3. ASSUME NEW c \in Buttons, c # b
        PROVE  /\ No(input', AboutButton(c)) => No(input, AboutButton(c))
               /\ \A V : NewestIn(input, AboutButton(c), V) => NewestIn(input', AboutButton(c), V)
    <3>1. e \notin AboutButton(c)
      BY <1>2, <2>3 DEF AboutButton
    <3> QED BY <1>2, <2>1, <3>1, AppendAny
  <2>4. e \in AboutButton(b)
    BY <1>2 DEF AboutButton
  <2>5. ~No(input', AboutButton(b))
    BY <1>2, <2>1, <2>4, AppendNo
  <2>6. \A V : e \in V => NewestIn(input', AboutButton(b), V)
    BY <1>2, <2>1, <2>4, AppendAny
  <2>7. (b \in held' => e \in Presses) /\ (b \notin held' => e \in Releases)
    BY <1>2 DEF Presses, Releases, Inputs
  <2>8. \A c \in Buttons : c # b => (c \in held' <=> c \in held)
    BY <1>2
  <2>9. InputTells'
    BY <1>2, <2>3, <2>5, <2>6, <2>7, <2>8 DEF InputTells, InputOK
  <2> QED BY <1>2, <2>2, <2>9 DEF InputOK
<1>3. ASSUME NEW b \in Buttons, PressButton(b) \/ ReleaseButton(b)
      PROVE  InputOK' /\ UNCHANGED <<dnd, drag, source>>
  <2>1. Event("press", b) \in Inputs /\ Event("release", b) \in Inputs
        /\ Event("press", b).type = "press" /\ Event("release", b).type = "release"
        /\ Event("press", b).button = b /\ Event("release", b).button = b
    BY DEF Event, Inputs
  <2> QED BY <1>2, <1>3, <2>1 DEF PressButton, ReleaseButton
<1> QED BY <1>1, <1>3 DEF User

(***************************************************************************)
(* The steps.                                                              *)
(***************************************************************************)
\* What a step about pointer events or the drag of the seat does to dnd.
LEMMA DragStep ==
    ASSUME DInv, HandleInput \/ Client
    PROVE  Kept(dnd, dnd') /\ InputOK' /\ DragOK' /\ UNCHANGED source
<1>1. Sane(dnd) /\ Kept(dnd, dnd) /\ InputOK /\ DragOK
  BY KeptItself DEF DInv
<1>2. CASE HandleMotion
  <2>1. Kept(dnd, dnd')
    BY <1>1, <1>2, OutUpdateKeeps DEF HandleMotion
  <2>2. InputOK'
    BY <1>1, <1>2, MotionInput DEF HandleMotion, user
  <2>3. DragOK'
    BY <1>1, <1>2 DEF HandleMotion, DragOK
  <2> QED BY <1>2, <2>1, <2>2, <2>3 DEF HandleMotion
<1>3. CASE HandlePress
  <2>1. Kept(dnd, dnd')
    BY <1>1, <1>3 DEF HandlePress
  <2>2. InputOK'
    BY <1>1, <1>3, ButtonInput DEF HandlePress, user
  <2>3. DragOK'
    BY <1>1, <1>3 DEF HandlePress, DragOK
  <2> QED BY <1>3, <2>1, <2>2, <2>3 DEF HandlePress
<1>4. CASE HandleRelease
  <2>1. PICK path \in Paths, takes \in {FALSE, drag.focus} :
          LET ends == DragEnds(Head(input).button, takes)
              ended == IF ends THEN DragDestroyed(dnd) ELSE dnd
          IN /\ drag' = IF ends THEN [drag EXCEPT !.live = FALSE, !.focus = FALSE]
                        ELSE IF drag.live /\ pointer = Own
                        THEN [drag EXCEPT !.focus = TRUE] ELSE drag
             /\ dnd' = IF path = "xi2" THEN OutRelease(ended) ELSE ended
    BY <1>4 DEF HandleRelease
  <2> DEFINE ended == IF DragEnds(Head(input).button, takes) THEN DragDestroyed(dnd) ELSE dnd
  <2>2. dnd' = OutRelease(ended) \/ dnd' = ended
    BY <2>1
  <2>3. Kept(dnd, ended)
    BY <1>1, DragDestroyedKeeps
  <2> HIDE DEF ended
  <2>4. Kept(dnd, dnd')
    BY <2>2, <2>3, OutReleaseKeeps, KeptTransitive DEF Kept
  <2>5. InputOK'
    BY <1>1, <1>4, ButtonInput DEF HandleRelease, user
  <2>6. DragOK'
    <3>1. \/ drag' = [drag EXCEPT !.live = FALSE, !.focus = FALSE]
          \/ drag' = [drag EXCEPT !.focus = TRUE]
          \/ drag' = drag
      BY <2>1
    <3> QED BY <1>1, <3>1 DEF DragOK
  <2> QED BY <1>4, <2>4, <2>5, <2>6 DEF HandleRelease
<1>5. CASE PumpEnds
  <2>1. PICK n \in drag.pumping :
           /\ drag' = [drag EXCEPT !.pumping = @ \ {n}]
           /\ \E hit \in Hits : dnd' \in {dnd, OutBegin(dnd, n, hit)}
    BY <1>5 DEF PumpEnds
  <2>4. n \in 1..MaxDrags
    BY <1>1, <2>1 DEF DragOK
  <2>2. Kept(dnd, dnd')
    BY <1>1, <2>1, <2>4, OutBeginKeeps
  <2>3. DragOK'
    BY <1>1, <2>1 DEF DragOK
  <2> QED BY <1>1, <1>5, <2>2, <2>3 DEF PumpEnds, user, InputOK, InputTells
<1>6. CASE CancelDrag
  <2>1. Kept(dnd, dnd')
    BY <1>1, <1>6, DragDestroyedKeeps DEF CancelDrag
  <2>2. DragOK'
    BY <1>1, <1>6 DEF CancelDrag, DragOK
  <2> QED BY <1>1, <1>6, <2>1, <2>2 DEF CancelDrag, user, InputOK, InputTells
<1>7. ASSUME NEW b \in Buttons, StartDrag(b)
      PROVE  Kept(dnd, dnd') /\ InputOK' /\ DragOK' /\ UNCHANGED source
  <2>1. drag.number + 1 \in 1..MaxDrags /\ drag.number + 1 \in Texts /\ drag.number + 1 # 0
    BY <1>1, <1>7, DragAssumption DEF StartDrag, DragOK, Texts
  <2>2. UNCHANGED dnd \/ \E hit \in Hits : dnd' = OutBegin(dnd, drag.number + 1, hit)
    BY <1>7 DEF StartDrag
  <2>3. Kept(dnd, dnd')
    BY <1>1, <2>1, <2>2, OutBeginKeeps
  <2>4. \E p \in {drag.pumping, drag.pumping \cup {drag.number + 1}} :
           drag' = [live |-> TRUE, number |-> drag.number + 1, button |-> b,
                    focus |-> FALSE, pumping |-> p]
    BY <1>7 DEF StartDrag
  <2>5. drag.pumping \in SUBSET (1..MaxDrags)
    BY <1>1 DEF DragOK
  <2>6. DragOK'
    BY <1>1, <1>7, <2>1, <2>4, <2>5 DEF DragOK
  <2> QED BY <1>1, <1>7, <2>3, <2>6 DEF StartDrag, user, InputOK, InputTells
<1> QED BY <1>2, <1>3, <1>4, <1>5, <1>6, <1>7 DEF HandleInput, Client

\* Messages of the outbound drag that the compositor or a target reads.
TargetStep ==
    HandleStatus \/ HandleFinished \/ (HandleRequest /\ From # Own)
        \/ \E w \in Targets : TargetReads(w)

\* Every answer is the answer to something: the request or drop that is read
\* gives way to the next message of the exchange.
LEMMA RequestAnswered ==
    ASSUME Sane(dnd), HandleRequest
    PROVE  Sane(dnd')
<1>1. dnd \in Dnd /\ dnd.inbox # <<>> /\ Head(dnd.inbox).type = "Request"
  BY DEF HandleRequest, Received, Sane
<1>2. Rest \in Dnd /\ Rest = [dnd EXCEPT !.inbox = Tail(dnd.inbox)]
      /\ Rest.inbox = Tail(dnd.inbox) /\ Head(dnd.inbox) \in ToUs /\ dnd.inbox \in Seq(ToUs)
  BY <1>1, RestFields
<1>3. /\ Rest.open = dnd.open /\ Rest.target = dnd.target /\ Rest.forgotten = dnd.forgotten
      /\ Rest.text = dnd.text /\ Rest.owner = dnd.owner
      /\ Rest.taken = dnd.taken /\ Rest.mail = dnd.mail
      /\ Rest.drop = dnd.drop
  BY <1>1, <1>2 DEF Dnd
<1>4. No(Rest.inbox, Unsigned)
  BY <1>1, <1>2, TakeNo DEF Sane
<1>5. CASE From = Own
  <2>1. \A w \in Targets : Head(dnd.inbox) \notin RequestsOf(w)
    BY <1>5, DragAssumption DEF RequestsOf, From
  <2>2. Sane(Rest)
    BY <1>1, <2>1, RestSane
  <2>3. \A a \in {"refused", "text"} : Wire("Notify", Own, a) \in ToUs \ Unsigned
    BY DEF Wire, ToUs, Unsigned
  <2>4. dnd' = Post(Rest, Wire("Notify", Own, IF dnd.text = 0 THEN "refused" ELSE "text"))
    BY <1>5 DEF HandleRequest
  <2> QED BY <2>2, <2>3, <2>4, PostSane
<1>6. CASE From # Own
  <2>1. PICK p : p = From
    OBVIOUS
  <2>2. PICK r \in Dnd : r = Rest
    BY <1>2
  <2>3. PICK m \in ToPeer : /\ m \in DropAnswers
                            /\ dnd' = [Send(r, p, m) EXCEPT !.lost = @ \/ dnd.text # dnd.drop[p]]
    BY <1>6, <2>1, <2>2 DEF HandleRequest, ToPeer, DropAnswers
  <2> DEFINE u == Send(r, p, m)
  <2>4. /\ u \in Dnd /\ u = [r EXCEPT !.mail = u.mail]
        /\ \A w \in Peers : u.mail[w] = IF w = p THEN Append(r.mail[w], m) ELSE r.mail[w]
    BY SendFields
  <2> HIDE DEF u
  <2>5. /\ dnd' \in Dnd /\ dnd'.mail = u.mail
        /\ dnd'.open = dnd.open /\ dnd'.target = dnd.target /\ dnd'.forgotten = dnd.forgotten
        /\ dnd'.text = dnd.text /\ dnd'.owner = dnd.owner
        /\ dnd'.taken = dnd.taken /\ dnd'.drop = dnd.drop
        /\ dnd'.inbox = Tail(dnd.inbox)
    <3>1. PICK l \in BOOLEAN : dnd' = [u EXCEPT !.lost = l]
      BY <2>3 DEF u
    <3>2. /\ dnd' \in Dnd /\ dnd'.mail = u.mail
          /\ dnd'.open = u.open /\ dnd'.target = u.target /\ dnd'.forgotten = u.forgotten
          /\ dnd'.text = u.text /\ dnd'.owner = u.owner
          /\ dnd'.taken = u.taken /\ dnd'.drop = u.drop
          /\ dnd'.inbox = u.inbox
      BY <2>4, <3>1 DEF Dnd
    <3>3. /\ u.open = r.open /\ u.target = r.target /\ u.forgotten = r.forgotten
          /\ u.text = r.text /\ u.owner = r.owner
          /\ u.taken = r.taken /\ u.drop = r.drop /\ u.inbox = r.inbox
      BY <2>4 DEF Dnd
    <3> QED BY <1>2, <1>3, <2>2, <3>2, <3>3
  <2>6. ASSUME NEW w \in Targets, dnd'.drop[w] # 0
        PROVE  ~No(dnd'.mail[w], DropAnswers) \/ ~No(dnd'.inbox, RequestsOf(w))
    <3>1. ~No(dnd.mail[w], DropAnswers) \/ ~No(dnd.inbox, RequestsOf(w))
      BY <2>5, <2>6 DEF Sane, DropsPending
    <3>2. w \in Peers /\ dnd.mail[w] \in Seq(ToPeer)
      BY <1>1, DndFields DEF Peers
    <3>3. CASE w = From
      <4>1. dnd'.mail[w] = Append(dnd.mail[w], m)
        BY <1>3, <2>1, <2>2, <2>4, <2>5, <3>2, <3>3
      <4>2. ~No(Append(dnd.mail[w], m), DropAnswers)
        BY <2>3, <3>2, AppendNo
      <4> QED BY <4>1, <4>2
    <3>4. CASE w # From
      <4>1. dnd'.mail[w] = dnd.mail[w]
        BY <1>3, <2>1, <2>2, <2>4, <2>5, <3>2, <3>4
      <4>2. Head(dnd.inbox) \notin RequestsOf(w)
        BY <3>4 DEF RequestsOf, From
      <4>3. No(dnd'.inbox, RequestsOf(w)) => No(dnd.inbox, RequestsOf(w))
        BY <1>1, <1>2, <2>5, <4>2, TakeNo
      <4> QED BY <3>1, <4>1, <4>3
    <3> QED BY <3>3, <3>4
  <2> QED BY <1>2, <1>4, <2>5, <2>6 DEF Sane, Sessions, Selection, DropsPending
<1> QED BY <1>5, <1>6

LEMMA TargetAnswers ==
    ASSUME Sane(dnd), NEW w \in Targets, TargetReads(w)
    PROVE  Sane(dnd') /\ UNCHANGED <<drag, seat, user, input, source>>
<1>1. dnd \in Dnd /\ dnd.mail[w] # <<>> /\ w \in Peers /\ dnd.mail[w] \in Seq(ToPeer)
      /\ UNCHANGED <<drag, seat, user, input, source>>
  BY DndFields DEF Sane, TargetReads, Peers
<1> DEFINE u == ReadMail(w)
<1>2. /\ u \in Dnd /\ u = [dnd EXCEPT !.mail = u.mail]
      /\ \A x \in Peers : u.mail[x] = IF x = w THEN Tail(dnd.mail[x]) ELSE dnd.mail[x]
      /\ Mail(w) \in ToPeer
  BY <1>1, ReadQuiet
<1> HIDE DEF u
<1>3. /\ u.open = dnd.open /\ u.target = dnd.target /\ u.forgotten = dnd.forgotten
      /\ u.text = dnd.text /\ u.owner = dnd.owner
      /\ u.taken = dnd.taken /\ u.inbox = dnd.inbox /\ u.drop = dnd.drop
  BY <1>1, <1>2 DEF Dnd
<1>4. \A x \in Targets : x # w => u.mail[x] = dnd.mail[x]
  BY <1>2 DEF Peers
<1>5. Mail(w) \notin DropAnswers => (No(u.mail[w], DropAnswers) => No(dnd.mail[w], DropAnswers))
  BY <1>1, <1>2, TakeNo DEF Mail
<1>6. /\ \A a \in {"yes", "no"} : Wire("Status", w, a) \in ToUs \ Unsigned
      /\ Wire("Request", w, "") \in ToUs \ Unsigned /\ Wire("Request", w, "") \in RequestsOf(w)
      /\ Wire("Finished", w, "") \in ToUs \ Unsigned
  BY <1>1 DEF Wire, ToUs, Unsigned, RequestsOf
\* With the exchange of w itself put aside.
<1>7. ASSUME NEW v \in Dnd,
             v.open = u.open, v.target = u.target, v.forgotten = u.forgotten,
             v.text = u.text, v.owner = u.owner,
             v.taken = u.taken, \A x \in Targets : x # w => v.drop[x] = u.drop[x],
             v.inbox = u.inbox \/ \E m \in ToUs \ Unsigned : v.inbox = Append(u.inbox, m),
             \A x \in Targets : x # w => v.mail[x] = u.mail[x],
             v.drop[w] # 0 => ~No(v.mail[w], DropAnswers) \/ ~No(v.inbox, RequestsOf(w))
      PROVE  Sane(v)
  <2>1. u.inbox \in Seq(ToUs)
    BY <1>2, DndFields
  <2>2. /\ \A P : No(v.inbox, P) => No(u.inbox, P)
        /\ No(v.inbox, Unsigned)
    <3>1. No(u.inbox, Unsigned)
      BY <1>3 DEF Sane
    <3>2. CASE v.inbox = u.inbox
      BY <3>1, <3>2
    <3>3. CASE \E m \in ToUs \ Unsigned : v.inbox = Append(u.inbox, m)
      <4>1. PICK m \in ToUs \ Unsigned : v.inbox = Append(u.inbox, m)
        BY <3>3
      <4>2. \A P : No(v.inbox, P) <=> No(u.inbox, P) /\ m \notin P
        BY <2>1, <4>1, AppendNo
      <4> QED BY <3>1, <4>2
    <3> QED BY <1>7, <3>2, <3>3
  <2>4. DropsPending(v)
    BY <1>3, <1>4, <1>7, <2>2 DEF Sane, DropsPending
  <2> QED BY <1>3, <1>7, <2>2, <2>4 DEF Sane, Sessions, Selection
<1>8. CASE Mail(w) = "Position"
  <2>1. PICK a \in {"yes", "no"} : dnd' = Post(u, Wire("Status", w, a))
    BY <1>8 DEF TargetReads, u
  <2>2. PICK m \in ToUs \ Unsigned : dnd' = Post(u, m)
    BY <1>6, <2>1
  <2>3. dnd' \in Dnd /\ dnd' = [u EXCEPT !.inbox = Append(u.inbox, m)]
        /\ dnd'.inbox = Append(u.inbox, m)
    BY <1>2, <2>2, PostFields
  <2>4. /\ dnd'.open = u.open /\ dnd'.target = u.target /\ dnd'.forgotten = u.forgotten
        /\ dnd'.text = u.text /\ dnd'.owner = u.owner
        /\ dnd'.taken = u.taken /\ dnd'.drop = u.drop /\ dnd'.mail = u.mail
    BY <1>2, <2>3 DEF Dnd
  <2>5. u.inbox \in Seq(ToUs) /\ (No(dnd'.inbox, RequestsOf(w)) => No(u.inbox, RequestsOf(w)))
    BY <1>2, <2>3, DndFields, AppendNo
  <2>6. Mail(w) \notin DropAnswers
    BY <1>8 DEF DropAnswers
  <2>7. dnd'.drop[w] # 0 => ~No(dnd'.mail[w], DropAnswers) \/ ~No(dnd'.inbox, RequestsOf(w))
    BY <1>3, <1>5, <2>4, <2>5, <2>6 DEF Sane, DropsPending
  <2>8. Sane(dnd')
    BY <1>7, <2>3, <2>4, <2>7
  <2> QED BY <1>1, <2>8
<1>9. CASE Mail(w) = "Drop"
  <2>1. CASE u.owner = Own
    <3>1. dnd' = Post(u, Wire("Request", w, ""))
      BY <1>9, <2>1 DEF TargetReads, Fetch, u
    <3> DEFINE m == Wire("Request", w, "")
    <3>2. m \in ToUs \ Unsigned /\ m \in RequestsOf(w)
      BY <1>6
    <3> HIDE DEF m
    <3>3. dnd' \in Dnd /\ dnd' = [u EXCEPT !.inbox = Append(u.inbox, m)]
          /\ dnd'.inbox = Append(u.inbox, m)
      BY <1>2, <3>1, <3>2, PostFields DEF m
    <3>4. /\ dnd'.open = u.open /\ dnd'.target = u.target /\ dnd'.forgotten = u.forgotten
          /\ dnd'.text = u.text /\ dnd'.owner = u.owner
          /\ dnd'.taken = u.taken /\ dnd'.drop = u.drop /\ dnd'.mail = u.mail
      BY <1>2, <3>3 DEF Dnd
    <3>5. ~No(dnd'.inbox, RequestsOf(w))
      <4>1. u.inbox \in Seq(ToUs)
        BY <1>2, DndFields
      <4> QED BY <3>2, <3>3, <4>1, AppendNo
    <3>6. Sane(dnd')
      BY <1>7, <3>2, <3>3, <3>4, <3>5
    <3> QED BY <1>1, <3>6
  <2>2. CASE u.owner # Own
    <3> DEFINE v == Send(u, w, "Refused")
    <3>1. dnd' = [v EXCEPT !.lost = TRUE]
      BY <1>9, <2>2 DEF TargetReads, Fetch, u
    <3>2. "Refused" \in ToPeer /\ "Refused" \in DropAnswers
      BY DEF ToPeer, DropAnswers
    <3>3. /\ v \in Dnd /\ v = [u EXCEPT !.mail = v.mail]
          /\ \A x \in Peers : v.mail[x] = IF x = w THEN Append(u.mail[x], "Refused") ELSE u.mail[x]
      BY <1>2, <3>2, SendFields
    <3> HIDE DEF v
    <3>4. /\ dnd' \in Dnd /\ dnd'.mail = v.mail
          /\ dnd'.open = u.open /\ dnd'.target = u.target /\ dnd'.forgotten = u.forgotten
          /\ dnd'.text = u.text /\ dnd'.owner = u.owner
          /\ dnd'.taken = u.taken /\ dnd'.drop = u.drop
          /\ dnd'.inbox = u.inbox
      BY <1>2, <3>1, <3>3 DEF Dnd
    <3>5. ~No(dnd'.mail[w], DropAnswers)
      <4>1. u.mail[w] \in Seq(ToPeer)
        BY <1>1, <1>2, DndFields
      <4>2. dnd'.mail[w] = Append(u.mail[w], "Refused")
        BY <1>1, <3>3, <3>4
      <4> QED BY <3>2, <4>1, <4>2, AppendNo
    <3>6. \A x \in Targets : x # w => dnd'.mail[x] = u.mail[x]
      BY <3>3, <3>4 DEF Peers
    <3>7. Sane(dnd')
      BY <1>7, <3>4, <3>5, <3>6
    <3> QED BY <1>1, <3>7
  <2> QED BY <2>1, <2>2
<1>10. CASE Mail(w) \in {"Text", "Refused"}
  <2> DEFINE v == Post(u, Wire("Finished", w, ""))
             drop == [u.drop EXCEPT ![w] = 0]
  <2>1. dnd' = [v EXCEPT !.drop[w] = 0]
    BY <1>10 DEF TargetReads, u
  <2>2. PICK m \in ToUs \ Unsigned : v = Post(u, m)
    BY <1>6
  <2>3. v \in Dnd /\ v = [u EXCEPT !.inbox = Append(u.inbox, m)] /\ v.inbox = Append(u.inbox, m)
    BY <1>2, <2>2, PostFields
  <2> HIDE DEF v
  <2>4. 0 \in Texts /\ u.drop \in [Targets -> Texts]
    BY <1>2, DndFields, DragAssumption DEF Texts
  <2>5. drop \in [Targets -> Texts] /\ drop[w] = 0 /\ \A x \in Targets : x # w => drop[x] = u.drop[x]
    BY <2>4
  <2>6. dnd' = [v EXCEPT !.drop = drop]
    BY <1>2, <2>1, <2>3 DEF Dnd
  <2> HIDE DEF drop
  <2>7. /\ dnd' \in Dnd /\ dnd'.drop = drop /\ dnd'.mail = u.mail
        /\ dnd'.open = u.open /\ dnd'.target = u.target /\ dnd'.forgotten = u.forgotten
        /\ dnd'.text = u.text /\ dnd'.owner = u.owner
        /\ dnd'.taken = u.taken /\ dnd'.inbox = Append(u.inbox, m)
    BY <1>2, <2>3, <2>5, <2>6 DEF Dnd
  <2>8. Sane(dnd')
    BY <1>7, <2>5, <2>7
  <2> QED BY <1>1, <2>8
<1>11. Mail(w) \in {"Position", "Drop", "Text", "Refused"}
  BY DEF TargetReads
<1> QED BY <1>8, <1>9, <1>10, <1>11

(***************************************************************************)
(* The inbound drag.                                                       *)
(***************************************************************************)
\* Fields that Sane does not speak of.
LEMMA OthersSane ==
    ASSUME NEW s, Sane(s), NEW v \in Dnd,
           v.open = s.open, v.target = s.target, v.forgotten = s.forgotten, v.text = s.text,
           v.owner = s.owner, v.taken = s.taken, v.mail = s.mail, v.inbox = s.inbox, v.drop = s.drop
    PROVE  Sane(v)
BY DEF Sane, Sessions, Selection, DropsPending

LEMMA ConvertSane ==
    ASSUME NEW s, Sane(s) PROVE Sane(Convert(s))
<1>1. /\ Wire("Notify", None, "refused") \in ToUs \ Unsigned
      /\ Wire("Request", Own, "") \in ToUs \ Unsigned
      /\ "Convert" \in ToPeer
  BY DEF Wire, ToUs, ToPeer, Unsigned
<1>2. CASE s.owner = None
  BY <1>1, <1>2, PostSane DEF Convert
<1>3. CASE s.owner = Own
  <2>1. Convert(s) = Post(s, Wire("Request", Own, ""))
    BY <1>3, DragAssumption DEF Convert
  <2> QED BY <1>1, <2>1, PostSane
<1>4. CASE s.owner \notin {None, Own}
  <2>1. Convert(s) = Send(s, s.owner, "Convert")
    BY <1>4 DEF Convert
  <2> QED BY <1>1, <2>1, SendSane
<1> QED BY <1>2, <1>3, <1>4

LEMMA HandleXSane ==
    ASSUME Sane(dnd), HandleX
    PROVE  Sane(dnd') /\ UNCHANGED <<drag, seat, user, input, source>>
<1> DEFINE head == Head(dnd.inbox)
<1>1. dnd \in Dnd /\ dnd.inbox # <<>> /\ UNCHANGED <<drag, seat, user, input, source>>
  BY DEF Sane, HandleX, HandleStatus, HandleFinished, HandleRequest, HandleEnter, HandlePosition,
         HandleLeave, HandleDrop, HandleNotify, Received
<1>2. dnd.inbox \in Seq(ToUs) /\ head \in ToUs /\ head \notin Unsigned
  BY <1>1, RestFields, TakeNo DEF Sane
<1>3. ASSUME head.type # "Request" PROVE Sane(Rest)
  BY <1>1, <1>3, RestSane DEF RequestsOf
<1>4. CASE HandleRequest
  BY <1>1, <1>4, RequestAnswered
<1>5. ASSUME NEW s, Sane(s), NEW v, NEW a \in BOOLEAN, NEW r \in BOOLEAN,
             NEW f \in Sources \cup {None}, v = [s EXCEPT !.accepted = a, !.receives = r, !.from = f]
      PROVE  Sane(v)
  <2>1. /\ v \in Dnd /\ v.open = s.open /\ v.target = s.target /\ v.forgotten = s.forgotten
        /\ v.text = s.text /\ v.owner = s.owner
        /\ v.taken = s.taken /\ v.mail = s.mail /\ v.inbox = s.inbox
        /\ v.drop = s.drop
    BY <1>5 DEF Sane, Dnd
  <2> QED BY <1>5, <2>1, OthersSane
<1>6. CASE head.type # "Request"
  <2>1. PICK r : r = Rest /\ Sane(r)
    BY <1>3, <1>6
  <2>2. /\ r \in Dnd /\ r.receives \in BOOLEAN /\ r.from \in Sources \cup {None}
        /\ r.accepted \in BOOLEAN /\ r.receives = dnd.receives /\ r.from = dnd.from
        /\ r = [r EXCEPT !.accepted = r.accepted, !.receives = r.receives, !.from = r.from]
    <3>1. r.receives = dnd.receives /\ r.from = dnd.from
      BY <1>1, <2>1, RestFields DEF Dnd
    <3> QED BY <2>1, <3>1, DndFields DEF Sane, Dnd
  <2>3. CASE HandleStatus
    <3>1. \E a \in BOOLEAN : dnd' = r \/ dnd' = [r EXCEPT !.accepted = a]
      BY <2>1, <2>3 DEF HandleStatus
    <3>2. PICK a \in BOOLEAN : dnd' = r \/ dnd' = [r EXCEPT !.accepted = a]
      BY <3>1
    <3>3. PICK v : v = [r EXCEPT !.accepted = a]
      OBVIOUS
    <3>4. /\ v \in Dnd /\ v.open = r.open /\ v.target = r.target /\ v.forgotten = r.forgotten
          /\ v.text = r.text /\ v.owner = r.owner
          /\ v.taken = r.taken /\ v.mail = r.mail /\ v.inbox = r.inbox
          /\ v.drop = r.drop
      BY <2>2, <3>3 DEF Dnd
    <3>5. Sane(v)
      BY <2>1, <3>4, OthersSane
    <3> QED BY <1>1, <2>1, <3>2, <3>3, <3>5
  <2>4. CASE HandleFinished
    BY <1>1, <2>1, <2>4, OutFinishKeeps DEF HandleFinished, Kept
  <2>5. CASE HandleEnter
    <3>1. From \in Sources /\ TRUE \in BOOLEAN
      BY <1>2, <2>5 DEF HandleEnter, Received, From, Unsigned
    <3>2. PICK f \in Sources : dnd' = [r EXCEPT !.receives = TRUE, !.from = f]
      BY <2>1, <2>5, <3>1 DEF HandleEnter
    <3>3. dnd' = [r EXCEPT !.accepted = r.accepted, !.receives = TRUE, !.from = f]
      BY <2>2, <3>2 DEF Dnd
    <3> QED BY <1>1, <1>5, <2>1, <2>2, <3>3
  <2>6. CASE HandlePosition
    <3>1. dnd' = r \/ dnd' = Send(r, dnd.from, "Status")
      BY <2>1, <2>6 DEF HandlePosition
    <3> QED BY <1>1, <2>1, <3>1, SendSane DEF ToPeer
  <2>7. CASE HandleLeave
    <3>1. dnd' = [r EXCEPT !.accepted = r.accepted, !.receives = FALSE, !.from = None]
      BY <2>1, <2>2, <2>7 DEF HandleLeave, Dnd
    <3> QED BY <1>1, <1>5, <2>1, <2>2, <3>1
  <2>8. CASE HandleDrop
    BY <1>1, <2>1, <2>8, ConvertSane DEF HandleDrop
  <2>9. CASE HandleNotify
    <3> DEFINE done == Finish(r)
    <3>1. done = r \/ done = Send(r, r.from, "Finished")
      BY DEF Finish
    <3>2. Sane(done)
      BY <2>1, <3>1, SendSane DEF ToPeer
    <3>3. \/ dnd' = r \/ dnd' = [done EXCEPT !.receives = FALSE]
          \/ dnd' = [done EXCEPT !.receives = FALSE, !.from = None]
      BY <2>1, <2>9 DEF HandleNotify
    <3> HIDE DEF done
    <3>4. /\ done.accepted \in BOOLEAN /\ done.from \in Sources \cup {None}
          /\ [done EXCEPT !.receives = FALSE]
               = [done EXCEPT !.accepted = done.accepted, !.receives = FALSE, !.from = done.from]
          /\ [done EXCEPT !.receives = FALSE, !.from = None]
               = [done EXCEPT !.accepted = done.accepted, !.receives = FALSE, !.from = None]
      BY <3>2 DEF Sane, Dnd
    <3> QED BY <1>1, <1>5, <2>1, <3>2, <3>3, <3>4
  <2> QED BY <2>3, <2>4, <2>5, <2>6, <2>7, <2>8, <2>9, <1>4 DEF HandleX
<1>7. CASE head.type = "Request"
  <2>1. HandleRequest
    BY <1>7 DEF HandleX, HandleStatus, HandleFinished, HandleEnter, HandlePosition, HandleLeave,
                HandleDrop, HandleNotify, Received
  <2> QED BY <1>1, <1>4, <2>1
<1> QED BY <1>6, <1>7

\* A source claims XdndSelection before it sends what is its own.
LEMMA SourceSane ==
    ASSUME Sane(dnd), SourceOK, NEW f \in Sources, SourceDrags(f) \/ SourceReads(f)
    PROVE  Sane(dnd') /\ SourceOK' /\ UNCHANGED <<drag, seat, user, input>>
<1>1. dnd \in Dnd /\ f \in Peers
  BY DEF Sane, Peers
<1>2. ASSUME NEW before, NEW after \in {"idle", "over", "asked", "dropped"},
             NEW type \in {"Enter", "Position", "Leave", "Drop"},
             SourceStep(f, before, after, type)
      PROVE  Sane(dnd') /\ SourceOK' /\ UNCHANGED <<drag, seat, user, input>>
  <2> DEFINE s == IF before = "idle" THEN Claim(f) ELSE dnd
             m == Wire(type, f, "")
  <2>1. m \in ToUs \ Unsigned
    BY <1>1 DEF Wire, ToUs, Unsigned
  <2>2. dnd' = Post(s, m)
    BY <1>2 DEF SourceStep
  <2>3. Sane(s)
    <3>1. CASE s = dnd
      BY <3>1
    <3>2. CASE s # dnd
      <4>1. s = [dnd EXCEPT !.owner = f, !.taken = (dnd.text # 0)] /\ f \notin {None, Own}
        BY <3>2, DragAssumption DEF Claim
      <4> HIDE DEF s
      <4>2. /\ s \in Dnd /\ s.open = dnd.open /\ s.target = dnd.target /\ s.owner = f
            /\ s.taken = (dnd.text # 0)
            /\ s.forgotten = dnd.forgotten /\ s.text = dnd.text /\ s.mail = dnd.mail
            /\ s.inbox = dnd.inbox /\ s.drop = dnd.drop
        BY <1>1, <4>1 DEF Dnd
      <4> QED BY <4>1, <4>2 DEF Sane, Sessions, Selection, DropsPending
    <3> QED BY <3>1, <3>2
  <2> HIDE DEF s, m
  <2>4. SourceOK' /\ UNCHANGED <<drag, seat, user, input>>
    BY <1>2 DEF SourceStep, SourceOK
  <2> QED BY <2>1, <2>2, <2>3, <2>4, PostSane
<1>3. CASE SourceDrags(f)
  BY <1>2, <1>3 DEF SourceDrags
<1>4. CASE SourceReads(f)
  <2>1. dnd.mail[f] # <<>> /\ dnd.mail[f] \in Seq(ToPeer)
    BY <1>1, <1>4, DndFields DEF SourceReads
  <2>2. Mail(f) \in {"Status", "Convert", "Finished"}
    BY <1>4 DEF SourceReads
  <2> DEFINE u == ReadMail(f)
  <2>3. /\ u \in Dnd /\ u = [dnd EXCEPT !.mail = u.mail]
        /\ \A x \in Peers : u.mail[x] = IF x = f THEN Tail(dnd.mail[x]) ELSE dnd.mail[x]
    BY <1>1, <2>1, ReadQuiet
  <2>4. dnd' = u \/ \E answer \in Answers : dnd' = Post(u, Wire("Notify", f, answer))
    BY <1>4 DEF SourceReads
  <2> HIDE DEF u
  <2>5. ASSUME NEW w \in Targets, No(u.mail[w], DropAnswers) PROVE No(dnd.mail[w], DropAnswers)
    <3>1. CASE w # f
      BY <2>3, <2>5, <3>1 DEF Peers
    <3>2. CASE w = f
      <4>1. u.mail[w] = Tail(dnd.mail[w]) /\ Head(dnd.mail[w]) \notin DropAnswers
        BY <1>1, <2>2, <2>3, <3>2 DEF Mail, DropAnswers
      <4> QED BY <2>1, <2>5, <3>2, <4>1, TakeNo
    <3> QED BY <3>1, <3>2
  <2>6. Sane(u)
    BY <2>3, <2>5, MailSane
  <2>7. \A answer \in Answers : Wire("Notify", f, answer) \in ToUs \ Unsigned
    BY <1>1, DragAssumption DEF Wire, ToUs, Unsigned
  <2>8. Sane(dnd')
    BY <2>4, <2>6, <2>7, PostSane
  <2>9. SourceOK' /\ UNCHANGED <<drag, seat, user, input>>
    BY <1>4 DEF SourceReads, SourceOK
  <2> QED BY <2>8, <2>9
<1> QED BY <1>3, <1>4

\* A source gives XdndSelection up: it had claimed it.
LEMMA ReleaseKeeps ==
    ASSUME Sane(dnd), NEW f \in Sources, SourceReleases(f)
    PROVE  Kept(dnd, dnd') /\ UNCHANGED <<drag, seat, user, input, source>>
<1>1. dnd \in Dnd /\ dnd.owner = f /\ f # Own /\ None # Own /\ None \notin Sources
  BY DragAssumption DEF Sane, SourceReleases
<1>2. dnd' = [dnd EXCEPT !.owner = None]
  BY DEF SourceReleases
<1>3. /\ dnd' \in Dnd /\ dnd'.owner = None /\ dnd'.taken = dnd.taken
      /\ dnd'.open = dnd.open /\ dnd'.target = dnd.target /\ dnd'.forgotten = dnd.forgotten
      /\ dnd'.text = dnd.text /\ dnd'.mail = dnd.mail /\ dnd'.inbox = dnd.inbox
      /\ dnd'.drop = dnd.drop /\ dnd'.receives = dnd.receives /\ dnd'.from = dnd.from
  BY <1>1, <1>2 DEF Dnd
<1>4. Sane(dnd')
  BY <1>1, <1>3 DEF Sane, Sessions, Selection, DropsPending
<1>5. Quiet(dnd, dnd')
  BY <1>1, <1>3 DEF Quiet, SameMail
<1>6. UNCHANGED <<drag, seat, user, input, source>>
  BY DEF SourceReleases
<1> QED BY <1>4, <1>5, <1>6 DEF Kept

(***************************************************************************)
(* One answer at a time.  With a single source of drags, its XdndDrop, the *)
(* conversion that XdndDrop asks for, the answer and XdndFinished follow   *)
(* each other: there is never more than one of them.                       *)
(***************************************************************************)
OneSource == \A f, g \in Sources : f = g

NoAnswer(s) == No(s.inbox, InboxAnswers) /\ \A f \in Sources : No(s.mail[f], MailAnswers)
AtUs(s) == One(s.inbox, InboxAnswers) /\ \A f \in Sources : No(s.mail[f], MailAnswers)
AtSource(s) == No(s.inbox, InboxAnswers) /\ \A f \in Sources : One(s.mail[f], MailAnswers)
OneAnswer(s, does) == /\ AtUs(s) \/ AtSource(s)
                      /\ (\E f \in Sources : does[f] # "dropped") => NoAnswer(s)

SameAnswers(s, v) ==
    /\ No(v.inbox, InboxAnswers) <=> No(s.inbox, InboxAnswers)
    /\ One(v.inbox, InboxAnswers) <=> One(s.inbox, InboxAnswers)
    /\ SameMail(s, v)

\* What a step leaves alone that is about no answer, XdndEnter or XdndLeave.
EnterLeave == {m \in ToUs : m.type \in {"Enter", "Leave"}}
Enters == {m \in ToUs : m.type = "Enter"}
Drops == {m \in ToUs : m.type = "Drop"}
Refusals == {m \in ToUs : m.type = "Notify" /\ m.answer = "refused"} \cup RequestsOf(Own)

Undisturbed(s, v) ==
    /\ SameAnswers(s, v)
    /\ v.receives = s.receives /\ v.from = s.from
    /\ v.owner = s.owner \/ v.owner \notin Sources
    /\ No(v.inbox, EnterLeave) => No(s.inbox, EnterLeave)
    /\ NewestIn(s.inbox, EnterLeave, Enters) => NewestIn(v.inbox, EnterLeave, Enters)
    /\ Followed(s.inbox, EnterLeave, Drops) => Followed(v.inbox, EnterLeave, Drops)
    /\ No(s.inbox, Refusals) => No(v.inbox, Refusals)

LEMMA SameOneAnswer ==
    ASSUME NEW s, NEW v, NEW does, SameAnswers(s, v), OneAnswer(s, does)
    PROVE  OneAnswer(v, does)
BY DEF SameAnswers, SameMail, OneAnswer, AtUs, AtSource, NoAnswer, Peers

LEMMA SameFields ==
    ASSUME NEW s, NEW v, v.inbox = s.inbox, v.mail = s.mail
    PROVE  /\ SameAnswers(s, v)
           /\ v.receives = s.receives /\ v.from = s.from /\ v.owner = s.owner => Undisturbed(s, v)
BY DEF SameAnswers, SameMail, Undisturbed

LEMMA UndisturbedTransitive ==
    ASSUME NEW s, NEW u, NEW v, Undisturbed(s, u), Undisturbed(u, v)
    PROVE  Undisturbed(s, v)
BY DEF Undisturbed, SameAnswers, SameMail

LEMMA QuietUndisturbed ==
    ASSUME NEW s, NEW v, Quiet(s, v) PROVE Undisturbed(s, v)
BY DEF Quiet, SameAnswers, Undisturbed

LEMMA RestAnswers ==
    ASSUME dnd \in Dnd, dnd.inbox # <<>>
    PROVE  LET head == Head(dnd.inbox)
           IN /\ head \notin InboxAnswers => SameAnswers(dnd, Rest)
              /\ head \notin InboxAnswers \cup EnterLeave => Undisturbed(dnd, Rest)
              /\ head \in InboxAnswers /\ OneAnswer(dnd, source) =>
                    NoAnswer(Rest) /\ \A f \in Sources : source[f] = "dropped"
<1> DEFINE v == Rest
<1>1. /\ v = [dnd EXCEPT !.inbox = Tail(dnd.inbox)] /\ v.inbox = Tail(dnd.inbox)
      /\ dnd.inbox \in Seq(ToUs)
  BY RestFields
<1> HIDE DEF v
<1>2. v.mail = dnd.mail /\ v.receives = dnd.receives /\ v.from = dnd.from /\ v.owner = dnd.owner
  BY <1>1 DEF Dnd
<1>3. Head(dnd.inbox) \notin InboxAnswers => SameAnswers(dnd, v)
  BY <1>1, <1>2, TakeNo DEF SameAnswers, SameMail
<1>4. ASSUME Head(dnd.inbox) \notin InboxAnswers \cup EnterLeave PROVE Undisturbed(dnd, v)
  <2>1. /\ No(v.inbox, EnterLeave) => No(dnd.inbox, EnterLeave)
        /\ No(dnd.inbox, Refusals) => No(v.inbox, Refusals)
    BY <1>1, <1>4, TakeNo
  <2>2. /\ NewestIn(dnd.inbox, EnterLeave, Enters) => NewestIn(v.inbox, EnterLeave, Enters)
        /\ Followed(dnd.inbox, EnterLeave, Drops) => Followed(v.inbox, EnterLeave, Drops)
    BY <1>1, TakeAny
  <2> QED BY <1>2, <1>3, <1>4, <2>1, <2>2 DEF Undisturbed
<1>5. ASSUME Head(dnd.inbox) \in InboxAnswers, OneAnswer(dnd, source)
      PROVE  NoAnswer(v) /\ \A f \in Sources : source[f] = "dropped"
  <2>1. ~No(dnd.inbox, InboxAnswers)
    BY <1>1, <1>5, TakeNo
  <2>2. AtUs(dnd) /\ \A f \in Sources : source[f] = "dropped"
    BY <1>5, <2>1 DEF OneAnswer, AtSource, NoAnswer
  <2>3. No(v.inbox, InboxAnswers)
    BY <1>1, <1>5, <2>2, TakeNo DEF AtUs
  <2> QED BY <1>2, <2>2, <2>3 DEF AtUs, NoAnswer
<1> QED BY <1>3, <1>4, <1>5 DEF v

LEMMA PostAnswers ==
    ASSUME NEW s \in Dnd, NEW m \in ToUs
    PROVE  /\ m \notin InboxAnswers => SameAnswers(s, Post(s, m))
           /\ m \notin InboxAnswers \cup EnterLeave => Undisturbed(s, Post(s, m))
           /\ NoAnswer(s) => AtUs(Post(s, m))
<1> DEFINE v == Post(s, m)
<1>1. v = [s EXCEPT !.inbox = Append(s.inbox, m)] /\ v.inbox = Append(s.inbox, m)
      /\ s.inbox \in Seq(ToUs)
  BY PostFields, DndFields
<1> HIDE DEF v
<1>2. v.mail = s.mail /\ v.receives = s.receives /\ v.from = s.from /\ v.owner = s.owner
  BY <1>1 DEF Dnd
<1>3. m \notin InboxAnswers => SameAnswers(s, v)
  BY <1>1, <1>2, AppendNo DEF SameAnswers, SameMail
<1>4. ASSUME m \notin InboxAnswers \cup EnterLeave PROVE Undisturbed(s, v)
  <2>1. m \notin Refusals
    BY <1>4 DEF Refusals, InboxAnswers
  <2>2. /\ No(v.inbox, EnterLeave) => No(s.inbox, EnterLeave)
        /\ No(s.inbox, Refusals) => No(v.inbox, Refusals)
    BY <1>1, <2>1, AppendNo
  <2>3. /\ NewestIn(s.inbox, EnterLeave, Enters) => NewestIn(v.inbox, EnterLeave, Enters)
        /\ Followed(s.inbox, EnterLeave, Drops) => Followed(v.inbox, EnterLeave, Drops)
    BY <1>1, <1>4, AppendAny
  <2> QED BY <1>2, <1>3, <1>4, <2>2, <2>3 DEF Undisturbed
<1>5. NoAnswer(s) => AtUs(v)
  BY <1>1, <1>2, AppendNo DEF NoAnswer, AtUs
<1> QED BY <1>3, <1>4, <1>5 DEF v

LEMMA SendAnswers ==
    ASSUME NEW s \in Dnd, NEW w, NEW m \in ToPeer
    PROVE  NoAnswer(s) => AtSource(Send(s, w, m))
<1> DEFINE v == Send(s, w, m)
<1>1. /\ v = [s EXCEPT !.mail = v.mail]
      /\ \A u \in Peers : v.mail[u] = IF u = w THEN Append(s.mail[u], m) ELSE s.mail[u]
      /\ \A u \in Peers : s.mail[u] \in Seq(ToPeer)
  BY SendFields, DndFields
<1> HIDE DEF v
<1>2. v.inbox = s.inbox
  BY <1>1 DEF Dnd
<1>3. ASSUME NoAnswer(s), NEW f \in Sources PROVE One(v.mail[f], MailAnswers)
  <2>1. f \in Peers /\ No(s.mail[f], MailAnswers)
    BY <1>3 DEF Peers, NoAnswer
  <2>2. CASE f = w
    <3>1. v.mail[f] = Append(s.mail[f], m) /\ s.mail[f] \in Seq(ToPeer)
      BY <1>1, <2>1, <2>2
    <3> QED BY <2>1, <3>1, AppendNo
  <2>3. CASE f # w
    BY <1>1, <2>1, <2>3 DEF No, One
  <2> QED BY <2>2, <2>3
<1> QED BY <1>2, <1>3 DEF NoAnswer, AtSource, v

\* What is no source's doing and no step about an answer leaves the inbound drag alone.
LEMMA OthersUndisturbed ==
    ASSUME Sane(dnd),
           Kept(dnd, dnd') \/ \E w \in Targets : TargetReads(w)
    PROVE  Undisturbed(dnd, dnd')
<1>1. dnd \in Dnd
  BY DEF Sane
<1>2. ASSUME NEW w \in Targets, TargetReads(w) PROVE Undisturbed(dnd, dnd')
  <2>1. w \in Peers /\ w # Own /\ dnd.mail[w] # <<>>
    BY <1>2, DragAssumption DEF TargetReads, Peers
  <2>2. Mail(w) \notin MailAnswers
    BY <1>2 DEF TargetReads, MailAnswers
  <2>3. PICK u \in Dnd : u = ReadMail(w) /\ Undisturbed(dnd, u)
    BY <1>1, <2>1, <2>2, ReadQuiet, QuietUndisturbed
  <2>4. \A m \in ToUs : m.from = w /\ m.type \in {"Status", "Request", "Finished"}
                          => m \notin InboxAnswers \cup EnterLeave
    BY <2>1 DEF InboxAnswers, RequestsOf, EnterLeave
  <2>5. /\ \A a \in {"yes", "no"} : Wire("Status", w, a) \in ToUs \ (InboxAnswers \cup EnterLeave)
        /\ Wire("Request", w, "") \in ToUs \ (InboxAnswers \cup EnterLeave)
        /\ Wire("Finished", w, "") \in ToUs \ (InboxAnswers \cup EnterLeave)
    BY <2>1, <2>4 DEF Wire, ToUs
  <2>6. /\ "Refused" \in ToPeer \ MailAnswers /\ 0 \in Texts
    BY DragAssumption DEF ToPeer, MailAnswers, Texts
  <2>7. PICK v \in Dnd : /\ Undisturbed(u, v)
                         /\ \/ dnd' = v
                            \/ dnd' = [v EXCEPT !.lost = TRUE]
                            \/ dnd' = [v EXCEPT !.drop[w] = 0]
    <3>1. \A m \in ToUs \ (InboxAnswers \cup EnterLeave) : Post(u, m) \in Dnd /\ Undisturbed(u, Post(u, m))
      BY PostFields, PostAnswers
    <3>2. Send(u, w, "Refused") \in Dnd /\ Undisturbed(u, Send(u, w, "Refused"))
      BY <2>6, SendFields, SendQuiet, QuietUndisturbed
    <3>3. CASE Mail(w) = "Position"
      BY <1>2, <2>3, <2>5, <3>1, <3>3 DEF TargetReads
    <3>4. CASE Mail(w) = "Drop"
      <4>1. CASE u.owner = Own
        BY <1>2, <2>3, <2>5, <3>1, <3>4, <4>1 DEF TargetReads, Fetch
      <4>2. CASE u.owner # Own
        BY <1>2, <2>3, <3>2, <3>4, <4>2 DEF TargetReads, Fetch
      <4> QED BY <4>1, <4>2
    <3>5. CASE Mail(w) \in {"Text", "Refused"}
      <4>1. dnd' = [Post(u, Wire("Finished", w, "")) EXCEPT !.drop[w] = 0]
        BY <1>2, <2>3, <3>5 DEF TargetReads
      <4> QED BY <2>5, <3>1, <4>1
    <3> QED BY <1>2, <3>3, <3>4, <3>5 DEF TargetReads
  <2>8. /\ dnd'.inbox = v.inbox /\ dnd'.mail = v.mail /\ dnd'.receives = v.receives
        /\ dnd'.from = v.from /\ dnd'.owner = v.owner
    BY <2>7 DEF Dnd
  <2>9. Undisturbed(v, dnd')
    BY <2>8, SameFields
  <2> QED BY <2>3, <2>7, <2>9, UndisturbedTransitive
<1>3. Kept(dnd, dnd') => Undisturbed(dnd, dnd')
  BY QuietUndisturbed DEF Kept
<1> QED BY <1>2, <1>3

\* Events that are no answer to a drop, XdndEnter or XdndLeave, and those that are.
EventAside == \/ HandleStatus \/ HandleFinished \/ HandlePosition
              \/ HandleRequest /\ From # Own

LEMMA AsideUndisturbed ==
    ASSUME Sane(dnd), EventAside
    PROVE  Undisturbed(dnd, dnd') /\ UNCHANGED source
<1> DEFINE head == Head(dnd.inbox)
<1>1. /\ dnd \in Dnd /\ dnd.inbox # <<>> /\ UNCHANGED source /\ head \in ToUs
  BY RestFields DEF Sane, EventAside, HandleStatus, HandleFinished, HandleRequest, HandlePosition,
                    Received
<1>2. head \notin InboxAnswers \cup EnterLeave
  BY DEF EventAside, HandleStatus, HandleFinished, HandleRequest, HandlePosition, Received,
         InboxAnswers, RequestsOf, EnterLeave, From
<1>3. PICK r \in Dnd : r = Rest /\ Undisturbed(dnd, r)
  BY <1>1, <1>2, RestFields, RestAnswers
<1>4. CASE HandleStatus
  <2>1. /\ dnd'.inbox = r.inbox /\ dnd'.mail = r.mail /\ dnd'.receives = r.receives
        /\ dnd'.from = r.from /\ dnd'.owner = r.owner
    BY <1>3, <1>4 DEF HandleStatus, Dnd
  <2>2. Undisturbed(r, dnd')
    BY <2>1, SameFields
  <2> QED BY <1>1, <1>3, <2>2, UndisturbedTransitive
<1>5. CASE HandleFinished
  <2>1. \A w \in Targets : head \notin RequestsOf(w)
    BY <1>5 DEF HandleFinished, Received, RequestsOf
  <2>2. Sane(r)
    BY <1>1, <1>3, <2>1, RestSane
  <2>3. Kept(r, OutFinish(r)) /\ Kept(r, r)
    BY <2>2, OutFinishKeeps, KeptItself
  <2>4. dnd' = r \/ dnd' = OutFinish(r)
    BY <1>3, <1>5 DEF HandleFinished
  <2>5. Undisturbed(r, dnd')
    BY <2>3, <2>4, QuietUndisturbed DEF Kept
  <2> QED BY <1>1, <1>3, <2>5, UndisturbedTransitive
<1>6. CASE HandleRequest /\ From # Own
  <2>1. PICK p : p = From
    OBVIOUS
  <2>2. PICK m \in ToPeer : m \notin MailAnswers
                            /\ dnd' = [Send(r, p, m) EXCEPT !.lost = @ \/ dnd.text # dnd.drop[p]]
    BY <1>3, <1>6, <2>1 DEF HandleRequest, ToPeer, MailAnswers
  <2>3. PICK u \in Dnd : u = Send(r, p, m) /\ Undisturbed(r, u)
    BY <2>2, SendFields, SendQuiet, QuietUndisturbed
  <2>4. /\ dnd'.inbox = u.inbox /\ dnd'.mail = u.mail /\ dnd'.receives = u.receives
        /\ dnd'.from = u.from /\ dnd'.owner = u.owner
    BY <2>2, <2>3 DEF Dnd
  <2>5. Undisturbed(u, dnd')
    BY <2>4, SameFields
  <2> QED BY <1>1, <1>3, <2>3, <2>5, UndisturbedTransitive
<1>7. CASE HandlePosition
  <2>1. "Status" \in ToPeer \ MailAnswers
    BY DEF ToPeer, MailAnswers
  <2>2. PICK f : f = dnd.from
    OBVIOUS
  <2>3. dnd' = r \/ dnd' = Send(r, f, "Status")
    BY <1>3, <1>7, <2>2 DEF HandlePosition
  <2>4. Undisturbed(r, Send(r, f, "Status"))
    BY <2>1, SendQuiet, QuietUndisturbed
  <2> QED BY <1>1, <1>3, <2>3, <2>4, UndisturbedTransitive
<1> QED BY <1>4, <1>5, <1>6, <1>7 DEF EventAside

LEMMA HandleXAnswers ==
    ASSUME Sane(dnd), OneAnswer(dnd, source), HandleX
    PROVE  OneAnswer(dnd, source)'
<1> DEFINE head == Head(dnd.inbox)
<1>1. /\ dnd \in Dnd /\ dnd.inbox # <<>> /\ UNCHANGED source /\ head \in ToUs
  BY RestFields DEF Sane, HandleX, HandleStatus, HandleFinished, HandleRequest, HandleEnter,
         HandlePosition, HandleLeave, HandleDrop, HandleNotify, Received
<1>2. PICK r \in Dnd : r = Rest
  BY <1>1, RestFields
<1>3. head \in InboxAnswers => NoAnswer(r) /\ \A f \in Sources : source[f] = "dropped"
  BY <1>1, <1>2, RestAnswers
<1>4. ASSUME head \in InboxAnswers, NEW v, NoAnswer(v) \/ AtUs(v) \/ AtSource(v),
             dnd'.inbox = v.inbox, dnd'.mail = v.mail
      PROVE  OneAnswer(dnd, source)'
  <2>1. AtUs(dnd') \/ AtSource(dnd')
    BY <1>4 DEF AtUs, AtSource, NoAnswer, No, One
  <2>2. \A f \in Sources : source'[f] = "dropped"
    BY <1>1, <1>3, <1>4
  <2> QED BY <2>1, <2>2 DEF OneAnswer
<1>5. CASE EventAside
  BY <1>5, AsideUndisturbed, SameOneAnswer DEF Undisturbed
<1>6. CASE HandleEnter \/ HandleLeave
  <2>1. head \notin InboxAnswers
    BY <1>6 DEF HandleEnter, HandleLeave, Received, InboxAnswers, RequestsOf
  <2>2. dnd'.inbox = r.inbox /\ dnd'.mail = r.mail
    BY <1>2, <1>6 DEF HandleEnter, HandleLeave, Dnd
  <2>3. SameAnswers(dnd, r) /\ SameAnswers(r, dnd')
    BY <1>1, <1>2, <2>1, <2>2, RestAnswers, SameFields
  <2> QED BY <1>1, <2>3, SameOneAnswer
<1>7. CASE HandleRequest /\ From = Own
  <2>1. head \in InboxAnswers
    BY <1>1, <1>7 DEF HandleRequest, Received, InboxAnswers, RequestsOf, From
  <2>2. \A a \in {"refused", "text"} : Wire("Notify", Own, a) \in ToUs
    BY DEF Wire, ToUs
  <2>3. PICK m \in ToUs : dnd' = Post(r, m)
    BY <1>2, <1>7, <2>2 DEF HandleRequest
  <2>4. AtUs(dnd')
    BY <1>3, <2>1, <2>3, PostAnswers
  <2> QED BY <1>4, <2>1, <2>4
<1>8. CASE HandleDrop
  <2>1. head \in InboxAnswers
    BY <1>1, <1>8 DEF HandleDrop, Received, InboxAnswers
  <2>2. /\ Wire("Notify", None, "refused") \in ToUs /\ Wire("Request", Own, "") \in ToUs
        /\ "Convert" \in ToPeer
    BY DEF Wire, ToUs, ToPeer
  <2>3. dnd' = r \/ (\E m \in ToUs : dnd' = Post(r, m)) \/ dnd' = Send(r, r.owner, "Convert")
    <3>1. dnd' = r \/ dnd' = Convert(r)
      BY <1>2, <1>8 DEF HandleDrop
    <3>2. CASE r.owner \in {None, Own}
      <4>1. \E m \in ToUs : Convert(r) = Post(r, m)
        BY <2>2, <3>2, DragAssumption DEF Convert
      <4> QED BY <3>1, <4>1
    <3>3. CASE r.owner \notin {None, Own}
      BY <3>1, <3>3 DEF Convert
    <3> QED BY <3>2, <3>3
  <2>4. NoAnswer(dnd') \/ AtUs(dnd') \/ AtSource(dnd')
    BY <1>3, <2>1, <2>2, <2>3, PostAnswers, SendAnswers
  <2> QED BY <1>4, <2>1, <2>4
<1>9. CASE HandleNotify
  <2>1. head \in InboxAnswers
    BY <1>1, <1>9 DEF HandleNotify, Received, InboxAnswers
  <2>2. "Finished" \in ToPeer
    BY DEF ToPeer
  <2>3. PICK u : u = Finish(r)
    OBVIOUS
  <2>4. u = r \/ u = Send(r, r.from, "Finished")
    BY <2>3 DEF Finish
  <2>5. u \in Dnd
    BY <2>2, <2>4, SendFields
  <2>6. NoAnswer(u) \/ AtSource(u)
    BY <1>3, <2>1, <2>2, <2>4, SendAnswers
  <2>7. dnd' = r \/ (dnd'.inbox = u.inbox /\ dnd'.mail = u.mail)
    BY <1>2, <1>9, <2>3, <2>5 DEF HandleNotify, Dnd
  <2> QED BY <1>3, <1>4, <2>1, <2>6, <2>7
<1> QED BY <1>5, <1>6, <1>7, <1>8, <1>9 DEF HandleX, EventAside

LEMMA SourceAnswers ==
    ASSUME OneSource, Sane(dnd), SourceOK, OneAnswer(dnd, source),
           NEW f \in Sources, SourceDrags(f) \/ SourceReads(f)
    PROVE  OneAnswer(dnd, source)'
<1>1. dnd \in Dnd /\ f \in Peers /\ \A g \in Sources : g = f
  BY DEF Sane, Peers, OneSource
<1>2. ASSUME NEW before \in {"idle", "over", "asked", "told"}, NEW after,
             NEW type \in {"Enter", "Position", "Leave", "Drop"}, type = "Drop" => after = "dropped",
             SourceStep(f, before, after, type)
      PROVE  OneAnswer(dnd, source)'
  <2>1. PICK m \in ToUs : m = Wire(type, f, "")
    BY <1>1 DEF Wire, ToUs
  <2>2. PICK s \in Dnd : /\ dnd' = Post(s, m) /\ s.inbox = dnd.inbox /\ s.mail = dnd.mail
    <3>1. Claim(f) \in Dnd
      BY <1>1 DEF Claim, Dnd
    <3>2. PICK s \in {dnd, Claim(f)} : dnd' = Post(s, m)
      BY <1>2, <2>1 DEF SourceStep
    <3> QED BY <1>1, <3>1, <3>2 DEF Claim, Dnd
  <2>3. NoAnswer(s)
    BY <1>2, <2>2 DEF SourceStep, OneAnswer, NoAnswer
  <2>4. AtUs(dnd')
    BY <2>2, <2>3, PostAnswers
  <2>5. CASE type = "Drop"
    BY <1>1, <1>2, <2>4, <2>5 DEF SourceStep, SourceOK, OneAnswer
  <2>6. CASE type # "Drop"
    <3>1. m \notin InboxAnswers
      BY <1>2, <2>1, <2>6 DEF Wire, InboxAnswers, RequestsOf
    <3>2. SameAnswers(s, dnd')
      BY <2>2, <3>1, PostAnswers
    <3>3. NoAnswer(dnd')
      BY <2>3, <3>2 DEF SameAnswers, SameMail, NoAnswer, Peers
    <3> QED BY <2>4, <3>3 DEF OneAnswer
  <2> QED BY <2>5, <2>6
<1>3. CASE SourceDrags(f)
  BY <1>2, <1>3 DEF SourceDrags
<1>4. CASE SourceReads(f)
  <2>1. dnd.mail[f] # <<>> /\ dnd.mail[f] \in Seq(ToPeer)
    BY <1>1, <1>4, DndFields DEF SourceReads
  <2>2. PICK u \in Dnd : /\ u = ReadMail(f) /\ u.inbox = dnd.inbox
                         /\ u.mail[f] = Tail(dnd.mail[f])
                         /\ Mail(f) \notin MailAnswers => Undisturbed(dnd, u)
    <3>1. PICK u \in Dnd : /\ u = ReadMail(f) /\ u = [dnd EXCEPT !.mail = u.mail]
                           /\ u.mail[f] = Tail(dnd.mail[f])
                           /\ Mail(f) \notin MailAnswers => Quiet(dnd, u)
      BY <1>1, <2>1, ReadQuiet
    <3>2. u.inbox = dnd.inbox
      BY <1>1, <3>1 DEF Dnd
    <3> QED BY <3>1, <3>2, QuietUndisturbed
  <2>3. CASE Mail(f) = "Status"
    <3>1. SameAnswers(dnd, dnd')
      BY <1>4, <2>2, <2>3 DEF SourceReads, MailAnswers, Undisturbed
    <3>2. \A g \in Sources : source'[g] # "dropped" => source[g] # "dropped"
      BY <1>4, <2>3 DEF SourceReads, SourceOK
    <3>3. OneAnswer(dnd, source')
      BY <3>2 DEF OneAnswer
    <3> QED BY <3>1, <3>3, SameOneAnswer
  <2>4. ASSUME Mail(f) \in MailAnswers
        PROVE  source[f] = "dropped" /\ NoAnswer(u)
    <3>1. ~No(dnd.mail[f], MailAnswers)
      BY <2>1, <2>4, TakeNo DEF Mail
    <3>2. AtSource(dnd) /\ source[f] = "dropped"
      BY <3>1 DEF OneAnswer, AtUs, NoAnswer
    <3>3. No(u.mail[f], MailAnswers)
      BY <2>1, <2>2, <2>4, <3>2, TakeNo DEF Mail, AtSource
    <3> QED BY <1>1, <2>2, <3>2, <3>3 DEF AtSource, NoAnswer
  <2>5. CASE Mail(f) = "Convert"
    <3>1. \A answer \in Answers : Wire("Notify", f, answer) \in ToUs
      BY <1>1, DragAssumption DEF Wire, ToUs
    <3>2. PICK m \in ToUs : dnd' = Post(u, m) /\ UNCHANGED source
      BY <1>4, <2>2, <2>5, <3>1 DEF SourceReads
    <3>3. AtUs(dnd') /\ source[f] = "dropped"
      BY <2>4, <2>5, <3>2, PostAnswers DEF MailAnswers
    <3> QED BY <1>1, <3>2, <3>3 DEF OneAnswer
  <2>6. CASE Mail(f) = "Finished"
    <3>1. dnd' = u /\ NoAnswer(u)
      BY <1>4, <2>2, <2>4, <2>6 DEF SourceReads, MailAnswers
    <3>2. AtUs(u)
      BY <3>1 DEF NoAnswer, AtUs, No, One
    <3> QED BY <3>1, <3>2 DEF OneAnswer
  <2> QED BY <1>4, <2>3, <2>5, <2>6 DEF SourceReads
<1> QED BY <1>3, <1>4

(***************************************************************************)
(* The theorems.                                                           *)
(***************************************************************************)
LEMMA StepDInv == DInv /\ [Next]_vars => DInv'
<1> SUFFICES ASSUME DInv, [Next]_vars PROVE DInv'
  OBVIOUS
<1>1. CASE HandleInput \/ Client
  BY <1>1, DragStep DEF DInv, Kept, SourceOK
<1>2. CASE HandleX
  BY <1>2, HandleXSane DEF DInv, InputOK, InputTells, DragOK, SourceOK, user
<1>3. CASE User
  BY <1>3, UserInput DEF DInv, DragOK, SourceOK
<1>4. CASE \E w \in Targets : TargetReads(w)
  BY <1>4, TargetAnswers DEF DInv, InputOK, InputTells, DragOK, SourceOK, user
<1>5. CASE \E f \in Sources : SourceDrags(f) \/ SourceReads(f)
  BY <1>5, SourceSane DEF DInv, InputOK, InputTells, DragOK, user
<1>7. CASE \E f \in Sources : SourceReleases(f)
  BY <1>7, ReleaseKeeps DEF Kept, DInv, InputOK, InputTells, DragOK, SourceOK, user
<1>6. CASE UNCHANGED vars
  BY <1>6 DEF vars, user, DInv, InputOK, InputTells, DragOK, SourceOK
<1> QED BY <1>1, <1>2, <1>3, <1>4, <1>5, <1>6, <1>7 DEF Next

\* The invariant below holds in every behaviour.
THEOREM Inductive == Spec => []DInv
BY InitDInv, StepDInv, PTL DEF Spec

\* dnd.c's state, the seat and the messages keep their ranges, whatever is dragged
\* where and however often, and a seat that has no pointer event left to handle
\* knows which buttons are pressed.
THEOREM TypeCorrect == Spec => []TypeOK
<1>1. DInv => TypeOK
  <2>1. ASSUME InputOK, input = <<>> PROVE seat = held
    <3>1. \A b \in Buttons : No(input, AboutButton(b))
      BY <2>1, Empty
    <3> QED BY <2>1, <3>1 DEF InputOK, InputTells
  <2> QED BY <2>1 DEF DInv, Sane, InputOK, DragOK, SourceOK, TypeOK, Inputs
<1> QED BY <1>1, Inductive, PTL

\* No window is left believing that a drag hovers over it: dnd_out_leave goes with
\* every change of dnd_out_target, and only dnd_out_begin_from_source forgets one.
THEOREM TargetsLeft == Spec => []SessionsMatch
<1>1. DInv => SessionsMatch
  BY DEF DInv, Sane, Sessions, SessionsMatch
<1> QED BY <1>1, Inductive, PTL

\* The compositor owns XdndSelection while dnd_out_text can be asked for, unless a
\* source has claimed it in this drag, and not after dnd_out_finish, whichever
\* sources claim it and give it up in between.
THEOREM SelectionKept == Spec => []SelectionHeld
<1>1. DInv => SelectionHeld
  BY DEF DInv, Sane, Selection, SelectionHeld
<1> QED BY <1>1, Inductive, PTL

\* The exchange after XdndDrop never stalls: until the window has sent XdndFinished,
\* it has the drop or the text still to read or the compositor its request, so that
\* dnd_out_finish does not wait for a message that nobody is to send.
THEOREM DropAnswerComing == Spec => []DropsPending(dnd)
<1>1. DInv => DropsPending(dnd)
  BY DEF DInv, Sane
<1> QED BY <1>1, Inductive, PTL

(***************************************************************************)
(* XdndFinished.                                                           *)
(***************************************************************************)
LEMMA InitOneAnswer == Init => OneAnswer(dnd, source)
<1> SUFFICES ASSUME Init PROVE OneAnswer(dnd, source)
  OBVIOUS
<1>1. dnd.inbox = <<>> /\ dnd.mail = [w \in Peers |-> <<>>]
  BY DEF Init
<1>2. \A f \in Sources : dnd.mail[f] = <<>>
  BY <1>1 DEF Peers
<1> QED BY <1>1, <1>2, Empty DEF OneAnswer, AtUs, NoAnswer

LEMMA StepOneAnswer ==
    ASSUME OneSource
    PROVE  DInv /\ OneAnswer(dnd, source) /\ [Next]_vars => OneAnswer(dnd, source)'
<1> SUFFICES ASSUME DInv, OneAnswer(dnd, source), [Next]_vars PROVE OneAnswer(dnd, source)'
  OBVIOUS
<1>1. Sane(dnd) /\ SourceOK
  BY DEF DInv
<1>2. CASE HandleInput \/ Client
  BY <1>1, <1>2, DragStep, OthersUndisturbed, SameOneAnswer DEF Undisturbed
<1>3. CASE HandleX
  BY <1>1, <1>3, HandleXAnswers
<1>4. CASE User \/ UNCHANGED vars
  <2>1. UNCHANGED <<dnd, source>>
    BY <1>4, UserInput DEF DInv, vars
  <2> QED BY <2>1
<1>5. CASE \E w \in Targets : TargetReads(w)
  <2>1. UNCHANGED source
    BY <1>5 DEF TargetReads
  <2> QED BY <1>1, <1>5, <2>1, OthersUndisturbed, SameOneAnswer DEF Undisturbed
<1>6. CASE \E f \in Sources : SourceDrags(f) \/ SourceReads(f)
  BY <1>1, <1>6, SourceAnswers
<1>7. CASE \E f \in Sources : SourceReleases(f)
  <2>1. Undisturbed(dnd, dnd') /\ UNCHANGED source
    BY <1>1, <1>7, ReleaseKeeps, QuietUndisturbed DEF Kept
  <2> QED BY <1>1, <2>1, SameOneAnswer DEF Undisturbed
<1> QED BY <1>2, <1>3, <1>4, <1>5, <1>6, <1>7 DEF Next

\* Of a single source, dnd_handle_selection_notify sends XdndFinished only after it
\* has dropped and never while it drags: the event that calls it answers that drop's
\* conversion, whichever way it went.  It does not hold of two sources, where the
\* second one's XdndEnter overwrites dnd_in_source under the first one's drop.
THEOREM FinishedTold ==
    ASSUME OneSource
    PROVE  Spec => []FinishedToDropper
<1>1. Spec => []OneAnswer(dnd, source)
  BY InitOneAnswer, StepOneAnswer, Inductive, PTL DEF Spec
<1>2. DInv /\ OneAnswer(dnd, source) => FinishedToDropper
  <2> SUFFICES ASSUME DInv, OneAnswer(dnd, source), NEW f \in Sources,
                      NEW i \in DOMAIN dnd.mail[f], dnd.mail[f][i] = "Finished"
               PROVE  source[f] = "dropped"
    BY DEF FinishedToDropper
  <2>1. dnd.mail[f] \in Seq(ToPeer) /\ DOMAIN dnd.mail[f] = 1..Len(dnd.mail[f])
    BY DndFields DEF DInv, Sane, Peers
  <2>2. ~No(dnd.mail[f], MailAnswers)
    BY <2>1 DEF No, MailAnswers
  <2> QED BY <2>2 DEF OneAnswer, NoAnswer
<1> QED BY <1>1, <1>2, Inductive, PTL

(***************************************************************************)
(* A source that has dropped is not forgotten.                             *)
(***************************************************************************)
\* XdndEnter is the newest that was said, or has been handled.
InSession(s) == /\ No(s.inbox, EnterLeave) => s.receives
                /\ NewestIn(s.inbox, EnterLeave, Enters)

\* A drop to which the compositor has not yet said XdndFinished
Unfinished(s, f) == ~No(s.inbox, InboxAnswers) \/ ~No(s.mail[f], {"Convert"})

Attended(s, does, f) ==
    /\ does[f] \in {"over", "asked", "told"} => InSession(s)
    /\ does[f] = "dropped" => /\ Unfinished(s, f) => InSession(s)
                              /\ Followed(s.inbox, EnterLeave, Drops)
                              /\ s.owner = f => ~NoAnswer(s) /\ No(s.inbox, Refusals)

Attends(s, does) == /\ s.receives => s.from # None
                    /\ \A f \in Sources : Attended(s, does, f)

\* The safety half of InboundAnswered
AnswerPending ==
    \A f \in Sources : source[f] = "dropped" /\ dnd.owner = f => ~NoAnswer(dnd)

LEMMA InitAttends == Init => Attends(dnd, source)
BY DEF Init, Attends, Attended

LEMMA UndisturbedAttends ==
    ASSUME NEW s, NEW v, NEW does, Undisturbed(s, v), Attends(s, does)
    PROVE  Attends(v, does)
<1>1. NoAnswer(v) <=> NoAnswer(s)
  BY DEF Undisturbed, SameAnswers, SameMail, NoAnswer, Peers
<1>2. \A f \in Sources : Unfinished(v, f) <=> Unfinished(s, f)
  BY DEF Undisturbed, SameAnswers, SameMail, Unfinished, Peers
<1>3. InSession(s) => InSession(v)
  BY DEF Undisturbed, InSession
<1>4. /\ Followed(s.inbox, EnterLeave, Drops) => Followed(v.inbox, EnterLeave, Drops)
      /\ No(s.inbox, Refusals) => No(v.inbox, Refusals)
      /\ \A f \in Sources : v.owner = f => s.owner = f
      /\ v.receives => v.from # None
  BY DEF Undisturbed, Attends
<1> QED BY <1>1, <1>2, <1>3, <1>4 DEF Attends, Attended

\* Where a drop's only answer is taken from the inbox, its XdndEnter has been handled.
LEMMA AnswerTaken ==
    ASSUME dnd \in Dnd, dnd.inbox # <<>>, OneAnswer(dnd, source), Attends(dnd, source),
           Head(dnd.inbox) \in InboxAnswers, NEW f \in Sources
    PROVE  dnd.receives /\ No(Tail(dnd.inbox), EnterLeave)
<1> DEFINE q == dnd.inbox
           t == Tail(dnd.inbox)
<1>1. q \in Seq(ToUs) /\ q # <<>>
  BY DndFields
<1>2. source[f] = "dropped" /\ No(t, InboxAnswers)
  BY RestAnswers, RestFields DEF NoAnswer
<1>3. ~No(q, InboxAnswers)
  BY <1>1, TakeNo
<1>4. InSession(dnd) /\ Followed(q, EnterLeave, Drops)
  BY <1>2, <1>3 DEF Attends, Attended, Unfinished
<1>5. Followed(t, EnterLeave, Drops)
  BY <1>1, <1>4, TakeAny
<1>6. No(t, Drops)
  BY <1>2 DEF No, Drops, InboxAnswers
<1>7. No(t, EnterLeave)
  BY <1>5, <1>6, NoneFollowed
<1>8. No(q, EnterLeave)
  BY <1>1, <1>7, TakeNo DEF InboxAnswers, EnterLeave, RequestsOf
<1> QED BY <1>4, <1>7, <1>8 DEF InSession

LEMMA ConvertFields ==
    ASSUME NEW s \in Dnd
    PROVE  LET v == Convert(s)
           IN /\ v.receives = s.receives /\ v.from = s.from /\ v.owner = s.owner
              /\ \/ /\ s.owner \notin Sources
                    /\ \E m \in ToUs \ EnterLeave : v.inbox = Append(s.inbox, m)
                 \/ /\ s.owner \in Sources /\ v.inbox = s.inbox
                    /\ v.mail[s.owner] = Append(s.mail[s.owner], "Convert")
<1> DEFINE v == Convert(s)
<1>1. CASE s.owner \in {None, Own}
  <2>1. /\ Wire("Notify", None, "refused") \in ToUs \ EnterLeave
        /\ Wire("Request", Own, "") \in ToUs \ EnterLeave
    BY DEF Wire, ToUs, EnterLeave
  <2>2. PICK m \in ToUs \ EnterLeave : v = Post(s, m)
    BY <1>1, <2>1, DragAssumption DEF Convert
  <2>3. v = [s EXCEPT !.inbox = Append(s.inbox, m)] /\ v.inbox = Append(s.inbox, m)
    BY <2>2, PostFields
  <2> HIDE DEF v
  <2>4. v.receives = s.receives /\ v.from = s.from /\ v.owner = s.owner
    BY <2>3 DEF Dnd
  <2> QED BY <1>1, <2>3, <2>4, DragAssumption DEF v
<1>2. CASE s.owner \notin {None, Own}
  <2>1. PICK f \in Sources : f = s.owner
    BY <1>2, DndFields
  <2>2. PICK m \in ToPeer : m = "Convert" /\ v = Send(s, f, m)
    BY <1>2, <2>1 DEF Convert, ToPeer
  <2> HIDE DEF v
  <2>3. v = [s EXCEPT !.mail = v.mail] /\ v.mail[f] = Append(s.mail[f], "Convert")
    <3>1. f \in Peers
      BY DEF Peers
    <3>2. /\ v = [s EXCEPT !.mail = v.mail]
          /\ \A w \in Peers : v.mail[w] = IF w = f THEN Append(s.mail[w], m) ELSE s.mail[w]
      BY <2>2, SendFields
    <3> QED BY <2>2, <3>1, <3>2
  <2>4. v.receives = s.receives /\ v.from = s.from /\ v.owner = s.owner /\ v.inbox = s.inbox
    BY <2>3 DEF Dnd
  <2> QED BY <2>1, <2>3, <2>4 DEF v
<1> QED BY <1>1, <1>2

LEMMA HandleXAttends ==
    ASSUME OneSource, Sane(dnd), OneAnswer(dnd, source), Attends(dnd, source), HandleX
    PROVE  Attends(dnd, source)'
<1> DEFINE head == Head(dnd.inbox)
<1>1. /\ dnd \in Dnd /\ dnd.inbox # <<>> /\ UNCHANGED source /\ head \in ToUs
      /\ dnd.inbox \in Seq(ToUs) /\ Tail(dnd.inbox) \in Seq(ToUs)
  BY RestFields DEF Sane, HandleX, HandleStatus, HandleFinished, HandleRequest, HandleEnter,
         HandlePosition, HandleLeave, HandleDrop, HandleNotify, Received
<1>2. PICK r \in Dnd : r = Rest
  BY <1>1, RestFields
<1>3. /\ r.inbox = Tail(dnd.inbox) /\ r.mail = dnd.mail /\ r.receives = dnd.receives
      /\ r.from = dnd.from /\ r.owner = dnd.owner
      /\ r.from \in Sources \cup {None} /\ r.owner \in Sources \cup {None, Own}
      /\ r.inbox \in Seq(ToUs) /\ \A w \in Peers : r.mail[w] \in Seq(ToPeer)
  BY <1>1, <1>2, RestFields, DndFields DEF Dnd
<1>4. CASE EventAside
  BY <1>1, <1>4, AsideUndisturbed, UndisturbedAttends
<1>5. CASE HandleEnter \/ HandleLeave
  <2>1. head \in EnterLeave /\ head \notin InboxAnswers /\ (HandleLeave => head \notin Enters)
    BY <1>1, <1>5 DEF HandleEnter, HandleLeave, Received, InboxAnswers, RequestsOf, EnterLeave, Enters
  <2>2. /\ dnd'.inbox = r.inbox /\ dnd'.mail = r.mail /\ dnd'.owner = r.owner
        /\ dnd'.receives <=> HandleEnter
        /\ HandleEnter => dnd'.from = From
    BY <1>1, <1>2, <1>5 DEF HandleEnter, HandleLeave, Received, Dnd
  <2>3. SameAnswers(dnd, r) /\ SameAnswers(r, dnd')
    BY <1>1, <1>2, <2>1, <2>2, RestAnswers, SameFields
  <2>4. /\ NoAnswer(dnd') <=> NoAnswer(dnd)
        /\ \A f \in Sources : Unfinished(dnd', f) <=> Unfinished(dnd, f)
    BY <2>3 DEF SameAnswers, SameMail, NoAnswer, Unfinished, Peers
  <2>5. InSession(dnd) => InSession(dnd')
    <3>1. NewestIn(dnd.inbox, EnterLeave, Enters) => NewestIn(dnd'.inbox, EnterLeave, Enters)
      BY <1>1, <1>3, <2>2, TakeAny
    <3>2. NewestIn(dnd.inbox, EnterLeave, Enters) /\ No(dnd'.inbox, EnterLeave) => head \in Enters
      BY <1>1, <1>3, <2>1, <2>2, TakeAny
    <3> QED BY <1>5, <2>1, <2>2, <3>1, <3>2 DEF InSession
  <2>6. /\ Followed(dnd.inbox, EnterLeave, Drops) => Followed(dnd'.inbox, EnterLeave, Drops)
        /\ No(dnd.inbox, Refusals) => No(dnd'.inbox, Refusals)
    BY <1>1, <1>3, <2>2, TakeAny, TakeNo
  <2>7. HandleEnter => From # None
    <3>1. head \notin Unsigned
      BY <1>1, TakeNo DEF Sane
    <3> QED BY <1>1, <3>1, DragAssumption DEF HandleEnter, Received, Unsigned, From
  <2> QED BY <1>1, <1>3, <2>2, <2>4, <2>5, <2>6, <2>7 DEF Attends, Attended
\* The answer is taken; what is left of the inbox says nothing of the session.
<1>6. ASSUME head \in InboxAnswers, NEW f \in Sources
      PROVE  /\ source'[f] = "dropped" /\ dnd.receives /\ dnd.from # None
             /\ No(r.inbox, EnterLeave) /\ NoAnswer(r)
             /\ dnd.owner = f => head \notin Refusals
             /\ No(r.inbox, Refusals)
  <2>1. NoAnswer(r) /\ source[f] = "dropped"
    BY <1>1, <1>2, <1>6, RestAnswers
  <2>2. dnd.receives /\ No(r.inbox, EnterLeave)
    BY <1>1, <1>3, <1>6, AnswerTaken
  <2>3. dnd.owner = f => head \notin Refusals
    BY <1>1, <2>1, TakeNo DEF Attends, Attended
  <2>4. No(r.inbox, Refusals)
    BY <2>1 DEF NoAnswer, No, Refusals, InboxAnswers
  <2> QED BY <1>1, <2>1, <2>2, <2>3, <2>4 DEF Attends
<1>7. CASE HandleRequest /\ From = Own
  <2>1. head \in InboxAnswers /\ head \in Refusals
    BY <1>1, <1>7 DEF HandleRequest, Received, InboxAnswers, RequestsOf, From, Refusals
  <2>2. \A a \in {"refused", "text"} : Wire("Notify", Own, a) \in ToUs \ EnterLeave
    BY DEF Wire, ToUs, EnterLeave
  <2>3. PICK m \in ToUs \ EnterLeave : dnd' = Post(r, m)
    BY <1>2, <1>7, <2>2 DEF HandleRequest
  <2>4. dnd' = [r EXCEPT !.inbox = Append(r.inbox, m)] /\ dnd'.inbox = Append(r.inbox, m)
    BY <2>3, PostFields
  <2>5. dnd'.receives = r.receives /\ dnd'.from = r.from /\ dnd'.owner = r.owner
    BY <2>4 DEF Dnd
  <2>6. ASSUME NEW f \in Sources PROVE Attended(dnd', source', f)
    <3>1. No(r.inbox, EnterLeave) /\ r.inbox \in Seq(ToUs)
      BY <1>3, <1>6, <2>1
    <3>2. No(dnd'.inbox, EnterLeave)
      BY <2>4, <3>1, AppendNo
    <3>3. InSession(dnd') /\ Followed(dnd'.inbox, EnterLeave, Drops)
      BY <1>3, <1>6, <2>1, <2>5, <3>2 DEF InSession, NewestIn, Followed, No
    <3>4. dnd'.owner # f
      BY <1>3, <1>6, <2>1, <2>5
    <3> QED BY <1>6, <2>1, <3>3, <3>4 DEF Attended
  <2> QED BY <1>3, <2>5, <2>6 DEF Attends
<1>8. CASE HandleDrop
  <2>1. head \in InboxAnswers
    BY <1>1, <1>8 DEF HandleDrop, Received, InboxAnswers
  <2>2. dnd' = r \/ dnd' = Convert(r)
    BY <1>2, <1>8 DEF HandleDrop
  <2>3. dnd'.receives = r.receives /\ dnd'.from = r.from /\ dnd'.owner = r.owner
    BY <2>2, ConvertFields
  <2>4. ASSUME NEW f \in Sources PROVE Attended(dnd', source', f)
    <3>1. dnd' = Convert(r)
      BY <1>2, <1>6, <1>8, <2>1 DEF HandleDrop
    <3>2. No(r.inbox, EnterLeave) /\ r.inbox \in Seq(ToUs) /\ f \in Peers
      BY <1>3, <1>6, <2>1 DEF Peers
    <3>3. \/ r.owner # f /\ \E m \in ToUs \ EnterLeave : dnd'.inbox = Append(r.inbox, m)
          \/ dnd'.inbox = r.inbox /\ dnd'.mail[f] = Append(r.mail[f], "Convert")
      BY <3>1, ConvertFields DEF OneSource
    <3>4. No(dnd'.inbox, EnterLeave)
      <4>1. \A m \in ToUs \ EnterLeave : No(Append(r.inbox, m), EnterLeave)
        BY <3>2, AppendNo
      <4> QED BY <3>2, <3>3, <4>1
    <3>5. InSession(dnd') /\ Followed(dnd'.inbox, EnterLeave, Drops)
      BY <1>3, <1>6, <2>1, <2>3, <3>4 DEF InSession, NewestIn, Followed, No
    <3>6. ASSUME dnd'.owner = f PROVE ~NoAnswer(dnd') /\ No(dnd'.inbox, Refusals)
      <4>1. dnd'.inbox = r.inbox /\ dnd'.mail[f] = Append(r.mail[f], "Convert")
        BY <2>3, <3>3, <3>6
      <4>2. "Convert" \in ToPeer /\ "Convert" \in MailAnswers /\ r.mail[f] \in Seq(ToPeer)
        BY <1>3, <3>2 DEF ToPeer, MailAnswers
      <4>3. ~No(dnd'.mail[f], MailAnswers)
        BY <4>1, <4>2, AppendNo
      <4> QED BY <1>6, <2>1, <4>1, <4>3 DEF NoAnswer
    <3> QED BY <1>6, <2>1, <3>5, <3>6 DEF Attended
  <2> QED BY <1>3, <2>3, <2>4 DEF Attends
<1>9. CASE HandleNotify
  <2>1. head \in InboxAnswers /\ head.type = "Notify"
    BY <1>1, <1>9 DEF HandleNotify, Received, InboxAnswers
  <2>2. PICK u : u = Finish(r)
    OBVIOUS
  <2>3. u = r \/ u = Send(r, r.from, "Finished")
    BY <2>2 DEF Finish
  <2>4. PICK w : w = r.from
    OBVIOUS
  <2>5. u \in Dnd /\ (u = r \/ u = [r EXCEPT !.mail = u.mail])
    BY <2>3, <2>4, SendFields DEF ToPeer
  <2>6. u.inbox = r.inbox /\ u.owner = r.owner
    BY <2>5 DEF Dnd
  <2>7. \/ dnd' = r
        \/ /\ dnd'.inbox = r.inbox /\ dnd'.mail = u.mail /\ dnd'.owner = r.owner
           /\ dnd'.receives = FALSE
    BY <1>2, <1>9, <2>2, <2>5, <2>6 DEF HandleNotify, Dnd
  <2>8. ASSUME NEW f \in Sources PROVE Attended(dnd', source', f)
    <3>1. NoAnswer(r) /\ No(r.inbox, EnterLeave) /\ No(r.inbox, Refusals) /\ f \in Peers
      BY <1>6, <2>1 DEF Peers
    <3>2. dnd'.inbox = r.inbox /\ dnd'.owner = dnd.owner
      BY <1>3, <2>7
    <3>3. r.from = f
      BY <1>3, <1>6, <2>1 DEF OneSource
    <3>4. PICK m \in ToPeer : m \in MailAnswers \ {"Convert"} /\ u = Send(r, f, m)
      BY <1>3, <1>6, <2>1, <2>2, <3>3 DEF Finish, ToPeer, MailAnswers
    <3>5. r.mail[f] \in Seq(ToPeer)
      BY <1>3, <3>1
    <3>6. u.mail[f] = Append(r.mail[f], m)
      <4>1. \A x \in Peers : u.mail[x] = IF x = f THEN Append(r.mail[x], m) ELSE r.mail[x]
        BY <3>4, SendFields
      <4> QED BY <3>1, <4>1
    <3>7. No(r.mail[f], {"Convert"})
      BY <3>1 DEF NoAnswer, No, MailAnswers
    <3>8. /\ No(u.mail[f], {"Convert"}) /\ ~No(u.mail[f], MailAnswers)
      BY <3>4, <3>5, <3>6, <3>7, AppendNo
    <3>9. ~Unfinished(dnd', f)
      BY <2>7, <3>1, <3>7, <3>8 DEF Unfinished, NoAnswer
    <3>10. ASSUME dnd'.owner = f PROVE ~NoAnswer(dnd')
      <4>1. head \notin Refusals
        BY <1>6, <2>1, <3>2, <3>10
      <4>2. head.answer # "refused"
        BY <1>1, <2>1, <4>1 DEF Refusals
      <4>3. dnd'.mail = u.mail
        BY <1>2, <1>9, <2>2, <2>5, <4>2 DEF HandleNotify, Dnd
      <4> QED BY <3>8, <4>3 DEF NoAnswer
    <3>11. Followed(dnd'.inbox, EnterLeave, Drops)
      BY <3>1, <3>2 DEF Followed, No
    <3> QED BY <1>6, <2>1, <3>1, <3>2, <3>9, <3>10, <3>11 DEF Attended
  <2>9. dnd'.receives => dnd'.from # None
    BY <1>3, <2>7 DEF Attends
  <2> QED BY <2>8, <2>9 DEF Attends
<1> QED BY <1>4, <1>5, <1>7, <1>8, <1>9 DEF HandleX, EventAside

\* A source enters before it asks, and drops behind its last XdndEnter.
LEMMA SourceAttends ==
    ASSUME OneSource, "refused" \notin Answers, Sane(dnd), SourceOK, OneAnswer(dnd, source),
           Attends(dnd, source), NEW f \in Sources, SourceDrags(f) \/ SourceReads(f)
    PROVE  Attends(dnd, source)'
<1>1. dnd \in Dnd /\ f \in Peers /\ \A g \in Sources : g = f
  BY DEF Sane, Peers, OneSource
<1>2. PICK q \in Seq(ToUs) : q = dnd.inbox
  BY <1>1, DndFields
<1>3. ASSUME NEW before \in {"idle", "over", "asked", "told"},
             NEW after \in {"idle", "over", "asked", "dropped"},
             NEW type \in {"Enter", "Position", "Leave", "Drop"},
             before = "idle" <=> type = "Enter", after = "over" <=> type = "Enter",
             after = "idle" <=> type = "Leave", after = "dropped" <=> type = "Drop",
             SourceStep(f, before, after, type)
      PROVE  Attends(dnd, source)'
  <2>1. PICK m \in ToUs : m = Wire(type, f, "") /\ m.type = type /\ m.from = f
    <3>1. Wire(type, f, "") \in ToUs
      BY <1>1 DEF Wire, ToUs
    <3> QED BY <3>1 DEF Wire
  <2>2. PICK s \in Dnd : /\ dnd' = Post(s, m) /\ s.inbox = dnd.inbox /\ s.mail = dnd.mail
                         /\ s.receives = dnd.receives /\ s.from = dnd.from
    <3>1. Claim(f) \in Dnd
      BY <1>1 DEF Claim, Dnd
    <3>2. PICK s \in {dnd, Claim(f)} : dnd' = Post(s, m)
      BY <1>3, <2>1 DEF SourceStep
    <3> QED BY <1>1, <3>1, <3>2 DEF Claim, Dnd
  <2>3. dnd'.inbox = Append(q, m)
    BY <1>2, <2>2, PostFields
  <2>4. dnd'.receives = dnd.receives /\ dnd'.from = dnd.from /\ dnd'.mail = dnd.mail
    <3>1. dnd' = [s EXCEPT !.inbox = Append(s.inbox, m)]
      BY <2>2, PostFields
    <3> QED BY <2>2, <3>1 DEF Dnd
  <2>5. source[f] = before /\ source'[f] = after
    BY <1>3 DEF SourceStep, SourceOK
  <2>6. NoAnswer(dnd)
    BY <1>3, <2>5 DEF OneAnswer
  <2>7. type # "Enter" => InSession(dnd)
    BY <1>3, <2>5 DEF Attends, Attended
  <2>8. after # "idle" => InSession(dnd')
    <3>1. CASE type = "Enter"
      <4>1. m \in EnterLeave \cap Enters
        BY <2>1, <3>1 DEF EnterLeave, Enters
      <4>2. ~No(dnd'.inbox, EnterLeave) /\ NewestIn(dnd'.inbox, EnterLeave, Enters)
        BY <2>3, <4>1, AppendAny
      <4> QED BY <4>2 DEF InSession
    <3>2. CASE type \in {"Position", "Drop"}
      <4>1. m \notin EnterLeave
        BY <2>1, <3>2 DEF EnterLeave
      <4>2. /\ No(dnd'.inbox, EnterLeave) <=> No(q, EnterLeave)
            /\ NewestIn(q, EnterLeave, Enters) => NewestIn(dnd'.inbox, EnterLeave, Enters)
        BY <2>3, <4>1, AppendAny
      <4> QED BY <1>2, <2>4, <2>7, <3>2, <4>2 DEF InSession
    <3> QED BY <1>3, <3>1, <3>2
  <2>9. CASE type = "Drop"
    <3>1. m \in Drops \ EnterLeave /\ m \in InboxAnswers /\ m \notin Refusals
      BY <2>1, <2>9 DEF Drops, EnterLeave, InboxAnswers, Refusals, RequestsOf
    <3>2. Followed(dnd'.inbox, EnterLeave, Drops)
      BY <2>3, <3>1, AppendAny
    <3>3. No(q, Refusals)
      BY <1>2, <2>6 DEF NoAnswer, No, Refusals, InboxAnswers
    <3>4. No(dnd'.inbox, Refusals) /\ ~No(dnd'.inbox, InboxAnswers)
      BY <2>3, <3>1, <3>3, AppendNo
    <3> QED BY <1>1, <1>3, <2>4, <2>5, <2>8, <2>9, <3>2, <3>4 DEF Attends, Attended, NoAnswer
  <2>10. CASE type # "Drop"
    BY <1>1, <1>3, <2>4, <2>5, <2>8, <2>10 DEF Attends, Attended
  <2> QED BY <2>9, <2>10
<1>4. CASE SourceDrags(f)
  BY <1>3, <1>4 DEF SourceDrags
<1>5. CASE SourceReads(f)
  <2>1. dnd.mail[f] # <<>> /\ dnd.mail[f] \in Seq(ToPeer)
    BY <1>1, <1>5, DndFields DEF SourceReads
  <2>2. PICK u \in Dnd : /\ u = ReadMail(f) /\ u.inbox = dnd.inbox /\ u.owner = dnd.owner
                         /\ u.receives = dnd.receives /\ u.from = dnd.from
                         /\ Mail(f) \notin MailAnswers => Undisturbed(dnd, u)
    <3>1. PICK u \in Dnd : /\ u = ReadMail(f) /\ u = [dnd EXCEPT !.mail = u.mail]
                           /\ Mail(f) \notin MailAnswers => Quiet(dnd, u)
      BY <1>1, <2>1, ReadQuiet
    <3>2. /\ u.inbox = dnd.inbox /\ u.owner = dnd.owner
          /\ u.receives = dnd.receives /\ u.from = dnd.from
      BY <1>1, <3>1 DEF Dnd
    <3> QED BY <3>1, <3>2, QuietUndisturbed
  <2>3. CASE Mail(f) = "Status"
    <3>1. Undisturbed(dnd, dnd')
      BY <1>5, <2>2, <2>3 DEF SourceReads, MailAnswers
    <3>2. Attends(dnd, source')
      <4>1. source' = [source EXCEPT ![f] = IF @ = "asked" THEN "told" ELSE @]
        BY <1>5, <2>3 DEF SourceReads
      <4>2. \/ source'[f] = source[f]
            \/ source'[f] \in {"over", "asked", "told"} /\ source[f] \in {"over", "asked", "told"}
        BY <4>1 DEF SourceOK
      <4> QED BY <1>1, <4>2 DEF Attends, Attended
    <3> QED BY <3>1, <3>2, UndisturbedAttends
  <2>4. CASE Mail(f) = "Convert"
    <3>1. \A answer \in Answers : Wire("Notify", f, answer) \in ToUs \ (EnterLeave \cup Refusals)
      BY <1>1, DragAssumption DEF Wire, ToUs, EnterLeave, Refusals, RequestsOf
    <3>2. PICK m \in ToUs : /\ dnd' = Post(u, m) /\ UNCHANGED source
                            /\ m \notin EnterLeave \cup Refusals /\ m.type = "Notify"
      <4>1. PICK answer \in Answers : dnd' = Post(u, Wire("Notify", f, answer))
        BY <1>5, <2>2, <2>4 DEF SourceReads
      <4>2. Wire("Notify", f, answer).type = "Notify"
        BY DEF Wire
      <4> QED BY <1>5, <2>4, <3>1, <4>1, <4>2 DEF SourceReads
    <3>3. dnd'.inbox = Append(q, m)
      BY <1>2, <2>2, <3>2, PostFields
    <3>4. dnd'.receives = dnd.receives /\ dnd'.from = dnd.from /\ dnd'.owner = dnd.owner
      <4>1. dnd' = [u EXCEPT !.inbox = Append(u.inbox, m)]
        BY <3>2, PostFields
      <4> QED BY <2>2, <4>1 DEF Dnd
    <3>5. ~No(dnd.mail[f], {"Convert"}) /\ ~No(dnd.mail[f], MailAnswers)
      BY <2>1, <2>4, TakeNo DEF Mail, MailAnswers
    <3>6. source[f] = "dropped"
      BY <3>5 DEF OneAnswer, NoAnswer
    <3>7. InSession(dnd) /\ Followed(dnd.inbox, EnterLeave, Drops)
      BY <3>5, <3>6 DEF Attends, Attended, Unfinished
    <3>8. InSession(dnd') /\ Followed(dnd'.inbox, EnterLeave, Drops)
      <4>1. /\ No(dnd'.inbox, EnterLeave) <=> No(q, EnterLeave)
            /\ NewestIn(q, EnterLeave, Enters) => NewestIn(dnd'.inbox, EnterLeave, Enters)
            /\ Followed(q, EnterLeave, Drops) => Followed(dnd'.inbox, EnterLeave, Drops)
        BY <3>2, <3>3, AppendAny
      <4> QED BY <1>2, <3>4, <3>7, <4>1 DEF InSession
    <3>9. /\ No(q, Refusals) => No(dnd'.inbox, Refusals)
          /\ ~No(dnd'.inbox, InboxAnswers)
      <4>1. m \in InboxAnswers
        BY <3>2 DEF InboxAnswers
      <4> QED BY <3>2, <3>3, <4>1, AppendNo
    <3> QED BY <1>1, <1>2, <3>2, <3>4, <3>6, <3>8, <3>9 DEF Attends, Attended, NoAnswer
  <2>5. CASE Mail(f) = "Finished"
    <3>1. dnd' = u /\ source'[f] = "idle"
      BY <1>5, <2>2, <2>5 DEF SourceReads, SourceOK
    <3> QED BY <1>1, <2>2, <3>1 DEF Attends, Attended
  <2> QED BY <1>5, <2>3, <2>4, <2>5 DEF SourceReads
<1> QED BY <1>4, <1>5

LEMMA StepAttends ==
    ASSUME OneSource, "refused" \notin Answers
    PROVE  /\ DInv /\ OneAnswer(dnd, source) /\ Attends(dnd, source) /\ [Next]_vars
           => Attends(dnd, source)'
<1> SUFFICES ASSUME DInv, OneAnswer(dnd, source), Attends(dnd, source), [Next]_vars
             PROVE  Attends(dnd, source)'
  OBVIOUS
<1>1. Sane(dnd) /\ SourceOK
  BY DEF DInv
<1>2. CASE HandleInput \/ Client
  <2>1. UNCHANGED source
    BY <1>2, DragStep
  <2> QED BY <1>1, <1>2, <2>1, DragStep, OthersUndisturbed, UndisturbedAttends
<1>3. CASE HandleX
  BY <1>1, <1>3, HandleXAttends
<1>4. CASE User \/ UNCHANGED vars
  <2>1. UNCHANGED <<dnd, source>>
    BY <1>4, UserInput DEF DInv, vars
  <2> QED BY <2>1
<1>5. CASE \E w \in Targets : TargetReads(w)
  <2>1. UNCHANGED source
    BY <1>5 DEF TargetReads
  <2> QED BY <1>1, <1>5, <2>1, OthersUndisturbed, UndisturbedAttends
<1>6. CASE \E f \in Sources : SourceDrags(f) \/ SourceReads(f)
  BY <1>1, <1>6, SourceAttends
<1>7. CASE \E f \in Sources : SourceReleases(f)
  <2>1. Undisturbed(dnd, dnd') /\ UNCHANGED source
    BY <1>1, <1>7, ReleaseKeeps, QuietUndisturbed DEF Kept
  <2> QED BY <1>1, <2>1, UndisturbedAttends
<1> QED BY <1>2, <1>3, <1>4, <1>5, <1>6, <1>7 DEF Next

\* A source that has dropped, holds XdndSelection and can give the text has an answer
\* on its way for as long as it waits: its drop, the conversion, the text or
\* XdndFinished.  dnd_handle_client_message never drops the thread, because dnd_in_active
\* and dnd_in_source stand from XdndEnter to the SelectionNotify that answers the drop.
THEOREM DropperAnswered ==
    ASSUME OneSource, "refused" \notin Answers
    PROVE  Spec => []AnswerPending
<1>1. Spec => []OneAnswer(dnd, source)
  BY InitOneAnswer, StepOneAnswer, Inductive, PTL DEF Spec
<1>2. Spec => []Attends(dnd, source)
  BY <1>1, InitAttends, StepAttends, Inductive, PTL DEF Spec
<1>3. Attends(dnd, source) => AnswerPending
  BY DEF Attends, Attended, AnswerPending
<1> QED BY <1>2, <1>3, PTL
====
