----------------------- MODULE SizeNegotiationProofs -----------------------
(***************************************************************************)
(* Safety of SizeNegotiation for every set of client and host sizes, every *)
(* scale, either decoration mode and any number of configures in flight.   *)
(*                                                                         *)
(* The handlers are functions on the record `win', so each has a lemma of  *)
(* its own that says what it keeps; the proof of a step then names the     *)
(* handlers that the action calls.                                         *)
(***************************************************************************)
EXTENDS SizeNegotiation, Integers, SequenceTheorems, TLAPS

(***************************************************************************)
(* Arithmetic of sizes.                                                    *)
(***************************************************************************)
\* Unscaling an output size gives a logical size of at least 1x1 and scaling
\* gives an output size: what wlx_unscale_size and wlx_scale_size clamp.
LEMMA ScaledSizes ==
    ASSUME NEW s \in Size
    PROVE  /\ Unscale(s) \in Size /\ Positive(Unscale(s))
           /\ Scale(s) \in Size /\ Positive(Scale(s))
<1> DEFINE L(n, d) == (2 * n + d) \div (2 * d)
<1>1. \A n \in Nat, d \in Nat \ {0} : L(n, d) \in Int
  <2> SUFFICES ASSUME NEW n \in Nat, NEW d \in Nat \ {0} PROVE L(n, d) \in Int
    OBVIOUS
  <2>1. 2 * d \in Nat \ {0} /\ 2 * n + d \in Int
    OBVIOUS
  <2> QED BY <2>1
<1>2. \A n \in Nat, d \in Nat \ {0} :
        AtLeastOne(Lround(n, d)) \in Nat /\ AtLeastOne(Lround(n, d)) > 0
  BY <1>1 DEF AtLeastOne, Lround
<1>3. \A v \in Nat : v * ScaleNum \in Nat /\ v * ScaleDen \in Nat
  BY ScaleAssumption
<1>4. s[1] \in Nat /\ s[2] \in Nat
  BY DEF Size
<1> QED BY <1>2, <1>3, <1>4, ScaleAssumption
        DEF Unscale, Scale, UnscaleLength, ScaleLength, Size, Positive

\* The quotient of \div.
LEMMA DivBounds ==
    ASSUME NEW a \in Int, NEW b \in Nat \ {0}
    PROVE  a \div b \in Int /\ b * (a \div b) <= a /\ a < b * (a \div b) + b
OBVIOUS

\* lround is off by at most one half.
LEMMA LroundBounds ==
    ASSUME NEW n \in Nat, NEW d \in Nat \ {0}
    PROVE  LET q == Lround(n, d)
           IN q \in Int /\ 2 * (d * q) <= 2 * n + d /\ 2 * n < 2 * (d * q) + d
<1>1. 2 * d \in Nat \ {0} /\ 2 * n + d \in Int
  OBVIOUS
<1>2. PICK q \in Int : q = Lround(n, d) /\ (2 * d) * q <= 2 * n + d /\ 2 * n + d < (2 * d) * q + 2 * d
  BY <1>1, DivBounds DEF Lround
<1>3. (2 * d) * q = 2 * (d * q) /\ d * q \in Int
  OBVIOUS
<1> QED BY <1>2, <1>3


\* How far a multiple of d lies from 0.
LEMMA Multiples ==
    ASSUME NEW d \in Nat \ {0}, NEW k \in Int
    PROVE  /\ d * k \in Int /\ 2 * (d * k) # d
           /\ d * k > 0 => k >= 1
           /\ d * k > -d => k >= 0
           /\ d * k > -(2 * d) => k >= -1
           /\ d * k < d => k <= 0
           /\ d * k < 2 * d => k <= 1
OBVIOUS

\* From 1 upwards, scaling loses nothing: a size that was fitted to the client
\* is unscaled to the client's own.
LEMMA ScaledBack ==
    ASSUME ScaleNum >= ScaleDen, NEW v \in Nat, v > 0
    PROVE  UnscaleLength(ScaleLength(v)) = v
<1> DEFINE N == ScaleNum
           D == ScaleDen
<1>1. N \in Nat \ {0} /\ D \in Nat \ {0} /\ N >= D
  BY ScaleAssumption
<1> HIDE DEF N, D
<1>2. v * N \in Nat /\ N * v = v * N /\ D * v \in Nat /\ v * N >= D * v /\ D * v >= D
  BY <1>1
<1>3. PICK x \in Int : /\ x = Lround(v * N, D)
                       /\ 2 * (D * x) <= 2 * (v * N) + D /\ 2 * (v * N) < 2 * (D * x) + D
  BY <1>1, <1>2, LroundBounds
<1>4. x >= 1
  BY <1>1, <1>2, <1>3, Multiples
<1>5. x * D \in Nat /\ D * x = x * D
  BY <1>1, <1>4
<1>6. PICK u \in Int : /\ u = Lround(x * D, N)
                       /\ 2 * (N * u) <= 2 * (x * D) + N /\ 2 * (x * D) < 2 * (N * u) + N
  BY <1>1, <1>5, LroundBounds
<1>7. N * (u - v) = N * u - N * v /\ N * u \in Int
  BY <1>1
<1>8. 2 * (N * (u - v)) <= N + D /\ 2 * (N * (u - v)) > -(N + D)
  BY <1>1, <1>2, <1>3, <1>5, <1>6, <1>7
<1>9. u - v >= 0
  BY <1>1, <1>8, Multiples
<1>10. u - v <= 0
  <2>1. CASE N = D
    <3>1. D * (x - v) = D * x - D * v /\ D * x \in Int
      BY <1>1
    <3>2. 2 * (D * (x - v)) <= D /\ 2 * (D * (x - v)) > -(2 * D)
      BY <1>1, <1>2, <1>3, <2>1, <3>1
    <3>3. x - v = 0
      BY <1>1, <3>2, Multiples
    <3>4. 2 * (N * (u - v)) <= N
      BY <1>1, <1>2, <1>5, <1>6, <1>7, <2>1, <3>3
    <3> QED BY <1>1, <3>4, Multiples
  <2>2. CASE N > D
    <3>1. N * (u - v) < N
      BY <1>1, <1>7, <1>8, <2>2
    <3> QED BY <1>1, <3>1, Multiples
  <2> QED BY <1>1, <2>1, <2>2
<1>11. u = v
  BY <1>9, <1>10
<1> QED BY <1>3, <1>4, <1>6, <1>11 DEF ScaleLength, UnscaleLength, AtLeastOne, N, D

\* Up to 3, unscaling and scaling again stays within the 1 px hysteresis: below 3
\* the two roundings together are less than 2 px, and at 3 the second is exact.
LEMMA UnscaledBack ==
    ASSUME ScaleNum <= 3 * ScaleDen, NEW p \in Nat, p > 1
    PROVE  Distance(ScaleLength(UnscaleLength(p)), p) <= 1
<1> DEFINE N == ScaleNum
           D == ScaleDen
<1>1. N \in Nat \ {0} /\ D \in Nat \ {0} /\ N <= 3 * D
  BY ScaleAssumption
<1> HIDE DEF N, D
<1>2. p * D \in Nat /\ D * p = p * D /\ p * D >= 2 * D
  BY <1>1
<1>3. PICK u \in Int : /\ u = Lround(p * D, N)
                       /\ 2 * (N * u) <= 2 * (p * D) + N /\ 2 * (p * D) < 2 * (N * u) + N
  BY <1>1, <1>2, LroundBounds
<1>4. u >= 1
  <2>1. N * u \in Int /\ p * D >= 2 * D /\ 2 * (p * D) < 2 * (N * u) + N
    BY <1>1, <1>2, <1>3
  <2>2. N * u > 0
    BY <1>1, <1>2, <2>1
  <2> QED BY <1>1, <2>2, Multiples
<1>5. u * N \in Nat /\ N * u = u * N
  BY <1>1, <1>4
<1>6. PICK x \in Int : /\ x = Lround(u * N, D)
                       /\ 2 * (D * x) <= 2 * (u * N) + D /\ 2 * (u * N) < 2 * (D * x) + D
  BY <1>1, <1>5, LroundBounds
<1>7. D * (x - p) = D * x - D * p /\ D * x \in Int
  BY <1>1
<1>8. 2 * (D * (x - p)) <= N + D /\ 2 * (D * (x - p)) > -(N + D)
  BY <1>1, <1>2, <1>3, <1>5, <1>6, <1>7
<1>9. x - p >= -1
  BY <1>1, <1>8, Multiples
<1>10. x - p <= 1
  <2>1. CASE N = 3 * D
    <3>1. D * (x - 3 * u) = D * x - u * N
      BY <1>1, <2>1
    <3>2. 2 * (D * (x - 3 * u)) <= D /\ 2 * (D * (x - 3 * u)) > -(2 * D)
      BY <1>1, <1>5, <1>6, <1>7, <3>1
    <3>3. x - 3 * u = 0
      BY <1>1, <3>2, Multiples
    <3>4. D * x = u * N
      BY <1>1, <1>5, <1>7, <3>1, <3>3
    <3>5. D * (x - p) < 2 * D
      BY <1>1, <1>2, <1>3, <1>5, <1>7, <2>1, <3>4
    <3> QED BY <1>1, <3>5, Multiples
  <2>2. CASE N < 3 * D
    <3>1. D * (x - p) < 2 * D
      BY <1>1, <1>7, <1>8, <2>2
    <3> QED BY <1>1, <3>1, Multiples
  <2> QED BY <1>1, <2>1, <2>2
<1>11. x >= 1 /\ Distance(x, p) <= 1
  BY <1>9, <1>10 DEF Distance
<1> QED BY <1>3, <1>4, <1>6, <1>11 DEF ScaleLength, UnscaleLength, AtLeastOne, N, D

\* Subtracting a shadow from a size, clamped from below, gives a size.
LEMMA SizeMinusIsSize ==
    ASSUME NEW s \in Size, NEW t \in Size, NEW low \in Nat
    PROVE  SizeMinus(s, t, low) \in Size
BY DEF SizeMinus, Minus, Size

\* Every size is within the 1 px hysteresis of itself.
LEMMA NearReflexive ==
    ASSUME NEW s \in Size PROVE Near(s, s)
BY DEF Near, Distance, Size

(***************************************************************************)
(* The handlers' helpers.                                                  *)
(***************************************************************************)
\* The client has been told the size of the output.
Told(w) == ~PreferCsd => Positive(w.lastConf) /\ Near(Unscale(w.mode), w.lastConf)

\* last_client_conf is the scheduled size, unless that lets the client choose.
LastIsScheduled(w) == Positive(w.sched) => w.sched = w.lastConf

\* A new size is never scheduled without a configure to carry it.
Announced(w, v) == v.idle \/ (v.sched = w.sched /\ v.idle = w.idle)

\* What every handler keeps of the record.
Keeps(w, v) == /\ v \in Window
               /\ Announced(w, v)
               /\ LastIsScheduled(w) => LastIsScheduled(v)

LEMMA KeepsTransitive ==
    ASSUME NEW u, NEW v, NEW w, Keeps(u, v), Keeps(v, w)
    PROVE  Keeps(u, w)
BY DEF Keeps, Announced

\* A configure for a real size always updates last_client_conf.
LEMMA SetSizeKeeps ==
    ASSUME NEW w \in Window, NEW s \in Size
    PROVE  LET v == SetSize(w, s)
           IN /\ Keeps(w, v) /\ v.mode = w.mode /\ v.sizeFromWm = w.sizeFromWm
              /\ Positive(s) => v.lastConf = s
BY DEF SetSize, Window, Keeps, Announced, LastIsScheduled

LEMMA SizeForOutputIsSize ==
    ASSUME NEW w \in Window, NEW tiled \in BOOLEAN
    PROVE  /\ SizeForOutput(w, tiled) \in Size
           /\ ~PreferCsd => SizeForOutput(w, tiled) = Unscale(w.mode)
                            /\ Positive(SizeForOutput(w, tiled))
<1>1. w.mode \in Size /\ w.margin \in Size
  BY DEF Window
<1>2. Unscale(w.mode) \in Size /\ Positive(Unscale(w.mode))
  BY <1>1, ScaledSizes
<1>3. SizeMinus(Unscale(w.mode), w.margin, 1) \in Size
  BY <1>1, <1>2, SizeMinusIsSize
<1> QED BY <1>2, <1>3 DEF SizeForOutput

\* fill_host leaves the client told of the output's size and moves nothing else.
LEMMA FillHostTells ==
    ASSUME NEW w \in Window, NEW g \in Size, NEW tiled \in BOOLEAN
    PROVE  LET v == FillHost(w, g, tiled)
           IN Keeps(w, v) /\ v.mode = w.mode /\ v.sizeFromWm = w.sizeFromWm /\ Told(v)
<1> DEFINE fill == SizeForOutput(w, tiled)
           lastOk == Positive(w.lastConf) /\ Near(fill, w.lastConf)
           set == SetSize(w, fill)
           told == [set EXCEPT !.fillRecent = @ \/ lastOk]
           v == FillHost(w, g, tiled)
<1>1. fill \in Size /\ (~PreferCsd => fill = Unscale(w.mode) /\ Positive(fill))
  BY SizeForOutputIsSize
<1>2. CASE v = w /\ lastOk
  BY <1>1, <1>2 DEF Keeps, Announced, Told
<1>3. CASE v = told
  <2>1. /\ Keeps(w, set) /\ set.mode = w.mode /\ set.sizeFromWm = w.sizeFromWm
        /\ Positive(fill) => set.lastConf = fill
    BY <1>1, SetSizeKeeps
  <2>2. set \in Window
    BY <2>1 DEF Keeps
  <2> HIDE DEF fill, set
  <2>3. lastOk \in BOOLEAN /\ set.fillRecent \in BOOLEAN
    BY <2>2 DEF Window, Positive, Near
  <2>4. /\ told \in Window /\ told.mode = set.mode /\ told.sizeFromWm = set.sizeFromWm
        /\ told.lastConf = set.lastConf /\ told.sched = set.sched /\ told.idle = set.idle
    BY <2>2, <2>3 DEF Window
  <2>5. Keeps(w, told)
    BY <2>1, <2>4 DEF Keeps, Announced, LastIsScheduled
  <2>6. Told(told)
    BY <1>1, <2>1, <2>4, NearReflexive DEF Told
  <2> QED BY <1>3, <2>1, <2>4, <2>5, <2>6
<1>4. (v = w /\ lastOk) \/ v = told
  BY DEF FillHost
<1> QED BY <1>2, <1>3, <1>4

\* A mode commit reaches fill_host through the output's commit listener, so the
\* client is told of the new mode before the handler returns.
LEMMA CommitModeTells ==
    ASSUME NEW w \in Window, NEW s \in Size, NEW g \in Size, NEW tiled \in BOOLEAN
    PROVE  LET v == CommitMode(w, s, g, tiled)
           IN /\ Keeps(w, v) /\ v.mode = s /\ v.sizeFromWm = w.sizeFromWm
              /\ s # w.mode => Told(v)
<1> DEFINE moved == [w EXCEPT !.mode = s]
<1>1. /\ Keeps(w, moved) /\ moved.mode = s /\ moved.sizeFromWm = w.sizeFromWm
  BY DEF Keeps, Announced, LastIsScheduled, Window
<1>2. moved \in Window
  BY <1>1 DEF Keeps
<1>3. LET v == FillHost(moved, g, tiled)
      IN /\ Keeps(moved, v) /\ v.mode = s /\ v.sizeFromWm = w.sizeFromWm /\ Told(v)
  BY <1>1, <1>2, FillHostTells
<1>4. CASE s # w.mode
  BY <1>1, <1>3, <1>4, KeepsTransitive DEF CommitMode
<1>5. CASE s = w.mode
  BY <1>5 DEF CommitMode, Keeps, Announced
<1> QED BY <1>4, <1>5

\* resize_output_to commits the size unless it is below the minimum.
LEMMA ResizeOutputToTells ==
    ASSUME NEW w \in Window, NEW s \in Size, NEW g \in Size, NEW tiled \in BOOLEAN
    PROVE  LET v == ResizeOutputTo(w, s, g, tiled)
           IN /\ Keeps(w, v) /\ v.sizeFromWm = w.sizeFromWm
              /\ v.mode = IF BelowMinimum(s) THEN w.mode ELSE s
<1>1. CASE BelowMinimum(s)
  BY <1>1 DEF ResizeOutputTo, Keeps, Announced
<1>2. CASE ~BelowMinimum(s)
  BY <1>2, CommitModeTells DEF ResizeOutputTo
<1> QED BY <1>1, <1>2

\* Mirroring one host state schedules a configure at the size already told, and
\* hands the size to the host only together with a state that is set.
LEMMA MirrorOneKeeps ==
    ASSUME NEW w \in Window, NEW f \in States,
           NEW want \in SUBSET States, NEW mirrored \in SUBSET States
    PROVE  LET v == MirrorOne(w, f, want, mirrored)
           IN /\ Keeps(w, v) /\ v.mode = w.mode /\ v.lastConf = w.lastConf
              /\ want = {} => v.sizeFromWm \in {w.sizeFromWm, FALSE}
<1> DEFINE v == MirrorOne(w, f, want, mirrored)
           unchanged == w
           set == [w EXCEPT !.sizeFromWm = TRUE, !.margin = Unset,
                            !.schedStates = @ \cup {f}, !.idle = TRUE]
           cleared == [w EXCEPT !.sizeFromWm = FALSE,
                                !.schedStates = @ \ {f}, !.idle = TRUE]
<1> SUFFICES /\ Keeps(w, v) /\ v.mode = w.mode /\ v.lastConf = w.lastConf
             /\ want = {} => v.sizeFromWm \in {w.sizeFromWm, FALSE}
  OBVIOUS
<1>1. CASE v = unchanged
  BY <1>1 DEF Keeps, Announced
<1>2. CASE f \in want /\ v = set
  <2>1. Unset \in Size
    BY DEF Unset, Size
  <2>2. /\ set \in Window /\ set.mode = w.mode /\ set.lastConf = w.lastConf
        /\ set.sched = w.sched /\ set.idle = TRUE
    BY <2>1 DEF Window
  <2> HIDE DEF v, set
  <2> QED BY <1>2, <2>2 DEF Keeps, Announced, LastIsScheduled
<1>3. CASE v = cleared
  <2>1. /\ cleared \in Window /\ cleared.mode = w.mode /\ cleared.lastConf = w.lastConf
        /\ cleared.sched = w.sched /\ cleared.idle = TRUE /\ cleared.sizeFromWm = FALSE
    BY DEF Window
  <2> HIDE DEF v, cleared
  <2> QED BY <1>3, <2>1 DEF Keeps, Announced, LastIsScheduled
<1>4. v = unchanged \/ (f \in want /\ v = set) \/ v = cleared
  <2>1. CASE f \in want
    <3>1. (f \in want) = TRUE
      BY <2>1
    <3> QED BY <3>1 DEF MirrorOne
  <2>2. CASE f \notin want
    <3>1. (f \in want) = FALSE /\ [w EXCEPT !.margin = @] = w
      BY <2>2 DEF Window
    <3>2. [w EXCEPT !.sizeFromWm = FALSE, !.margin = @,
                    !.schedStates = @ \ {f}, !.idle = TRUE] = cleared
      BY DEF Window
    <3> QED BY <3>1, <3>2 DEF MirrorOne
  <2> QED BY <2>1, <2>2
<1> QED BY <1>1, <1>2, <1>3, <1>4

\* Whatever states the host reports, the handler leaves the client told if it
\* hands the size to the host.
LEMMA HandleNetWmStateTells ==
    ASSUME NEW w \in Window, NEW want \in SUBSET States,
           pending \in SUBSET States, current \in SUBSET States, geo \in Size
    PROVE  LET v == HandleNetWmState(w, want)
           IN /\ Keeps(w, v) /\ v.mode = w.mode
              /\ v.sizeFromWm => Told(v) \/ (w.sizeFromWm /\ v.lastConf = w.lastConf)
<1> DEFINE mirrored == pending \cup current
           w1 == IF "maximized" \in States
                 THEN MirrorOne(w, "maximized", want, mirrored) ELSE w
           w2 == IF "fullscreen" \in States
                 THEN MirrorOne(w1, "fullscreen", want, mirrored) ELSE w1
           v == HandleNetWmState(w, want)
<1> SUFFICES /\ Keeps(w, v) /\ v.mode = w.mode
             /\ v.sizeFromWm => Told(v) \/ (w.sizeFromWm /\ v.lastConf = w.lastConf)
  OBVIOUS
<1>1. mirrored \in SUBSET States
  OBVIOUS
<1>2. /\ Keeps(w, w1) /\ w1.mode = w.mode /\ w1.lastConf = w.lastConf
      /\ want = {} => w1.sizeFromWm \in {w.sizeFromWm, FALSE}
  <2>1. CASE "maximized" \in States
    BY <1>1, <2>1, MirrorOneKeeps
  <2>2. CASE "maximized" \notin States
    BY <2>2 DEF Keeps, Announced
  <2> QED BY <2>1, <2>2
<1>3. w1 \in Window
  BY <1>2 DEF Keeps
<1> HIDE DEF w1, mirrored
<1>4. /\ Keeps(w1, w2) /\ w2.mode = w1.mode /\ w2.lastConf = w1.lastConf
      /\ want = {} => w2.sizeFromWm \in {w1.sizeFromWm, FALSE}
  <2>1. CASE "fullscreen" \in States
    BY <1>1, <1>3, <2>1, MirrorOneKeeps
  <2>2. CASE "fullscreen" \notin States
    BY <1>3, <2>2 DEF Keeps, Announced
  <2> QED BY <2>1, <2>2
<1>5. v = IF want # {} THEN FillHost(w2, geo, IsTiled(pending, current)) ELSE w2
  BY DEF HandleNetWmState, w1, mirrored
<1>6. Keeps(w, w2) /\ w2 \in Window
  BY <1>2, <1>4, KeepsTransitive DEF Keeps
<1> HIDE DEF w2, v
<1>7. IsTiled(pending, current) \in BOOLEAN
  BY DEF IsTiled
<1>8. CASE want # {}
  <2>1. Keeps(w2, v) /\ v.mode = w2.mode /\ Told(v)
    BY <1>5, <1>6, <1>7, <1>8, FillHostTells
  <2> QED BY <1>2, <1>4, <1>6, <2>1, KeepsTransitive
<1>9. CASE want = {}
  <2>1. v = w2
    BY <1>5, <1>9
  <2> QED BY <1>2, <1>4, <1>6, <1>9, <2>1
<1> QED BY <1>8, <1>9

\* Fitting the host to the client happens only without host authority, so all
\* it has to keep is that the client is told by a configure.
LEMMA FitHostKeeps ==
    ASSUME NEW w \in Window, NEW out \in Size, NEW conf \in Size,
           NEW g \in Size, NEW tiled \in BOOLEAN
    PROVE  LET v == FitHost(w, out, conf, g, tiled)
           IN Keeps(w, v) /\ v.sizeFromWm = w.sizeFromWm
<1> DEFINE fitted == [w EXCEPT !.fitPrev = w.fitLast, !.fitLast = out, !.fitRecent = TRUE]
           resized == ResizeOutputTo(fitted, out, g, tiled)
           v == ConfigureIfNew(resized, conf)
<1> SUFFICES Keeps(w, v) /\ v.sizeFromWm = w.sizeFromWm
  BY DEF FitHost
<1>1. /\ fitted \in Window /\ fitted.sizeFromWm = w.sizeFromWm /\ fitted.sched = w.sched
      /\ fitted.lastConf = w.lastConf /\ fitted.idle = w.idle
  BY DEF Window
<1>2. Keeps(w, fitted)
  BY <1>1 DEF Keeps, Announced, LastIsScheduled
<1> HIDE DEF fitted
<1>3. Keeps(fitted, resized) /\ resized.sizeFromWm = fitted.sizeFromWm
  BY <1>1, ResizeOutputToTells
<1>4. resized \in Window
  BY <1>3 DEF Keeps
<1> HIDE DEF resized
<1>5. Keeps(resized, v) /\ v.sizeFromWm = resized.sizeFromWm
  <2>1. CASE resized.lastConf = conf
    BY <1>4, <2>1 DEF ConfigureIfNew, Keeps, Announced
  <2>2. CASE resized.lastConf # conf
    BY <1>4, <2>2, SetSizeKeeps DEF ConfigureIfNew
  <2> QED BY <2>1, <2>2
<1> HIDE DEF v
<1> QED BY <1>1, <1>2, <1>3, <1>5, KeepsTransitive

\* A commit never hands the size to the host; where the host keeps it, the
\* client has been told; and a maximized or fullscreen client moves nothing.
LEMMA SurfaceCommitTells ==
    ASSUME NEW w \in Window, NEW g \in Size, NEW b \in Size, pending \in SUBSET States
    PROVE  LET v == SurfaceCommit(w, g, b)
           IN /\ Keeps(w, v)
              /\ v.sizeFromWm => /\ w.sizeFromWm
                                 /\ Told(v) \/ (v.mode = w.mode /\ v.lastConf = w.lastConf)
              /\ pending # {} => v.mode = w.mode
<1> DEFINE tiled == IsTiled(pending, pending)
           preferred == PreferredSize(g, b)
           conf == IF Positive(g) THEN g ELSE preferred
           out == Scale(preferred)
           mismatch == ~Near(out, w.mode)
           confDiffers == ~Positive(w.lastConf) \/ ~Near(conf, w.lastConf)
           assertShrink == mismatch /\ confDiffers /\ ~tiled /\ Shrinks(out, w.mode)
           fromWm == w.sizeFromWm /\ ~assertShrink
           wantFit == mismatch /\ ~tiled /\ ~fromWm
           kept == [TrackMargin(w, g, b) EXCEPT !.sizeFromWm = fromWm]
           v == SurfaceCommit(w, g, b)
<1> SUFFICES /\ Keeps(w, v)
             /\ v.sizeFromWm => /\ w.sizeFromWm
                                /\ Told(v) \/ (v.mode = w.mode /\ v.lastConf = w.lastConf)
             /\ pending # {} => v.mode = w.mode
  OBVIOUS
<1>1. tiled \in BOOLEAN /\ (pending # {} => tiled)
  BY DEF IsTiled
<1>2. preferred \in Size /\ conf \in Size /\ out \in Size
  <2>1. g[1] \in Nat /\ g[2] \in Nat /\ b[1] \in Nat /\ b[2] \in Nat
        /\ DefaultSize[1] \in Nat /\ DefaultSize[2] \in Nat
    BY MinAssumption DEF Size
  <2>2. preferred \in Size
    BY <2>1 DEF PreferredSize, Size
  <2> HIDE DEF preferred
  <2> QED BY <2>2, ScaledSizes
<1>3. fromWm \in BOOLEAN
  BY DEF Window, Near, Shrinks
<1>4. v = IF wantFit /\ ~Oscillation(w, out) THEN FitHost(kept, out, conf, g, tiled)
          ELSE IF mismatch /\ ~wantFit THEN FillHost(kept, g, tiled) ELSE kept
  BY DEF SurfaceCommit
<1> HIDE DEF tiled, preferred, conf, out, v
<1>5. /\ kept \in Window /\ kept.sizeFromWm = fromWm /\ kept.mode = w.mode
      /\ kept.lastConf = w.lastConf /\ kept.sched = w.sched /\ kept.idle = w.idle
  <2>1. SizeMinus(b, g, 0) \in Size
    BY SizeMinusIsSize
  <2>2. LET t == TrackMargin(w, g, b)
        IN /\ t \in Window /\ t.mode = w.mode /\ t.lastConf = w.lastConf
           /\ t.sched = w.sched /\ t.idle = w.idle
    BY <2>1 DEF TrackMargin, Window
  <2> HIDE DEF fromWm
  <2> QED BY <1>3, <2>2 DEF Window
<1>6. Keeps(w, kept)
  <2> HIDE DEF kept
  <2> QED BY <1>5 DEF Keeps, Announced, LastIsScheduled
<1>7. fromWm => w.sizeFromWm
  OBVIOUS
<1>8. wantFit => ~fromWm /\ ~tiled
  OBVIOUS
<1> HIDE DEF mismatch, fromWm, wantFit, kept
<1>9. CASE wantFit /\ ~Oscillation(w, out)
  <2>1. v = FitHost(kept, out, conf, g, tiled)
    BY <1>4, <1>9
  <2>2. Keeps(kept, v) /\ v.sizeFromWm = kept.sizeFromWm
    BY <1>1, <1>2, <1>5, <2>1, FitHostKeeps
  <2> QED BY <1>1, <1>5, <1>6, <1>8, <1>9, <2>2, KeepsTransitive
<1>10. CASE mismatch /\ ~wantFit
  <2>1. v = FillHost(kept, g, tiled)
    BY <1>4, <1>10
  <2>2. Keeps(kept, v) /\ v.mode = kept.mode /\ v.sizeFromWm = kept.sizeFromWm /\ Told(v)
    BY <1>1, <1>5, <2>1, FillHostTells
  <2> QED BY <1>5, <1>6, <1>7, <2>2, KeepsTransitive
<1>11. CASE v = kept
  BY <1>5, <1>6, <1>7, <1>11
<1> QED BY <1>4, <1>9, <1>10, <1>11

\* What the policy decides is as it was.
Stands(w, v) ==
    /\ v.mode = w.mode /\ v.sizeFromWm = w.sizeFromWm
    /\ v.lastConf = w.lastConf /\ v.sched = w.sched /\ v.idle = w.idle

\* Tracking the margin of a commit leaves what the policy decides.
LEMMA TrackedStands ==
    ASSUME NEW w \in Window, NEW g \in Size, NEW b \in Size
    PROVE  LET kept == [TrackMargin(w, g, b) EXCEPT !.sizeFromWm = w.sizeFromWm]
           IN kept \in Window /\ Stands(w, kept)
<1> DEFINE t == TrackMargin(w, g, b)
<1>1. SizeMinus(b, g, 0) \in Size /\ w.sizeFromWm \in BOOLEAN
  BY SizeMinusIsSize DEF Window
<1>2. /\ t \in Window /\ t.mode = w.mode /\ t.lastConf = w.lastConf
      /\ t.sched = w.sched /\ t.idle = w.idle
  BY <1>1 DEF TrackMargin, Window
<1> SUFFICES LET kept == [t EXCEPT !.sizeFromWm = w.sizeFromWm]
             IN kept \in Window /\ Stands(w, kept)
  OBVIOUS
<1> HIDE DEF t
<1> QED BY <1>1, <1>2 DEF Stands, Window

\* A client that commits the size it was told last does not differ from it, so
\* it asserts nothing, and fill_host has nothing to tell it.
LEMMA ObedientCommit ==
    ASSUME NEW w \in Window, NEW b \in Size, ~PreferCsd, w.sizeFromWm, Told(w)
    PROVE  Stands(w, SurfaceCommit(w, w.lastConf, b))
<1> DEFINE g == w.lastConf
           tiled == IsTiled(pending, pending)
           preferred == PreferredSize(g, b)
           conf == IF Positive(g) THEN g ELSE preferred
           out == Scale(preferred)
           mismatch == ~Near(out, w.mode)
           confDiffers == ~Positive(w.lastConf) \/ ~Near(conf, w.lastConf)
           assertShrink == mismatch /\ confDiffers /\ ~tiled /\ Shrinks(out, w.mode)
           fromWm == w.sizeFromWm /\ ~assertShrink
           wantFit == mismatch /\ ~tiled /\ ~fromWm
           kept == [TrackMargin(w, g, b) EXCEPT !.sizeFromWm = fromWm]
           v == SurfaceCommit(w, g, b)
<1>1. g \in Size /\ Positive(g) /\ Near(Unscale(w.mode), g) /\ conf = g
  BY DEF Window, Told
<1>2. fromWm = TRUE /\ ~wantFit
  BY <1>1, NearReflexive
<1>3. v = kept \/ v = FillHost(kept, g, tiled)
  BY <1>2 DEF SurfaceCommit
<1>4. kept \in Window /\ Stands(w, kept)
  BY <1>1, <1>2, TrackedStands
<1> HIDE DEF kept, tiled
<1>5. FillHost(kept, g, tiled) = kept
  BY <1>1, <1>4 DEF FillHost, SizeForOutput, Stands
<1> QED BY <1>3, <1>4, <1>5

\* A client that draws what the output's size is in logical pixels agrees with
\* the output, although both were rounded.
LEMMA ScaledCommit ==
    ASSUME NEW w \in Window, NEW b \in Size, ~PreferCsd, ScaleNum <= 3 * ScaleDen,
           w.mode[1] > 1, w.mode[2] > 1, ~BelowMinimum(Unscale(w.mode))
    PROVE  Stands(w, SurfaceCommit(w, Unscale(w.mode), b))
<1> DEFINE g == Unscale(w.mode)
           tiled == IsTiled(pending, pending)
           preferred == PreferredSize(g, b)
           conf == IF Positive(g) THEN g ELSE preferred
           out == Scale(preferred)
           mismatch == ~Near(out, w.mode)
           confDiffers == ~Positive(w.lastConf) \/ ~Near(conf, w.lastConf)
           assertShrink == mismatch /\ confDiffers /\ ~tiled /\ Shrinks(out, w.mode)
           fromWm == w.sizeFromWm /\ ~assertShrink
           wantFit == mismatch /\ ~tiled /\ ~fromWm
           kept == [TrackMargin(w, g, b) EXCEPT !.sizeFromWm = fromWm]
           v == SurfaceCommit(w, g, b)
<1>1. PICK mode \in Size : mode = w.mode
  BY DEF Window
<1>2. g \in Size /\ Positive(g)
  BY <1>1, ScaledSizes
<1>3. preferred = g
  <2>1. g[1] \in Nat /\ g[2] \in Nat /\ ~(g[1] < MinOutputSize) /\ ~(g[2] < MinOutputSize)
    BY <1>2 DEF BelowMinimum, Size
  <2>2. g = <<g[1], g[2]>>
    BY <1>2 DEF Size
  <2> HIDE DEF g
  <2> QED BY <1>2, <2>1, <2>2 DEF PreferredSize
<1>4. Near(Scale(Unscale(mode)), mode)
  <2>1. mode[1] \in Nat /\ mode[1] > 1 /\ mode[2] \in Nat /\ mode[2] > 1
    BY <1>1 DEF Size
  <2> QED BY <2>1, UnscaledBack DEF Scale, Unscale, Near
<1>5. ~mismatch
  BY <1>1, <1>3, <1>4
<1>6. fromWm = w.sizeFromWm /\ ~wantFit
  BY <1>5 DEF Window
<1>7. v = kept
  BY <1>5, <1>6 DEF SurfaceCommit
<1>8. kept = [TrackMargin(w, g, b) EXCEPT !.sizeFromWm = w.sizeFromWm]
  BY <1>6
<1> HIDE DEF v, g, kept, fromWm
<1>9. Stands(w, kept)
  BY <1>2, <1>8, TrackedStands
<1> QED BY <1>7, <1>9 DEF v, g

(***************************************************************************)
(* The inductive invariant.  HostAuthorityTold is inductive given the      *)
(* types; LastConfIsNewestTold needs the last two conjuncts, which say     *)
(* where the newest size travels.                                          *)
(***************************************************************************)
\* The last configure in flight carries the scheduled size.
NewestIsScheduled ==
    ~win.idle /\ configures # <<>> => configures[Len(configures)].size = win.sched

IInv ==
    /\ TypeOK
    /\ win.sizeFromWm => Told(win)
    /\ LastIsScheduled(win)
    /\ NewestIsScheduled

LEMMA NewestSurvives ==
    ASSUME NewestIsScheduled, Announced(win, win'), configures' = configures
    PROVE  NewestIsScheduled'
BY DEF NewestIsScheduled, Announced

\* create_output_for_window leaves the client with the configure for 0x0 that
\* lets it choose, and the size with nobody but the client.
LEMMA InitIInv == Init => IInv
<1> SUFFICES ASSUME Init PROVE IInv
  OBVIOUS
<1>1. PICK c \in ClientSizes, m \in ClientMargins :
        /\ geo = IF SetsGeometry THEN c ELSE Unset
        /\ buf = SizePlus(c, m)
        /\ win = [mode |-> Scale(PreferredSize(geo, buf)), sizeFromWm |-> FALSE,
                  margin |-> IF SetsGeometry THEN m ELSE Unset, lastConf |-> Unset,
                  fitLast |-> Unset, fitPrev |-> Unset,
                  fitRecent |-> FALSE, fillRecent |-> FALSE,
                  sched |-> Unset, schedStates |-> {}, idle |-> TRUE]
        /\ configures = <<>> /\ pending = {} /\ current = {} /\ hint = Unset
        /\ real \in HostSizes \cup {win.mode}
        /\ hostStates = {} /\ stateNotify = FALSE
  BY DEF Init
<1>2. c \in Size /\ m \in Size /\ Unset \in Size
  BY ClientAssumption DEF Unset, Size
<1>3. geo \in Size /\ buf \in Size
  BY <1>1, <1>2 DEF SizePlus, Size
<1>4. PreferredSize(geo, buf) \in Size
  <2>1. /\ geo[1] \in Nat /\ geo[2] \in Nat /\ buf[1] \in Nat /\ buf[2] \in Nat
        /\ DefaultSize[1] \in Nat /\ DefaultSize[2] \in Nat
    BY <1>3, MinAssumption DEF Size
  <2> QED BY <2>1 DEF PreferredSize, Size
<1>5. Scale(PreferredSize(geo, buf)) \in Size
  BY <1>4, ScaledSizes
<1>6. win \in Window /\ win.mode \in Size
  BY <1>1, <1>2, <1>5 DEF Window
<1>7. TypeOK
  <2>1. real \in Size
    BY <1>1, <1>6, HostAssumption
  <2>2. /\ configures \in Seq(Configure) /\ hint \in Size
        /\ pending \in SUBSET States /\ current \in SUBSET States
    BY <1>1, <1>2
  <2>3. hostStates \in SUBSET States /\ stateNotify \in BOOLEAN
    BY <1>1
  <2> QED BY <1>3, <1>6, <2>1, <2>2, <2>3 DEF TypeOK
<1>8. ~win.sizeFromWm /\ win.idle /\ ~Positive(win.sched)
  BY <1>1 DEF Positive, Unset
<1> QED BY <1>7, <1>8 DEF IInv, LastIsScheduled, NewestIsScheduled

\* What a handler of the compositor does to the invariant when it leaves the
\* client's and the host's state alone or typed.
LEMMA HandlerStep ==
    ASSUME IInv, Keeps(win, win'), configures' = configures,
           pending' = pending, current' \in SUBSET States,
           geo' \in Size, buf' \in Size, hint' \in Size,
           real' \in Size, hostStates' \in SUBSET States, stateNotify' \in BOOLEAN,
           win'.sizeFromWm =>
               \/ Told(win')
               \/ win.sizeFromWm /\ win'.mode = win.mode /\ win'.lastConf = win.lastConf
    PROVE  IInv'
<1>1. TypeOK'
  BY DEF IInv, TypeOK, Keeps
<1>2. LastIsScheduled(win')
  BY DEF IInv, Keeps
<1>3. NewestIsScheduled'
  BY NewestSurvives DEF IInv, Keeps
<1>4. win'.sizeFromWm => Told(win')
  BY DEF IInv, Told
<1> QED BY <1>1, <1>2, <1>3, <1>4 DEF IInv, LastIsScheduled, Told

LEMMA ClientCommitsStep ==
    ASSUME IInv, NEW c \in Size, NEW m \in Size, hint' \in Size, ClientCommits(c, m)
    PROVE  IInv'
<1>1. geo' \in Size /\ buf' \in Size
  BY DEF ClientCommits, SizePlus, Size, Unset
<1>2. win \in Window /\ pending \in SUBSET States /\ real \in Size
  BY DEF IInv, TypeOK
<1>3. /\ Keeps(win, win')
      /\ win'.sizeFromWm =>
            /\ win.sizeFromWm
            /\ Told(win') \/ (win'.mode = win.mode /\ win'.lastConf = win.lastConf)
  BY <1>1, <1>2, SurfaceCommitTells DEF ClientCommits
<1>4. real' \in Size
  <2>1. win'.mode \in Size
    BY <1>3 DEF Keeps, Window
  <2> QED BY <1>2, <2>1 DEF ClientCommits, HostAnswers
<1>5. /\ configures' = configures /\ pending' = pending /\ current' \in SUBSET States
      /\ hostStates' \in SUBSET States /\ stateNotify' \in BOOLEAN
  BY <1>2 DEF ClientCommits, IInv, TypeOK
<1> QED BY <1>1, <1>3, <1>4, <1>5, HandlerStep

\* Every step preserves the invariant: one step per action.
LEMMA NextIInv == IInv /\ [Next]_vars => IInv'
<1> SUFFICES ASSUME IInv, [Next]_vars PROVE IInv'
  OBVIOUS
<1> USE DEF HostMoves, ClientMoves, Compositor, ClientFollows
<1>1. /\ win \in Window /\ geo \in Size /\ buf \in Size /\ hint \in Size /\ real \in Size
      /\ pending \in SUBSET States /\ current \in SUBSET States
      /\ hostStates \in SUBSET States /\ stateNotify \in BOOLEAN
      /\ configures \in Seq(Configure) /\ win.mode \in Size
  BY DEF IInv, TypeOK, Window
<1>2. Keeps(win, win)
  BY <1>1 DEF Keeps, Announced
<1>3. IsTiled(pending, current) \in BOOLEAN
  BY DEF IsTiled
<1>4. ASSUME NEW s \in HostSizes, HostResizes(s) PROVE IInv'
  BY <1>1, <1>2, <1>4, HostAssumption, HandlerStep DEF HostResizes, client
<1>5. ASSUME NEW st \in SUBSET States, HostChangesStates(st) PROVE IInv'
  BY <1>1, <1>2, <1>5, HandlerStep DEF HostChangesStates, client
<1>6. ASSUME NEW s \in HostSizes \cup {win.mode}, ReparentNotify(s) PROVE IInv'
  <2>1. CASE s = win.mode
    BY <1>1, <1>2, <1>6, <2>1, HandlerStep DEF ReparentNotify, client
  <2>2. CASE s # win.mode
    <3> DEFINE resized == ResizeOutputTo(win, s, geo, IsTiled(pending, current))
    <3>1. s \in Size /\ ~BelowMinimum(s) /\ Unscale(s) \in Size /\ Positive(Unscale(s))
      BY <2>2, HostAssumption, ScaledSizes
    <3>2. Keeps(win, resized) /\ resized.mode = s
      BY <1>1, <1>3, <3>1, ResizeOutputToTells
    <3>3. win' = SetSize(resized, Unscale(s))
      BY <1>6, <2>2 DEF ReparentNotify
    <3> HIDE DEF resized
    <3>4. Keeps(resized, win') /\ win'.mode = s /\ win'.lastConf = Unscale(s)
      BY <3>1, <3>2, <3>3, SetSizeKeeps DEF Keeps
    <3>5. Keeps(win, win') /\ Told(win')
      BY <3>1, <3>2, <3>4, KeepsTransitive, NearReflexive DEF Told
    <3> QED BY <1>1, <1>6, <3>1, <3>5, HandlerStep DEF ReparentNotify, client
  <2> QED BY <2>1, <2>2
<1>7. ASSUME NEW c \in ClientSizes, NEW m \in ClientMargins, ClientPicksSize(c, m)
      PROVE IInv'
  <2>1. c \in Size /\ m \in Size /\ hint' \in Size
    BY <1>7, ClientAssumption DEF ClientPicksSize, Unset, Size
  <2> QED BY <1>7, <2>1, ClientCommitsStep DEF ClientPicksSize
<1>8. ASSUME NEW f \in ClientStates, NEW want \in BOOLEAN, ClientRequestsState(f, want)
      PROVE IInv'
  <2>1. f \in States
    BY StatesAssumption
  <2> DEFINE st == IF want THEN win.schedStates \cup {f} ELSE win.schedStates \ {f}
  <2>2. win' = [win EXCEPT !.schedStates = st, !.idle = TRUE] /\ st \in SUBSET States
    BY <1>1, <1>8, <2>1 DEF ClientRequestsState, Window
  <2> HIDE DEF st
  <2>3. /\ win' \in Window /\ win'.idle = TRUE /\ win'.sched = win.sched
        /\ win'.lastConf = win.lastConf /\ win'.mode = win.mode
        /\ win'.sizeFromWm = win.sizeFromWm
    BY <1>1, <2>2 DEF Window
  <2>4. Keeps(win, win')
    BY <2>3 DEF Keeps, Announced, LastIsScheduled
  <2> QED BY <1>1, <1>8, <2>3, <2>4, HandlerStep DEF ClientRequestsState, client, host
<1>9. ASSUME OutputRequestState PROVE IInv'
  <2> DEFINE taken == [win EXCEPT !.sizeFromWm = TRUE]
             w == HandleNetWmState(taken, hostStates)
  <2>1. /\ taken \in Window /\ taken.sched = win.sched /\ taken.idle = win.idle
        /\ taken.mode = win.mode /\ taken.lastConf = win.lastConf
    BY <1>1 DEF Window
  <2>2. Keeps(win, taken)
    BY <2>1 DEF Keeps, Announced, LastIsScheduled
  <2> HIDE DEF taken
  <2>3. Keeps(taken, w) /\ w.mode = win.mode
    BY <1>1, <2>1, HandleNetWmStateTells
  <2>4. win' = CommitMode(w, real, geo, IsTiled(pending, current)) /\ real # win.mode
    BY <1>9 DEF OutputRequestState, taken
  <2> HIDE DEF w
  <2>5. Keeps(w, win') /\ Told(win')
    BY <1>1, <1>3, <2>3, <2>4, CommitModeTells DEF Keeps
  <2>6. Keeps(win, win')
    BY <2>2, <2>3, <2>5, KeepsTransitive
  <2> QED BY <1>1, <1>9, <2>5, <2>6, HandlerStep DEF OutputRequestState, client, host
<1>10. ASSUME NetWmStateNotify PROVE IInv'
  <2>1. /\ Keeps(win, win') /\ win'.mode = win.mode
        /\ win'.sizeFromWm =>
              Told(win') \/ (win.sizeFromWm /\ win'.lastConf = win.lastConf)
    BY <1>1, <1>10, HandleNetWmStateTells DEF NetWmStateNotify
  <2> QED BY <1>1, <1>10, <2>1, HandlerStep DEF NetWmStateNotify, client
<1>11. ASSUME SendConfigure PROVE IInv'
  <2> DEFINE conf == [size |-> win.sched, states |-> win.schedStates]
  <2>1. /\ win' = [win EXCEPT !.idle = FALSE] /\ configures' = Append(configures, conf)
        /\ UNCHANGED <<pending, current, geo, buf, hint, real, hostStates, stateNotify>>
    BY <1>11 DEF SendConfigure, host
  <2>2. /\ win' \in Window /\ win'.sched = win.sched /\ win'.mode = win.mode
        /\ win'.lastConf = win.lastConf /\ win'.sizeFromWm = win.sizeFromWm
    BY <1>1, <2>1 DEF Window
  <2>3. conf \in Configure /\ conf.size = win.sched
    BY <1>1 DEF Configure, Window
  <2> HIDE DEF conf
  <2>4. configures' \in Seq(Configure) /\ configures'[Len(configures')] = conf
    BY <1>1, <2>1, <2>3
  <2>5. TypeOK'
    BY <1>1, <2>1, <2>2, <2>4 DEF TypeOK
  <2>6. NewestIsScheduled'
    BY <2>2, <2>3, <2>4 DEF NewestIsScheduled
  <2>7. LastIsScheduled(win') /\ (win'.sizeFromWm => Told(win'))
    BY <2>2 DEF LastIsScheduled, Told, IInv
  <2> QED BY <2>5, <2>6, <2>7 DEF IInv, LastIsScheduled, Told
<1>12. ASSUME FitWindowExpires \/ FillWindowExpires PROVE IInv'
  <2>1. /\ win' \in Window /\ win'.sched = win.sched /\ win'.idle = win.idle
        /\ win'.mode = win.mode /\ win'.lastConf = win.lastConf
        /\ win'.sizeFromWm = win.sizeFromWm
    BY <1>1, <1>12 DEF FitWindowExpires, FillWindowExpires, Window
  <2>2. Keeps(win, win')
    BY <2>1 DEF Keeps, Announced, LastIsScheduled
  <2>3. UNCHANGED <<client, host>>
    BY <1>12 DEF FitWindowExpires, FillWindowExpires
  <2> QED BY <1>1, <2>1, <2>2, <2>3, HandlerStep DEF client, host
<1>13. ASSUME NEW k \in 1..Len(configures), ClientAcks(k) PROVE IInv'
  <2>1. /\ configures' = SubSeq(configures, k + 1, Len(configures))
        /\ pending' = configures[k].states /\ hint' = configures[k].size
        /\ UNCHANGED <<win, current, geo, buf, real, hostStates, stateNotify>>
    BY <1>13 DEF ClientAcks, host
  <2>2. Len(configures) \in Nat /\ configures[k] \in Configure
    BY <1>1
  <2>3. pending' \in SUBSET States /\ hint' \in Size
    BY <2>1, <2>2 DEF Configure
  <2>4. /\ configures' \in Seq(Configure)
        /\ configures' # <<>> => configures'[Len(configures')] = configures[Len(configures)]
    <3> DEFINE n == Len(configures)
    <3>1. \A i \in k + 1 .. n : configures[i] \in Configure
      BY <1>1, <2>2
    <3>2. /\ configures' \in Seq(Configure)
          /\ Len(configures') = IF k + 1 <= n THEN n - (k + 1) + 1 ELSE 0
          /\ \A i \in 1 .. n - (k + 1) + 1 : configures'[i] = configures[k + 1 + i - 1]
      BY <2>1, <2>2, <3>1, SubSeqProperties
    <3>3. CASE k + 1 <= n
      BY <2>2, <3>2, <3>3
    <3>4. CASE ~(k + 1 <= n)
      BY <3>2, <3>4
    <3> QED BY <3>2, <3>3, <3>4
  <2>5. TypeOK'
    BY <1>1, <2>1, <2>3, <2>4 DEF TypeOK
  <2>6. NewestIsScheduled'
    <3>1. configures' # <<>> => configures # <<>>
      BY <1>13, <2>2
    <3> QED BY <2>1, <2>4, <3>1 DEF NewestIsScheduled, IInv
  <2> QED BY <2>1, <2>5, <2>6 DEF IInv, LastIsScheduled, Told
<1>14. ASSUME ClientCatchesUp PROVE IInv'
  <2>1. PICK m \in ClientMargins : ClientCommits(hint, m)
    BY <1>14 DEF ClientCatchesUp
  <2>2. m \in Size /\ hint' \in Size
    BY <1>14, ClientAssumption DEF ClientCatchesUp, Unset, Size
  <2> QED BY <1>1, <2>1, <2>2, ClientCommitsStep
<1>15. ASSUME ClientRedraws PROVE IInv'
  <2>1. Content \in Size /\ Shadow \in Size /\ hint' \in Size
    BY <1>1, <1>15, SizeMinusIsSize DEF Content, Shadow, ClientRedraws, Unset, Size
  <2> QED BY <1>15, <2>1, ClientCommitsStep DEF ClientRedraws
<1>16. ASSUME UNCHANGED vars PROVE IInv'
  BY <1>1, <1>2, <1>16, HandlerStep DEF vars, client, host
<1> QED BY <1>4, <1>5, <1>6, <1>7, <1>8, <1>9, <1>10, <1>11, <1>12, <1>13, <1>14,
           <1>15, <1>16 DEF Next

(***************************************************************************)
(* The theorems.                                                           *)
(***************************************************************************)
\* The strengthened invariant holds in every reachable state of a toplevel,
\* whatever the interleaving of ConfigureNotify, PropertyNotify and commits.
THEOREM Inductive == Spec => []IInv
BY InitIInv, NextIInv, PTL DEF Spec

\* The records wl-x11 keeps of a toplevel stay well-formed; in particular no
\* size computed by wlx_toplevel_size_for_output becomes negative.
THEOREM TypeCorrect == Spec => []TypeOK
<1>1. IInv => TypeOK
  BY DEF IInv
<1> QED BY <1>1, Inductive, PTL

\* While size_from_wm is set the client has been told the output's size.
THEOREM HostAuthority == Spec => []HostAuthorityTold
<1>1. IInv => HostAuthorityTold
  BY DEF IInv, Told, HostAuthorityTold
<1> QED BY <1>1, Inductive, PTL

\* last_client_conf is the size of the newest configure on its way.
THEOREM LastConfTold == Spec => []LastConfIsNewestTold
<1>1. IInv => LastConfIsNewestTold
  BY DEF IInv, LastIsScheduled, NewestIsScheduled, LastConfIsNewestTold
<1> QED BY <1>1, Inductive, PTL

\* While a maximized or fullscreen state is acked, the output takes no size but
\* that of the X11 window: no commit of the client's moves the host.
THEOREM TiledMode == Spec => TiledModeIsHosts
<1> DEFINE Obeys == pending # {} /\ pending' # {} /\ win'.mode # win.mode
                       => win'.mode = real'
<1>1. ASSUME IInv, [Next]_vars PROVE Obeys
  <2>1. /\ win \in Window /\ geo \in Size /\ real \in Size /\ win.mode \in Size
        /\ pending \in SUBSET States /\ current \in SUBSET States
        /\ hostStates \in SUBSET States
    BY <1>1 DEF IInv, TypeOK, Window
  <2>2. IsTiled(pending, current) \in BOOLEAN
    BY DEF IsTiled
  <2>3. ASSUME NEW c \in Size, NEW m \in Size, ClientCommits(c, m) PROVE Obeys
    <3>1. geo' \in Size /\ buf' \in Size /\ win' = SurfaceCommit(win, geo', buf')
      BY <2>3 DEF ClientCommits, SizePlus, Size, Unset
    <3>2. pending # {} => win'.mode = win.mode
      BY <2>1, <3>1, SurfaceCommitTells
    <3> QED BY <3>2
  <2>4. CASE HostMoves
    <3>1. ASSUME NEW s \in HostSizes \cup {win.mode}, ReparentNotify(s) PROVE Obeys
      <4>1. CASE s = win.mode
        BY <3>1, <4>1 DEF ReparentNotify
      <4>2. CASE s # win.mode
        <5> DEFINE resized == ResizeOutputTo(win, s, geo, IsTiled(pending, current))
        <5>1. s \in Size /\ Unscale(s) \in Size
          BY <4>2, HostAssumption, ScaledSizes
        <5>2. resized \in Window /\ resized.mode \in {win.mode, s}
          <6>1. Keeps(win, resized) /\ resized.mode = IF BelowMinimum(s) THEN win.mode ELSE s
            BY <2>1, <2>2, <5>1, ResizeOutputToTells
          <6> HIDE DEF resized
          <6> QED BY <6>1 DEF Keeps
        <5> HIDE DEF resized
        <5>3. SetSize(resized, Unscale(s)).mode = resized.mode
          BY <5>1, <5>2, SetSizeKeeps
        <5>4. win' = SetSize(resized, Unscale(s)) /\ real' = s
          BY <3>1, <4>2 DEF ReparentNotify, resized
        <5> QED BY <5>2, <5>3, <5>4
      <4> QED BY <4>1, <4>2
    <3>2. ASSUME NEW s \in HostSizes, HostResizes(s) PROVE Obeys
      BY <3>2 DEF HostResizes
    <3>3. ASSUME NEW st \in SUBSET States, HostChangesStates(st) PROVE Obeys
      BY <3>3 DEF HostChangesStates
    <3> QED BY <2>4, <3>1, <3>2, <3>3 DEF HostMoves
  <2>5. CASE ClientMoves
    <3>1. ASSUME NEW c \in ClientSizes, NEW m \in ClientMargins, ClientPicksSize(c, m)
          PROVE Obeys
      BY <2>3, <3>1, ClientAssumption DEF ClientPicksSize
    <3>2. ASSUME NEW f \in ClientStates, NEW want \in BOOLEAN, ClientRequestsState(f, want)
          PROVE Obeys
      BY <2>1, <3>2 DEF ClientRequestsState, Window
    <3> QED BY <2>5, <3>1, <3>2 DEF ClientMoves
  <2>6. CASE Compositor
    <3>1. ASSUME OutputRequestState PROVE Obeys
      <4> DEFINE taken == [win EXCEPT !.sizeFromWm = TRUE]
      <4>1. taken \in Window
        BY <2>1 DEF Window
      <4> HIDE DEF taken
      <4>2. HandleNetWmState(taken, hostStates) \in Window
        BY <2>1, <4>1, HandleNetWmStateTells DEF IInv, TypeOK, Keeps
      <4>3. win'.mode = real /\ real' = real
        BY <2>1, <2>2, <3>1, <4>2, CommitModeTells DEF OutputRequestState, taken, host
      <4> QED BY <4>3
    <3>2. ASSUME NetWmStateNotify PROVE Obeys
      BY <2>1, <3>2, HandleNetWmStateTells DEF NetWmStateNotify
    <3>3. ASSUME SendConfigure \/ FitWindowExpires \/ FillWindowExpires PROVE Obeys
      BY <2>1, <3>3 DEF SendConfigure, FitWindowExpires, FillWindowExpires, Window
    <3> QED BY <2>6, <3>1, <3>2, <3>3 DEF Compositor
  <2>7. CASE ClientFollows
    <3>1. ASSUME NEW k \in 1..Len(configures), ClientAcks(k) PROVE Obeys
      BY <3>1 DEF ClientAcks
    <3>2. ASSUME ClientCatchesUp PROVE Obeys
      <4>1. hint \in Size
        BY <1>1 DEF IInv, TypeOK
      <4> QED BY <2>3, <3>2, <4>1, ClientAssumption DEF ClientCatchesUp
    <3>3. ASSUME ClientRedraws PROVE Obeys
      <4>1. Content \in Size /\ Shadow \in Size
        BY <1>1, SizeMinusIsSize DEF IInv, TypeOK, Content, Shadow, Unset, Size
      <4> QED BY <2>3, <3>3, <4>1 DEF ClientRedraws
    <3> QED BY <2>7, <3>1, <3>2, <3>3 DEF ClientFollows
  <2>8. CASE UNCHANGED vars
    BY <2>8 DEF vars
  <2> QED BY <1>1, <2>4, <2>5, <2>6, <2>7, <2>8 DEF Next
<1>2. IInv /\ [Next]_vars => [pending # {} /\ pending' # {} /\ win'.mode # win.mode
                                 => win'.mode = real']_vars
  BY <1>1
<1> QED BY <1>2, Inductive, PTL DEF Spec, TiledModeIsHosts

\* A client that sets its geometry and draws the size it was told last leaves a
\* size of the host's alone, at every scale and whatever the rounding: the output
\* keeps its size, the host keeps the decision and nothing is asked of the client.
THEOREM ObeyingHost ==
    ASSUME ~PreferCsd, SetsGeometry
    PROVE  Spec => [][ClientCatchesUp /\ win.sizeFromWm /\ hint = win.lastConf
                      => Stands(win, win')]_vars
<1>1. IInv /\ ClientCatchesUp /\ win.sizeFromWm /\ hint = win.lastConf => Stands(win, win')
  <2> SUFFICES ASSUME IInv, ClientCatchesUp, win.sizeFromWm, hint = win.lastConf
               PROVE  Stands(win, win')
    OBVIOUS
  <2>1. PICK m \in ClientMargins : ClientCommits(hint, m)
    BY DEF ClientCatchesUp
  <2>2. geo' = win.lastConf /\ buf' \in Size /\ win' = SurfaceCommit(win, geo', buf')
    BY <2>1, ClientAssumption DEF ClientCommits, SizePlus, Size, IInv, TypeOK
  <2>3. win \in Window /\ Told(win)
    BY DEF IInv, TypeOK
  <2> QED BY <2>2, <2>3, ObedientCommit
<1>2. IInv /\ [Next]_vars => [ClientCatchesUp /\ win.sizeFromWm /\ hint = win.lastConf
                             => Stands(win, win')]_vars
  BY <1>1
<1> QED BY <1>2, Inductive, PTL DEF Spec

\* So does, up to scale 3, a client that draws the output's size in logical pixels,
\* whoever decided that size: rounding it twice makes no mismatch.  A logical size
\* below WLX_MIN_OUTPUT_SIZE is excepted: toplevel_preferred_size replaces it.
THEOREM ObeyingOutput ==
    ASSUME ~PreferCsd, SetsGeometry, ScaleNum <= 3 * ScaleDen
    PROVE  Spec => [][/\ ClientCatchesUp /\ hint = Unscale(win.mode)
                      /\ win.mode[1] > 1 /\ win.mode[2] > 1 /\ ~BelowMinimum(hint)
                      => Stands(win, win')]_vars
<1> DEFINE Obeys == /\ ClientCatchesUp /\ hint = Unscale(win.mode)
                    /\ win.mode[1] > 1 /\ win.mode[2] > 1 /\ ~BelowMinimum(hint)
                    => Stands(win, win')
<1>1. IInv => Obeys
  <2> SUFFICES ASSUME IInv, ClientCatchesUp, hint = Unscale(win.mode),
                      win.mode[1] > 1, win.mode[2] > 1, ~BelowMinimum(hint)
               PROVE  Stands(win, win')
    OBVIOUS
  <2>1. PICK m \in ClientMargins : ClientCommits(hint, m)
    BY DEF ClientCatchesUp
  <2>2. geo' = Unscale(win.mode) /\ buf' \in Size /\ win' = SurfaceCommit(win, geo', buf')
    BY <2>1, ClientAssumption DEF ClientCommits, SizePlus, Size, IInv, TypeOK
  <2>3. win \in Window
    BY DEF IInv, TypeOK
  <2> QED BY <2>2, <2>3, ScaledCommit
<1>2. IInv /\ [Next]_vars => [Obeys]_vars
  BY <1>1
<1> QED BY <1>2, Inductive, PTL DEF Spec

\* A fit sets the output to the client's size scaled.  From scale 1 upwards that
\* output is the client's own size again, so the fit asks nothing of the client:
\* wlx_unscale_size undoes wlx_scale_size.
THEOREM FitsExactly ==
    ASSUME ScaleNum >= ScaleDen
    PROVE  \A s \in Size : Positive(s) => Unscale(Scale(s)) = s
<1> SUFFICES ASSUME NEW s \in Size, Positive(s) PROVE Unscale(Scale(s)) = s
  OBVIOUS
<1>1. s[1] \in Nat /\ s[1] > 0 /\ s[2] \in Nat /\ s[2] > 0 /\ s = <<s[1], s[2]>>
  BY DEF Size, Positive
<1> QED BY <1>1, ScaledBack DEF Scale, Unscale
=============================================================================
