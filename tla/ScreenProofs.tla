---------------------------- MODULE ScreenProofs ----------------------------
(***************************************************************************)
(* What BatchRects returns for every frame, and what holds of the screens  *)
(* of the clients for every size, every set of rectangles the VM may draw  *)
(* and any number of clients.                                              *)
(***************************************************************************)
EXTENDS Screen, WellFoundedInduction, TLAPS

-----------------------------------------------------------------------------
(* Least and greatest elements.                                            *)

LEMMA MinOfNaturals ==
    ASSUME NEW T \in SUBSET Nat, T # {}
    PROVE  Min(T) \in T /\ \A t \in T : Min(T) <= t
  <1>1. \E m \in T : \A t \in T : m <= t
    <2>1. PICK m \in T : \A t \in T : ~ (<<t, m>> \in OpToRel(<, Nat))
      BY WFMin, NatLessThanWellFounded
    <2>2. \A t \in T : ~ (t < m)
      BY <2>1 DEF OpToRel
    <2> QED BY <2>2
  <1> QED BY <1>1 DEF Min

\* The least bound of a bounded set is one of its elements: a bound that is
\* none could be lowered by one.
LEMMA MaxOfBounded ==
    ASSUME NEW T \in SUBSET Nat, T # {}, NEW n \in Nat, \A t \in T : t <= n
    PROVE  Max(T) \in T /\ \A t \in T : Max(T) >= t
  <1> DEFINE Bounds == {b \in Nat : \A t \in T : t <= b}
  <1>1. Min(Bounds) \in Bounds /\ \A b \in Bounds : Min(Bounds) <= b
    BY MinOfNaturals
  <1> DEFINE m == Min(Bounds)
  <1>2. m \in Nat /\ \A t \in T : t <= m
    BY <1>1
  <1>a. \A c \in Nat : (\A t \in T : t <= c) => m <= c
    BY <1>1
  <1> HIDE DEF m, Bounds
  <1>3. m \in T
    <2> SUFFICES ASSUME m \notin T PROVE FALSE
      OBVIOUS
    <2>1. \A t \in T : t < m
      BY <1>2
    <2>2. PICK t \in T : t \in Nat /\ t < m
      BY <2>1
    <2>3. m - 1 \in Nat
      BY <1>2, <2>2
    <2>4. \A s \in T : s <= m - 1
      BY <1>2, <2>1
    <2> QED BY <1>2, <1>a, <2>3, <2>4
  <1>4. \E x \in T : \A t \in T : x >= t
    BY <1>2, <1>3
  <1> QED BY <1>4 DEF Max

-----------------------------------------------------------------------------
\* One axis of the batch of R: f are the near edges and g the extents, which
\* end before n; x and w are taken as BatchRects takes them.
Axis(R, n, f, g, X, x, W, w) ==
    /\ R # {} /\ n \in Nat
    /\ f \in [R -> Nat] /\ g \in [R -> Nat]
    /\ \A r \in R : f[r] + g[r] <= n
    /\ (\A t : t \in X <=> t = n \/ \E r \in R : t = f[r]) /\ x = Min(X)
    /\ (\A t : t \in W <=> t = 0 \/ \E r \in R : t = g[r] + f[r] - x) /\ w = Max(W)

\* The interval from x of length w is the least around all, and ends before n.
IsHull(R, n, f, g, x, w) ==
    /\ x \in Nat /\ w \in Nat /\ x + w <= n
    /\ \A r \in R : x <= f[r] /\ f[r] + g[r] <= x + w
    /\ \A a, b \in Nat : (\A r \in R : a <= f[r] /\ f[r] + g[r] <= b)
                           => a <= x /\ x + w <= b

LEMMA AxisHull ==
    ASSUME NEW R, NEW n, NEW f, NEW g, NEW X, NEW x, NEW W, NEW w,
           Axis(R, n, f, g, X, x, W, w)
    PROVE  IsHull(R, n, f, g, x, w)
  <1> USE DEF Axis
  <1>1. \A r \in R : f[r] \in Nat /\ g[r] \in Nat
    OBVIOUS
  <1>2. x \in X /\ \A t \in X : x <= t
    <2>1. X \in SUBSET Nat /\ n \in X
      BY <1>1
    <2> QED BY <2>1, MinOfNaturals
  <1>3. x \in Nat /\ x <= n /\ \A r \in R : x <= f[r]
    BY <1>1, <1>2
  <1>4. ASSUME NEW t \in W PROVE t \in Nat /\ t <= n
    <2>1. CASE t = 0
      BY <2>1
    <2>2. ASSUME NEW r \in R, t = g[r] + f[r] - x PROVE t \in Nat /\ t <= n
      <3>1. f[r] \in Nat /\ g[r] \in Nat /\ x <= f[r] /\ f[r] + g[r] <= n
        BY <1>1, <1>3
      <3> QED BY <1>3, <2>2, <3>1
    <2> QED BY <2>1, <2>2
  <1>5. w \in W /\ \A t \in W : w >= t
    <2>1. W \in SUBSET Nat /\ 0 \in W
      BY <1>4
    <2> QED BY <1>4, <2>1, MaxOfBounded
  <1>6. w \in Nat
    BY <1>4, <1>5
  <1>7. ASSUME NEW r \in R PROVE f[r] + g[r] <= x + w
    <2>1. w >= g[r] + f[r] - x
      BY <1>5
    <2>2. f[r] \in Nat /\ g[r] \in Nat
      BY <1>1
    <2> QED BY <1>3, <1>6, <2>1, <2>2
  <1>8. ASSUME NEW b \in Nat, x <= b, \A r \in R : f[r] + g[r] <= b
        PROVE  x + w <= b
    <2>1. CASE w = 0
      BY <1>3, <1>8, <2>1
    <2>2. ASSUME NEW r \in R, w = g[r] + f[r] - x PROVE x + w <= b
      <3>1. f[r] \in Nat /\ g[r] \in Nat /\ f[r] + g[r] <= b
        BY <1>1, <1>8
      <3> QED BY <1>3, <2>2, <3>1
    <2> QED BY <1>5, <2>1, <2>2
  <1>9. x + w <= n
    BY <1>3, <1>8
  <1>10. ASSUME NEW a \in Nat, NEW b \in Nat,
                \A r \in R : a <= f[r] /\ f[r] + g[r] <= b
         PROVE  a <= x /\ x + w <= b
    <2>1. PICK r \in R : TRUE
      OBVIOUS
    <2>2. /\ f[r] \in Nat /\ g[r] \in Nat /\ a <= f[r]
          /\ f[r] + g[r] <= b /\ f[r] + g[r] <= n /\ x <= f[r]
      BY <1>1, <1>3, <1>10
    <2>3. x = n \/ \E s \in R : x = f[s]
      BY <1>2
    <2>4. a <= x
      BY <1>3, <1>10, <2>2, <2>3
    <2>5. x <= b
      BY <1>3, <2>2
    <2> QED BY <1>8, <1>10, <2>4, <2>5
  <1> QED BY <1>3, <1>6, <1>7, <1>9, <1>10 DEF IsHull

-----------------------------------------------------------------------------
\* For every screen and every frame with a rectangle in it, the batch stays
\* within the screen, every rectangle of the frame lies in the batch, and no
\* rectangle around them all is smaller (display/batch.ts 3-41).
THEOREM BatchIsHull ==
    ASSUME NEW dims \in [width : Nat, height : Nat],
           NEW frame \in Seq(Rectangles), frame # <<>>,
           \A i \in DOMAIN frame : Within(frame[i], Whole(dims))
    PROVE  LET b == BatchRects(dims, frame)
           IN  /\ b \in Rectangles
               /\ Within(b, Whole(dims))
               /\ \A i \in DOMAIN frame : Within(frame[i], b)
               /\ \A s \in Rectangles :
                     (\A i \in DOMAIN frame : Within(frame[i], s)) => Within(b, s)
  <1> DEFINE R == {frame[i] : i \in DOMAIN frame}
             b == BatchRects(dims, frame)
             x == Min({dims.width} \cup {r.x : r \in R})
             y == Min({dims.height} \cup {r.y : r \in R})
             w == Max({0} \cup {r.width + r.x - x : r \in R})
             h == Max({0} \cup {r.height + r.y - y : r \in R})
  <1>1. /\ Len(frame) \in Nat /\ Len(frame) # 0 /\ 1 \in DOMAIN frame
        /\ \A i \in DOMAIN frame : frame[i] \in Rectangles
    OBVIOUS
  <1>2. /\ R # {} /\ \A r \in R : r \in Rectangles /\ Within(r, Whole(dims))
        /\ \A i \in DOMAIN frame : frame[i] \in R
    BY <1>1
  <1>3. dims.width \in Nat /\ dims.height \in Nat
    OBVIOUS
  <1>4. \A r \in R : /\ r.x + r.width <= dims.width /\ r.y + r.height <= dims.height
                      /\ r.x \in Nat /\ r.y \in Nat /\ r.width \in Nat /\ r.height \in Nat
    <2> SUFFICES ASSUME NEW r \in R
                 PROVE  /\ r.x + r.width <= dims.width /\ r.y + r.height <= dims.height
                        /\ r.x \in Nat /\ r.y \in Nat /\ r.width \in Nat /\ r.height \in Nat
      OBVIOUS
    <2>1. r \in Rectangles /\ Within(r, Whole(dims))
      BY <1>2
    <2> HIDE DEF R
    <2> QED BY <1>3, <2>1 DEF Within, Whole, Rect, Rectangles
  <1> HIDE DEF R
  <1>5. /\ x \in Nat /\ w \in Nat /\ x + w <= dims.width
        /\ \A r \in R : x <= r.x /\ r.x + r.width <= x + w
        /\ \A a, c \in Nat : (\A r \in R : a <= r.x /\ r.x + r.width <= c)
                               => a <= x /\ x + w <= c
    <2> DEFINE f == [r \in R |-> r.x]
               g == [r \in R |-> r.width]
    <2>1. f \in [R -> Nat] /\ g \in [R -> Nat] /\ \A r \in R : f[r] + g[r] <= dims.width
      BY <1>4
    <2> DEFINE near == {dims.width} \cup {r.x : r \in R}
               extent == {0} \cup {r.width + r.x - x : r \in R}
    <2>2. /\ \A t : t \in near <=> t = dims.width \/ \E r \in R : t = f[r]
          /\ x = Min(near)
      OBVIOUS
    <2>3. /\ \A t : t \in extent <=> t = 0 \/ \E r \in R : t = g[r] + f[r] - x
          /\ w = Max(extent)
      OBVIOUS
    <2>4. \A r \in R : f[r] = r.x /\ g[r] = r.width
      OBVIOUS
    <2> HIDE DEF f, g, near, extent, x, w
    <2>5. Axis(R, dims.width, f, g, near, x, extent, w)
      BY <1>2, <1>3, <2>1, <2>2, <2>3 DEF Axis
    <2>6. IsHull(R, dims.width, f, g, x, w)
      BY <2>5, AxisHull
    <2> QED BY <2>4, <2>6 DEF IsHull
  <1>6. /\ y \in Nat /\ h \in Nat /\ y + h <= dims.height
        /\ \A r \in R : y <= r.y /\ r.y + r.height <= y + h
        /\ \A a, c \in Nat : (\A r \in R : a <= r.y /\ r.y + r.height <= c)
                               => a <= y /\ y + h <= c
    <2> DEFINE f == [r \in R |-> r.y]
               g == [r \in R |-> r.height]
    <2>1. f \in [R -> Nat] /\ g \in [R -> Nat] /\ \A r \in R : f[r] + g[r] <= dims.height
      BY <1>4
    <2> DEFINE near == {dims.height} \cup {r.y : r \in R}
               extent == {0} \cup {r.height + r.y - y : r \in R}
    <2>2. /\ \A t : t \in near <=> t = dims.height \/ \E r \in R : t = f[r]
          /\ y = Min(near)
      OBVIOUS
    <2>3. /\ \A t : t \in extent <=> t = 0 \/ \E r \in R : t = g[r] + f[r] - y
          /\ h = Max(extent)
      OBVIOUS
    <2>4. \A r \in R : f[r] = r.y /\ g[r] = r.height
      OBVIOUS
    <2> HIDE DEF f, g, near, extent, y, h
    <2>5. Axis(R, dims.height, f, g, near, y, extent, h)
      BY <1>2, <1>3, <2>1, <2>2, <2>3 DEF Axis
    <2>6. IsHull(R, dims.height, f, g, y, h)
      BY <2>5, AxisHull
    <2> QED BY <2>4, <2>6 DEF IsHull
  <1>7. CASE Len(frame) = 1 /\ frame[1].width = dims.width /\ frame[1].height = dims.height
    <2>1. b = frame[1] /\ \A i \in DOMAIN frame : i = 1
      BY <1>1, <1>7 DEF BatchRects
    <2>2. b \in Rectangles /\ Within(b, Whole(dims)) /\ \A i \in DOMAIN frame : Within(frame[i], b)
      BY <1>1, <1>2, <2>1 DEF Within, Rectangles
    <2> QED BY <1>1, <2>1, <2>2
  <1>8. CASE ~(Len(frame) = 1 /\ frame[1].width = dims.width /\ frame[1].height = dims.height)
    <2>1. b = Rect(x, y, w, h)
      BY <1>1, <1>8 DEF BatchRects, R
    <2> HIDE DEF b, x, y, w, h
    <2>2. b.x = x /\ b.y = y /\ b.width = w /\ b.height = h /\ b \in Rectangles
      BY <1>5, <1>6, <2>1 DEF Rect, Rectangles
    <2>3. Within(b, Whole(dims))
      BY <1>3, <1>5, <1>6, <2>2 DEF Within, Whole, Rect
    <2>4. \A i \in DOMAIN frame : Within(frame[i], b)
      BY <1>2, <1>5, <1>6, <2>2 DEF Within
    <2>5. ASSUME NEW s \in Rectangles, \A i \in DOMAIN frame : Within(frame[i], s)
          PROVE  Within(b, s)
      <3>1. \A r \in R : Within(r, s)
        BY <2>5 DEF R
      <3>2. s.x \in Nat /\ s.y \in Nat /\ s.x + s.width \in Nat /\ s.y + s.height \in Nat
        BY DEF Rectangles
      <3>3. \A r \in R : /\ s.x <= r.x /\ r.x + r.width <= s.x + s.width
                          /\ s.y <= r.y /\ r.y + r.height <= s.y + s.height
        BY <3>1 DEF Within
      <3>4. s.x <= x /\ x + w <= s.x + s.width
        BY <1>5, <3>2, <3>3
      <3>5. s.y <= y /\ y + h <= s.y + s.height
        BY <1>6, <3>2, <3>3
      <3> QED BY <2>2, <3>4, <3>5 DEF Within
    <2> QED BY <2>2, <2>3, <2>4, <2>5 DEF b
  <1> QED BY <1>7, <1>8

\* Within, in pixels.
LEMMA WithinPixels ==
    ASSUME NEW r \in Rectangles, NEW s \in Rectangles, Within(r, s)
    PROVE  Pixels(r) \subseteq Pixels(s)
  <1>1. /\ r.x \in Nat /\ r.y \in Nat /\ r.width \in Nat /\ r.height \in Nat
        /\ s.x \in Nat /\ s.y \in Nat /\ s.width \in Nat /\ s.height \in Nat
    BY DEF Rectangles
  <1>2. r.x .. r.x + r.width - 1 \subseteq s.x .. s.x + s.width - 1
    BY <1>1 DEF Within
  <1>3. r.y .. r.y + r.height - 1 \subseteq s.y .. s.y + s.height - 1
    BY <1>1 DEF Within
  <1> QED BY <1>2, <1>3 DEF Pixels

-----------------------------------------------------------------------------
(* The invariant.                                                          *)

Count == 0 .. MaxUpdates + MaxResizes

\* The rectangles that come in lie within the screen, and every drawing and
\* every change of size has a number of its own.
FrameInv ==
    /\ rects \in Seq(Rectangles)
    /\ \A i \in DOMAIN rects : Within(rects[i], Whole(Size))
    /\ updates <= MaxUpdates + size
    /\ \A p \in Screen : fb[p] <= updates

\* A job reads nothing older than what was there when it was asked for, and
\* nothing newer than what is there now.
JobsOrdered ==
    \A j \in jobs, p \in Screen :
        /\ j.from[p] <= fb[p]
        /\ j.till # Live => j.from[p] <= j.till[p] /\ j.till[p] <= fb[p]

\* A full screen is announced with a size the screen has or had.
SizesOrdered == \A j \in jobs : j.size <= size

FullIsWhole == \A j \in jobs : j.kind = "full" => j.box = Screen

\* A full screen asked for while the screen is hidden goes to staff; showing the
\* screen is never asked for while it is hidden.
ClosedToStaff ==
    \A j \in jobs : j.kind # "rect" /\ ~j.open => j.kind = "full" /\ j.to \subseteq staff

\* A job whose end, or what follows it, brings c the present state of p.
Brings(j, c, p) ==
    \/ j.kind = "show"
    \/ /\ p \in j.box /\ j.from[p] = fb[p]
       /\ j.kind = "rect" \/ (j.kind = "full" /\ c \in j.to)

BringsSize(j, c) ==
    \/ j.kind = "show"
    \/ j.kind = "full" /\ c \in j.to /\ j.size = size

SizeArrives(c) == view[c].size = size \/ \E j \in jobs : BringsSize(j, c)

PixelArrives(c, p) ==
    \/ view[c].pic[p] = fb[p]
    \/ \E i \in DOMAIN rects : p \in Pixels(rects[i])
    \/ \E j \in jobs : Brings(j, c, p)

\* What a client lacks is on its way to it: it is among the rectangles that
\* come in, or a job under way brings it.  Who was told that he cannot connect is
\* left out until a full screen is asked for.
OnItsWay ==
    ~hidden => \A c \in joined \ (overtaken \cup blank), p \in Screen : SizeArrives(c) /\ PixelArrives(c, p)

\* The inductive invariant.
Sound == TypeOK /\ FrameInv /\ JobsOrdered /\ FullIsWhole
IInv == Sound /\ SizesOrdered /\ ClosedToStaff /\ HiddenUnlessInFlight /\ OnItsWay

-----------------------------------------------------------------------------
(* Screens, jobs and pictures.                                             *)

LEMMA ScreenIs ==
    /\ Whole(Size) \in Rectangles
    /\ Within(Whole(Size), Whole(Size))
    /\ Size \in [width : Nat, height : Nat]
    /\ Pixels(Whole(Size)) = Screen
    /\ Screen # {}
  <1>1. /\ Whole(Size) \in Rectangles
        /\ Within(Whole(Size), Whole(Size))
        /\ Size \in [width : Nat, height : Nat]
    BY SizeAssumption DEF Whole, Rect, Rectangles, Within
  <1>2. 0 \in 0 .. 0 + Size.width - 1 /\ 0 \in 0 .. 0 + Size.height - 1
    BY SizeAssumption
  <1>3. <<0, 0>> \in Pixels(Whole(Size))
    BY <1>2 DEF Pixels, Whole, Rect
  <1> QED BY <1>1, <1>3 DEF Screen

LEMMA InScreen ==
    ASSUME NEW r \in Rectangles, Within(r, Whole(Size))
    PROVE  Pixels(r) \subseteq Screen
  BY ScreenIs, WithinPixels

\* The batch of a frame covers every pixel of its rectangles and no other place
\* than the screen.
LEMMA BatchCovers ==
    ASSUME FrameInv, rects # <<>>
    PROVE  /\ Pixels(BatchRects(Size, rects)) \subseteq Screen
           /\ \A i \in DOMAIN rects :
                 Pixels(rects[i]) \subseteq Pixels(BatchRects(Size, rects))
  <1> DEFINE b == BatchRects(Size, rects)
  <1>1. /\ b \in Rectangles /\ Within(b, Whole(Size))
        /\ \A i \in DOMAIN rects : Within(rects[i], b)
    BY ScreenIs, BatchIsHull DEF FrameInv
  <1>2. \A i \in DOMAIN rects : rects[i] \in Rectangles
    BY DEF FrameInv
  <1> HIDE DEF b
  <1> QED BY <1>1, <1>2, InScreen, WithinPixels DEF b

LEMMA JobFields ==
    ASSUME NEW j \in Jobs
    PROVE  /\ j.kind \in {"rect", "full", "show"} /\ j.to \in SUBSET Clients
           /\ j.n \in 0 .. MaxHides /\ j.box \in SUBSET Screen
           /\ j.size \in 0 .. MaxResizes /\ j.open \in BOOLEAN
           /\ j.from \in [Screen -> Count]
           /\ j.till \in {Live} \cup [Screen -> Count]
  BY DEF Jobs, Count

LEMMA NewJob ==
    ASSUME TypeOK, NEW kind \in {"rect", "full", "show"}, NEW to \in SUBSET Clients,
           NEW n \in 0 .. MaxHides, NEW box \in SUBSET Screen
    PROVE  /\ Job(kind, to, n, box) \in Jobs
           /\ Job(kind, to, n, box).kind = kind /\ Job(kind, to, n, box).to = to
           /\ Job(kind, to, n, box).box = box /\ Job(kind, to, n, box).size = size
           /\ Job(kind, to, n, box).from = fb /\ Job(kind, to, n, box).till = Live
           /\ Job(kind, to, n, box).open = ~hidden
  BY DEF Job, Jobs, TypeOK

LEMMA Reopened ==
    ASSUME NEW j \in Jobs, NEW open \in BOOLEAN
    PROVE  LET k == [j EXCEPT !.open = open]
           IN  /\ k \in Jobs /\ k.open = open
               /\ k.kind = j.kind /\ k.to = j.to /\ k.box = j.box /\ k.size = j.size
               /\ k.from = j.from /\ k.till = j.till
  BY DEF Jobs

\* What is read lies between what was there and what is there.
LEMMA EncodedBetween ==
    ASSUME Sound, NEW j \in jobs, NEW pic \in Encoded(j)
    PROVE  /\ DOMAIN pic = j.box /\ j.box \subseteq Screen
           /\ \A p \in j.box : /\ pic[p] \in Count /\ j.from[p] \in Count
                               /\ j.from[p] <= pic[p] /\ pic[p] <= fb[p]
  <1> DEFINE till == IF j.till = Live THEN fb ELSE j.till
  <1>1. j \in Jobs
    BY DEF Sound, TypeOK
  <1>2. pic \in [j.box -> 0 .. updates] /\ \A p \in j.box : j.from[p] <= pic[p] /\ pic[p] <= till[p]
    BY DEF Encoded
  <1>3. \A p \in Screen : till[p] \in Count /\ fb[p] \in Count /\ j.from[p] \in Count /\ till[p] <= fb[p]
    BY <1>1, JobFields DEF Sound, TypeOK, JobsOrdered, Count
  <1>4. updates \in Count
    BY DEF Sound, TypeOK, Count
  <1> HIDE DEF till
  <1>5. j.box \subseteq Screen
    BY <1>1, JobFields
  <1>6. ASSUME NEW p \in j.box
        PROVE  /\ pic[p] \in Count /\ j.from[p] \in Count
               /\ j.from[p] <= pic[p] /\ pic[p] <= fb[p]
    <2>1. pic[p] \in 0 .. updates /\ p \in Screen
      BY <1>2, <1>5
    <2> QED BY <1>2, <1>3, <1>4, <2>1, BoundsAssumption DEF Count
  <1> QED BY <1>2, <1>5, <1>6

\* What a client has after a picture is sent to some.
LEMMA SentView ==
    ASSUME TypeOK, NEW to \in SUBSET Clients, NEW pic, NEW s \in {Veil} \cup 0 .. MaxResizes,
           Sent(to, pic, s), DOMAIN pic \subseteq Screen, \A p \in DOMAIN pic : pic[p] \in Count
    PROVE  /\ \A c \in Clients : view'[c] \in Views
           /\ overtaken' \in SUBSET Clients /\ overtaken \subseteq overtaken'
           /\ \A c \in Clients : c \notin to => view'[c] = view[c]
           /\ \A c \in to :
                 /\ view'[c].size = IF s = Veil THEN view[c].size ELSE s
                 /\ \A p \in Screen : view'[c].pic[p] =
                        IF p \in DOMAIN pic THEN pic[p] ELSE view[c].pic[p]
                 /\ s # Veil /\ s < view[c].size => c \in overtaken'
                 /\ \A p \in DOMAIN pic : pic[p] < view[c].pic[p] => c \in overtaken'
  <1>1. \A c \in Clients : /\ view[c].size \in -1 .. MaxResizes
                           /\ view[c].pic \in [Screen -> -1 .. MaxUpdates + MaxResizes]
    BY DEF TypeOK, Views, Pictures
  <1>2. \A c \in Clients : c \notin to => view'[c] = view[c]
    BY DEF Sent
  <1>3. ASSUME NEW c \in to
        PROVE  /\ view'[c] = [size |-> IF s = Veil THEN view[c].size ELSE s,
                              pic |-> Over(view[c].pic, pic)]
               /\ s # Veil /\ s < view[c].size => c \in overtaken'
               /\ \A p \in DOMAIN pic : pic[p] < view[c].pic[p] => c \in overtaken'
    BY DEF Sent
  <1>4. ASSUME NEW c \in to
        PROVE  Over(view[c].pic, pic) \in Pictures
    <2>1. view[c].pic \in [Screen -> -1 .. MaxUpdates + MaxResizes]
      BY <1>1
    <2>2. \A p \in Screen : (IF p \in DOMAIN pic THEN pic[p] ELSE view[c].pic[p])
                               \in -1 .. MaxUpdates + MaxResizes
      BY <2>1, BoundsAssumption DEF Count
    <2> QED BY <2>2 DEF Over, Pictures
  <1>5. ASSUME NEW c \in Clients PROVE view'[c] \in Views
    <2>1. CASE c \notin to
      BY <1>2, <2>1 DEF TypeOK
    <2>2. CASE c \in to
      <3> DEFINE news == IF s = Veil THEN view[c].size ELSE s
                 newp == Over(view[c].pic, pic)
      <3>1. news \in -1 .. MaxResizes
        <4>1. CASE s = Veil
          BY <1>1, <4>1
        <4>2. CASE s # Veil
          BY <4>2, BoundsAssumption
        <4> QED BY <4>1, <4>2
      <3>2. newp \in Pictures /\ view'[c] = [size |-> news, pic |-> newp]
        BY <1>3, <1>4, <2>2
      <3> HIDE DEF news, newp
      <3> QED BY <3>1, <3>2 DEF Views
    <2> QED BY <2>1, <2>2
  <1>6. overtaken' \in SUBSET Clients /\ overtaken \subseteq overtaken'
    BY DEF Sent, TypeOK
  <1>7. ASSUME NEW c \in to
        PROVE  /\ view'[c].size = IF s = Veil THEN view[c].size ELSE s
               /\ \A p \in Screen : view'[c].pic[p] =
                      IF p \in DOMAIN pic THEN pic[p] ELSE view[c].pic[p]
    <2> DEFINE news == IF s = Veil THEN view[c].size ELSE s
               newp == Over(view[c].pic, pic)
    <2>1. view'[c] = [size |-> news, pic |-> newp]
      BY <1>3
    <2>2. \A p \in Screen : newp[p] = IF p \in DOMAIN pic THEN pic[p] ELSE view[c].pic[p]
      BY DEF Over
    <2> HIDE DEF news, newp
    <2>3. view'[c].size = news /\ view'[c].pic = newp
      BY <2>1
    <2> QED BY <2>2, <2>3 DEF news
  <1> QED BY <1>2, <1>3, <1>5, <1>6, <1>7

-----------------------------------------------------------------------------
(* Types, frames and jobs.                                                 *)

\* A step that draws nothing and asks for jobs of the present framebuffer.
LEMMA FreshJobs ==
    ASSUME Sound, fb' = fb,
           \A j \in jobs' : \/ j \in jobs
                            \/ /\ j \in Jobs /\ j.from = fb /\ j.till = Live
                               /\ j.kind = "full" => j.box = Screen
    PROVE  (\A j \in jobs' : j \in Jobs) /\ JobsOrdered' /\ FullIsWhole'
  <1>1. \A p \in Screen : fb[p] \in Int
    BY BoundsAssumption DEF Sound, TypeOK
  <1>2. \A j \in jobs' : j \in Jobs
    BY DEF Sound, TypeOK
  <1>3. ASSUME NEW j \in jobs', NEW p \in Screen
        PROVE  /\ j.from[p] <= fb[p]
               /\ j.till # Live => j.from[p] <= j.till[p] /\ j.till[p] <= fb[p]
    <2>1. CASE j \in jobs
      BY <2>1 DEF Sound, JobsOrdered
    <2>2. CASE j.from = fb /\ j.till = Live
      BY <1>1, <2>2
    <2> QED BY <2>1, <2>2
  <1>4. JobsOrdered'
    BY <1>3 DEF JobsOrdered
  <1> QED BY <1>2, <1>4 DEF Sound, FullIsWhole

LEMMA RectUpdateSound ==
    ASSUME Sound, NEW r \in Drawn, RectUpdateProcessed(r)
    PROVE  Sound'
  <1>1. r \in Rectangles /\ Within(r, Whole(Size))
    BY DrawnAssumption
  <1>2. /\ updates < MaxUpdates + size /\ updates' = updates + 1 /\ rects' = Append(rects, r)
        /\ fb' = [p \in Screen |-> IF p \in Pixels(r) THEN updates' ELSE fb[p]]
        /\ UNCHANGED <<size, jobs, clientVars, hideVars, viewVars>>
    BY DEF RectUpdateProcessed
  <1>3. /\ updates \in Count /\ size \in 0 .. MaxResizes /\ fb \in [Screen -> Count]
        /\ rects \in Seq(Rectangles)
    BY DEF Sound, TypeOK, Count, FrameInv
  <1>4. updates' \in Count
    BY <1>2, <1>3, BoundsAssumption DEF Count
  <1>5. fb' \in [Screen -> Count]
    BY <1>2, <1>3, <1>4
  <1>6. /\ rects' \in Seq(Rectangles)
        /\ \A i \in DOMAIN rects' : (i \in DOMAIN rects /\ rects'[i] = rects[i]) \/ rects'[i] = r
    BY <1>1, <1>2, <1>3
  <1>7. \A i \in DOMAIN rects' : rects'[i] \in Rectangles /\ Within(rects'[i], Whole(Size))
    BY <1>1, <1>6 DEF Sound, FrameInv
  <1>8. \A p \in Screen : fb[p] <= updates /\ fb[p] <= fb'[p] /\ fb'[p] <= updates'
    <2> SUFFICES ASSUME NEW p \in Screen
                 PROVE  fb[p] <= updates /\ fb[p] <= fb'[p] /\ fb'[p] <= updates'
      OBVIOUS
    <2>1. fb[p] \in Count /\ fb[p] <= updates /\ fb'[p] = IF p \in Pixels(r) THEN updates' ELSE fb[p]
      BY <1>2, <1>3 DEF Sound, FrameInv
    <2> QED BY <1>2, <1>3, <2>1, BoundsAssumption DEF Count
  <1>9. FrameInv'
    BY <1>2, <1>3, <1>6, <1>7, <1>8, BoundsAssumption DEF FrameInv, Count
  <1>10. TypeOK'
    <2>1. \A i \in DOMAIN rects' : Pixels(rects'[i]) \subseteq Screen
      BY <1>7, InScreen
    <2> QED BY <1>2, <1>4, <1>5, <2>1
            DEF Sound, TypeOK, Count, clientVars, hideVars, viewVars
  <1>11. JobsOrdered'
    <2> SUFFICES ASSUME NEW j \in jobs, NEW p \in Screen
                 PROVE  /\ j.from[p] <= fb'[p]
                        /\ j.till # Live => j.from[p] <= j.till[p] /\ j.till[p] <= fb'[p]
      BY <1>2 DEF JobsOrdered
    <2>1. /\ j.from[p] <= fb[p]
          /\ j.till # Live => j.from[p] <= j.till[p] /\ j.till[p] <= fb[p]
      BY DEF Sound, JobsOrdered
    <2>2. /\ j.from[p] \in Count /\ fb[p] \in Count /\ fb'[p] \in Count
          /\ j.till # Live => j.till[p] \in Count
      BY <1>3, <1>5, JobFields DEF Sound, TypeOK
    <2>3. fb[p] <= fb'[p]
      BY <1>8
    <2> QED BY <2>1, <2>2, <2>3, BoundsAssumption DEF Count
  <1> QED BY <1>2, <1>9, <1>10, <1>11 DEF Sound, FullIsWhole

LEMMA FrameUpdatedSound ==
    ASSUME Sound, FrameUpdated
    PROVE  Sound'
  <1> DEFINE box == Pixels(BatchRects(Size, rects))
             j0 == Job("rect", {}, 0, box)
  <1>1. /\ rects # <<>> /\ rects' = <<>> /\ jobs' = jobs \cup {j0}
        /\ UNCHANGED <<fb, updates, size, clientVars, hideVars, viewVars>>
    BY DEF FrameUpdated
  <1>2. box \in SUBSET Screen
    BY <1>1, BatchCovers DEF Sound
  <1> HIDE DEF box
  <1>3. j0 \in Jobs /\ j0.from = fb /\ j0.till = Live /\ j0.kind = "rect"
    <2>1. 0 \in 0 .. MaxHides /\ {} \in SUBSET Clients
      BY BoundsAssumption
    <2>2. TypeOK /\ "rect" \in {"rect", "full", "show"}
      BY DEF Sound
    <2> QED BY <1>2, <2>1, <2>2, NewJob
  <1> HIDE DEF j0
  <1>4. (\A j \in jobs' : j \in Jobs) /\ JobsOrdered' /\ FullIsWhole'
    BY <1>1, <1>3, FreshJobs
  <1>5. FrameInv'
    BY <1>1 DEF Sound, FrameInv
  <1>6. TypeOK'
    BY <1>1, <1>4 DEF Sound, TypeOK, clientVars, hideVars, viewVars
  <1> QED BY <1>4, <1>5, <1>6 DEF Sound

LEMMA ResizeSound ==
    ASSUME Sound, DesktopSizeChanged
    PROVE  Sound'
  <1> DEFINE Closed(j) == [j EXCEPT !.till = IF @ = Live THEN fb ELSE @]
             to == {c \in Clients : MaySee(c)}
  <1>1. /\ size < MaxResizes /\ size' = size + 1 /\ updates' = updates + 1
        /\ fb' = [p \in Screen |-> updates'] /\ rects' = <<Whole(Size)>>
        /\ jobs' = {Closed(j) : j \in jobs}
        /\ Sent(to, <<>>, size')
        /\ UNCHANGED <<clientVars, hideVars, leaked>>
    BY DEF DesktopSizeChanged
  <1>2. /\ updates \in Count /\ size \in 0 .. MaxResizes /\ fb \in [Screen -> Count]
        /\ updates <= MaxUpdates + size
    BY DEF Sound, TypeOK, Count, FrameInv
  <1>3. updates' \in Count /\ size' \in 0 .. MaxResizes /\ updates' <= MaxUpdates + size'
    BY <1>1, <1>2, BoundsAssumption DEF Count
  <1>4. fb' \in [Screen -> Count] /\ \A p \in Screen : fb'[p] = updates'
    BY <1>1, <1>3
  <1>5. FrameInv'
    <2>1. rects' \in Seq(Rectangles) /\ \A i \in DOMAIN rects' : rects'[i] = Whole(Size)
      BY <1>1, ScreenIs
    <2>2. updates' <= updates'
      BY <1>3, BoundsAssumption DEF Count
    <2> QED BY <1>3, <1>4, <2>1, <2>2, ScreenIs DEF FrameInv
  <1>6. ASSUME NEW j \in jobs
        PROVE  /\ Closed(j) \in Jobs
               /\ Closed(j).kind = j.kind /\ Closed(j).box = j.box
               /\ Closed(j).from = j.from /\ Closed(j).to = j.to
               /\ Closed(j).till = IF j.till = Live THEN fb ELSE j.till
    <2>1. j \in Jobs
      BY DEF Sound, TypeOK
    <2> QED BY <1>2, <2>1 DEF Jobs, Count
  <1>7. ASSUME NEW j \in jobs, NEW p \in Screen
        PROVE  /\ j.from[p] <= fb'[p]
               /\ LET till == IF j.till = Live THEN fb ELSE j.till
                  IN  j.from[p] <= till[p] /\ till[p] <= fb'[p]
    <2>1. /\ j.from[p] <= fb[p]
          /\ j.till # Live => j.from[p] <= j.till[p] /\ j.till[p] <= fb[p]
      BY DEF Sound, JobsOrdered
    <2>2. /\ j.from[p] \in Count /\ fb[p] \in Count /\ fb'[p] \in Count
          /\ j.till # Live => j.till[p] \in Count
      BY <1>2, <1>4, JobFields DEF Sound, TypeOK
    <2>3. fb[p] <= fb'[p]
      <3>1. fb[p] <= updates
        BY DEF Sound, FrameInv
      <3> QED BY <1>1, <1>2, <1>4, <2>2, <3>1, BoundsAssumption DEF Count
    <2>4. CASE j.till = Live
      BY <2>1, <2>2, <2>3, <2>4, BoundsAssumption DEF Count
    <2>5. CASE j.till # Live
      BY <2>1, <2>2, <2>3, <2>5, BoundsAssumption DEF Count
    <2> QED BY <2>4, <2>5
  <1> HIDE DEF Closed
  <1>8. JobsOrdered'
    BY <1>1, <1>6, <1>7 DEF JobsOrdered
  <1>9. FullIsWhole'
    BY <1>1, <1>6 DEF Sound, FullIsWhole
  <1>10. (\A c \in Clients : view'[c] \in Views) /\ overtaken' \in SUBSET Clients
    <2>1. to \in SUBSET Clients /\ DOMAIN <<>> = {}
      OBVIOUS
    <2> HIDE DEF to
    <2>2. TypeOK /\ DOMAIN <<>> \subseteq Screen /\ size' \in {Veil} \cup 0 .. MaxResizes
          /\ \A p \in DOMAIN <<>> : <<>>[p] \in Count
      BY <1>3, <2>1 DEF Sound
    <2> QED BY <1>1, <2>1, <2>2, SentView
  <1>11. TypeOK'
    <2>1. \A i \in DOMAIN rects' : Pixels(rects'[i]) \subseteq Screen
      BY <1>5, InScreen DEF FrameInv
    <2> QED BY <1>1, <1>3, <1>4, <1>6, <1>10, <2>1
            DEF Sound, TypeOK, Count, clientVars, hideVars
  <1> QED BY <1>5, <1>8, <1>9, <1>11 DEF Sound

\* The whole of what a full screen asked for now is.
LEMMA NewFullScreen ==
    ASSUME TypeOK, NEW c \in Clients, NEW n \in 0 .. MaxHides
    PROVE  /\ FullScreen(c, n) \in Jobs
           /\ FullScreen(c, n).kind = "full" /\ FullScreen(c, n).to = {c}
           /\ FullScreen(c, n).box = Screen /\ FullScreen(c, n).size = size
           /\ FullScreen(c, n).from = fb /\ FullScreen(c, n).till = Live
           /\ FullScreen(c, n).open = ~hidden
  <1>1. /\ "full" \in {"rect", "full", "show"} /\ {c} \in SUBSET Clients
        /\ Screen \in SUBSET Screen
    OBVIOUS
  <1> QED BY <1>1, NewJob DEF FullScreen

\* A picture of a job is sent, and the job is over.
LEMMA EncodedSound ==
    ASSUME Sound, NEW j \in jobs, jobs' = jobs \ {j}, NEW pic \in Encoded(j),
           NEW to \in SUBSET Clients, NEW s \in {Veil} \cup 0 .. MaxResizes, Sent(to, pic, s),
           UNCHANGED <<displayVars, clientVars, hideVars>>, leaked' \in SUBSET Clients
    PROVE  Sound'
  <1>1. fb' = fb /\ \A k \in jobs' : k \in jobs
    BY DEF displayVars
  <1>2. (\A k \in jobs' : k \in Jobs) /\ JobsOrdered' /\ FullIsWhole'
    BY <1>1, FreshJobs
  <1>3. DOMAIN pic \subseteq Screen /\ \A p \in DOMAIN pic : pic[p] \in Count
    BY EncodedBetween
  <1>4. (\A c \in Clients : view'[c] \in Views) /\ overtaken' \in SUBSET Clients
    BY <1>3, SentView DEF Sound
  <1>5. FrameInv'
    BY DEF Sound, FrameInv, displayVars
  <1>6. TypeOK'
    BY <1>2, <1>4 DEF Sound, TypeOK, displayVars, clientVars, hideVars
  <1> QED BY <1>2, <1>5, <1>6 DEF Sound

LEMMA FrameEncodedSound ==
    ASSUME Sound, NEW j \in jobs, FrameEncoded(j)
    PROVE  Sound'
  <1>1. PICK pic \in Encoded(j) : Sent({c \in Clients : MaySee(c)}, pic, Veil)
    BY DEF FrameEncoded
  <1>2. /\ jobs' = jobs \ {j} /\ leaked' \in SUBSET Clients
        /\ UNCHANGED <<displayVars, clientVars, hideVars>>
    BY DEF FrameEncoded, Sound, TypeOK
  <1>3. {c \in Clients : MaySee(c)} \in SUBSET Clients /\ Veil \in {Veil} \cup 0 .. MaxResizes
    OBVIOUS
  <1> QED BY <1>1, <1>2, <1>3, EncodedSound

LEMMA FullScreenEncodedSound ==
    ASSUME Sound, NEW j \in jobs, FullScreenEncoded(j)
    PROVE  Sound'
  <1>1. PICK pic \in Encoded(j) : Sent(j.to, pic, j.size)
    BY DEF FullScreenEncoded
  <1>2. j.to \in SUBSET Clients /\ j.size \in 0 .. MaxResizes
    BY JobFields DEF Sound, TypeOK
  <1>3. jobs' = jobs \ {j} /\ UNCHANGED <<displayVars, clientVars, hideVars>>
    BY DEF FullScreenEncoded
  <1>4. leaked' \in SUBSET Clients
    BY <1>2 DEF FullScreenEncoded, Sound, TypeOK
  <1>5. j.size \in {Veil} \cup 0 .. MaxResizes
    BY <1>2
  <1> QED BY <1>1, <1>2, <1>3, <1>4, <1>5, EncodedSound

LEMMA NothingIsView == Nothing \in Views
  <1>1. -1 \in -1 .. MaxResizes /\ -1 \in -1 .. MaxUpdates + MaxResizes
    BY BoundsAssumption
  <1> QED BY <1>1 DEF Nothing, Views, Pictures, Veil

\* The hidden screen is sent to some.
LEMMA VeiledView ==
    ASSUME TypeOK, NEW to, Veiled(to)
    PROVE  /\ \A c \in Clients : view'[c] \in Views
           /\ \A c \in Clients : view'[c] = IF c \in to THEN Nothing ELSE view[c]
           /\ overtaken' \in SUBSET Clients
  BY NothingIsView DEF Veiled, TypeOK

LEMMA ConnectSound ==
    ASSUME Sound, NEW c \in Clients, Connect(c)
    PROVE  Sound'
  <1>1. /\ joined' = joined \cup {c} /\ blank' = blank \ {c}
        /\ connects[c] < MaxConnects /\ connects' = [connects EXCEPT ![c] = @ + 1]
        /\ UNCHANGED <<displayVars, staff, hideVars, leaked>>
    BY DEF Connect
  <1>c. connects' \in [Clients -> 0 .. MaxConnects]
    <2>1. connects \in [Clients -> 0 .. MaxConnects]
      BY DEF Sound, TypeOK
    <2>2. connects[c] + 1 \in 0 .. MaxConnects
      BY <1>1, <2>1, BoundsAssumption
    <2> QED BY <1>1, <2>1, <2>2
  <1>2. FullScreen(c, 0) \in Jobs /\ FullScreen(c, 0).from = fb /\ FullScreen(c, 0).till = Live
        /\ FullScreen(c, 0).box = Screen
    <2>1. TypeOK /\ 0 \in 0 .. MaxHides
      BY BoundsAssumption DEF Sound
    <2> QED BY <2>1, NewFullScreen
  <1>3. jobs' = jobs \/ jobs' = jobs \cup {FullScreen(c, 0)}
    BY DEF Connect
  <1>4. (\A j \in jobs' : j \in Jobs) /\ JobsOrdered' /\ FullIsWhole'
    BY <1>1, <1>2, <1>3, FreshJobs DEF displayVars
  <1>5. FrameInv'
    BY <1>1 DEF Sound, FrameInv, displayVars
  <1>6. (\A d \in Clients : view'[d] \in Views) /\ overtaken' \in SUBSET Clients
    <2>1. CASE hidden
      BY <2>1, VeiledView DEF Connect, Sound
    <2>2. CASE ~hidden
      BY <2>2 DEF Connect, Sound, TypeOK
    <2> QED BY <2>1, <2>2
  <1>7. TypeOK'
    BY <1>1, <1>c, <1>4, <1>6 DEF Sound, TypeOK, displayVars, hideVars
  <1> QED BY <1>4, <1>5, <1>7 DEF Sound

LEMMA ConnectRefusedSound ==
    ASSUME Sound, NEW c \in Clients, ConnectRefused(c)
    PROVE  Sound'
  BY DEF ConnectRefused, Sound, TypeOK, FrameInv, JobsOrdered, FullIsWhole, displayVars,
         hideVars, viewVars

LEMMA OnAdminLoginSound ==
    ASSUME Sound, NEW c \in Clients, OnAdminLogin(c)
    PROVE  Sound'
  <1>1. /\ staff' = staff \cup {c}
        /\ jobs' = IF hidden THEN jobs \cup {FullScreen(c, 0)} ELSE jobs
        /\ blank' \in SUBSET Clients
        /\ UNCHANGED <<displayVars, joined, connects, hideVars, viewVars>>
    BY DEF OnAdminLogin, Sound, TypeOK
  <1>2. FullScreen(c, 0) \in Jobs /\ FullScreen(c, 0).from = fb /\ FullScreen(c, 0).till = Live
        /\ FullScreen(c, 0).box = Screen
    <2>1. TypeOK /\ 0 \in 0 .. MaxHides
      BY BoundsAssumption DEF Sound
    <2> QED BY <2>1, NewFullScreen
  <1>3. (\A j \in jobs' : j \in Jobs) /\ JobsOrdered' /\ FullIsWhole'
    BY <1>1, <1>2, FreshJobs DEF displayVars
  <1>4. FrameInv'
    BY <1>1 DEF Sound, FrameInv, displayVars
  <1>5. TypeOK'
    BY <1>1, <1>3 DEF Sound, TypeOK, displayVars, hideVars, viewVars
  <1> QED BY <1>3, <1>4, <1>5 DEF Sound

LEMMA HideScreenSound ==
    ASSUME Sound, HideScreen
    PROVE  Sound'
  <1>1. /\ hides < MaxHides /\ hidden' = TRUE /\ hides' = hides + 1 /\ leaked' = {}
        /\ Veiled(Clients \ staff)
        /\ UNCHANGED <<displayVars, jobs, clientVars, shows>>
    BY DEF HideScreen
  <1>2. (\A c \in Clients : view'[c] \in Views) /\ overtaken' \in SUBSET Clients
    BY <1>1, VeiledView DEF Sound
  <1>3. hides' \in 0 .. MaxHides
    BY <1>1, BoundsAssumption DEF Sound, TypeOK
  <1>4. TypeOK'
    BY <1>1, <1>2, <1>3 DEF Sound, TypeOK, displayVars, clientVars
  <1> QED BY <1>1, <1>4 DEF Sound, FrameInv, JobsOrdered, FullIsWhole, displayVars

\* The job that the showing of the screen waits for.
LEMMA NewShow ==
    ASSUME TypeOK, NEW n \in 0 .. MaxHides
    PROVE  LET k == [Job("show", {}, n, Screen) EXCEPT !.open = TRUE]
           IN  /\ k \in Jobs /\ k.kind = "show" /\ k.open = TRUE /\ k.size = size
               /\ k.from = fb /\ k.till = Live
  <1> DEFINE j == Job("show", {}, n, Screen)
  <1>1. /\ "show" \in {"rect", "full", "show"} /\ {} \in SUBSET Clients
        /\ Screen \in SUBSET Screen
    OBVIOUS
  <1>2. j \in Jobs /\ j.kind = "show" /\ j.size = size /\ j.from = fb /\ j.till = Live
    BY <1>1, NewJob
  <1> HIDE DEF j
  <1>3. LET k == [j EXCEPT !.open = TRUE]
        IN  /\ k \in Jobs /\ k.kind = "show" /\ k.open = TRUE /\ k.size = size
            /\ k.from = fb /\ k.till = Live
    BY <1>2, Reopened
  <1> QED BY <1>3 DEF j

LEMMA ShowScreenSound ==
    ASSUME Sound, ShowScreen
    PROVE  Sound'
  <1> DEFINE k == [Job("show", {}, shows', Screen) EXCEPT !.open = TRUE]
  <1>1. /\ shows < MaxHides /\ hidden' = FALSE /\ shows' = shows + 1
        /\ jobs' = jobs \cup {k}
        /\ UNCHANGED <<displayVars, clientVars, hides, viewVars>>
    BY DEF ShowScreen
  <1>2. shows' \in 0 .. MaxHides
    BY <1>1, BoundsAssumption DEF Sound, TypeOK
  <1>3. k \in Jobs /\ k.kind = "show" /\ k.from = fb /\ k.till = Live
    BY <1>2, NewShow DEF Sound
  <1> HIDE DEF k
  <1>4. (\A j \in jobs' : j \in Jobs) /\ JobsOrdered' /\ FullIsWhole'
    BY <1>1, <1>3, FreshJobs DEF displayVars
  <1>5. TypeOK'
    BY <1>1, <1>2, <1>4 DEF Sound, TypeOK, displayVars, clientVars, viewVars
  <1> QED BY <1>1, <1>4, <1>5 DEF Sound, FrameInv, displayVars

\* The full screens that follow a showing.
LEMMA Shown ==
    ASSUME Sound, NEW j \in jobs, ShowScreenEncoded(j)
    PROVE  /\ j.kind = "show"
           /\ \A k \in jobs' \ jobs :
                 /\ k \in Jobs /\ k.kind = "full" /\ k.open = j.open /\ k.size = size
                 /\ k.from = fb /\ k.till = Live /\ k.box = Screen
           /\ \A k \in jobs : k = j \/ k \in jobs'
           /\ \A c \in Clients : \E k \in jobs' :
                 k.kind = "full" /\ k.to = {c} /\ k.size = size /\ k.from = fb /\ k.box = Screen
  <1> DEFINE F(c) == [FullScreen(c, j.n) EXCEPT !.open = j.open]
  <1>1. j \in Jobs /\ j.n \in 0 .. MaxHides /\ j.open \in BOOLEAN /\ TypeOK
    BY JobFields DEF Sound, TypeOK
  <1>2. ASSUME NEW c \in Clients
        PROVE  /\ F(c) \in Jobs /\ F(c).kind = "full" /\ F(c).open = j.open /\ F(c).size = size
               /\ F(c).from = fb /\ F(c).till = Live /\ F(c).box = Screen /\ F(c).to = {c}
    <2> DEFINE f == FullScreen(c, j.n)
    <2>1. /\ f \in Jobs /\ f.kind = "full" /\ f.to = {c} /\ f.box = Screen /\ f.size = size
          /\ f.from = fb /\ f.till = Live
      BY <1>1, NewFullScreen
    <2> HIDE DEF f
    <2>2. LET k == [f EXCEPT !.open = j.open]
          IN  /\ k \in Jobs /\ k.open = j.open /\ k.kind = f.kind /\ k.to = f.to
              /\ k.box = f.box /\ k.size = f.size /\ k.from = f.from /\ k.till = f.till
      BY <1>1, <2>1, Reopened
    <2> QED BY <2>1, <2>2 DEF f
  <1>3. j.kind = "show" /\ jobs' = (jobs \ {j}) \cup {F(c) : c \in Clients}
    BY DEF ShowScreenEncoded
  <1> HIDE DEF F
  <1> QED BY <1>2, <1>3

LEMMA ShowScreenEncodedSound ==
    ASSUME Sound, NEW j \in jobs, ShowScreenEncoded(j)
    PROVE  Sound'
  <1>1. /\ blank' = {}
        /\ UNCHANGED <<displayVars, joined, connects, staff, hideVars, viewVars>>
    BY DEF ShowScreenEncoded
  <1>2. (\A k \in jobs' : k \in Jobs) /\ JobsOrdered' /\ FullIsWhole'
    BY <1>1, Shown, FreshJobs DEF displayVars
  <1>3. TypeOK'
    BY <1>1, <1>2 DEF Sound, TypeOK, displayVars, hideVars, viewVars
  <1> QED BY <1>1, <1>2, <1>3 DEF Sound, FrameInv, displayVars

LEMMA SoundKept ==
    ASSUME Sound, [Next]_vars
    PROVE  Sound'
  <1>1. CASE Next
    BY <1>1, RectUpdateSound, FrameUpdatedSound, ResizeSound, ConnectSound,
       ConnectRefusedSound, OnAdminLoginSound, HideScreenSound, ShowScreenSound, FrameEncodedSound, FullScreenEncodedSound,
       ShowScreenEncodedSound DEF Next
  <1>2. CASE UNCHANGED vars
    BY <1>2 DEF Sound, TypeOK, FrameInv, JobsOrdered, FullIsWhole, vars, displayVars,
                clientVars, hideVars, viewVars
  <1> QED BY <1>1, <1>2

-----------------------------------------------------------------------------
(* Which jobs there are after a step.                                      *)

\* Every job was there, but for the end that a change of size gives it, or it
\* was asked for in this step.
LEMMA JobsAfter ==
    ASSUME Sound, [Next]_vars, NEW k \in jobs'
    PROVE  \/ \E j \in jobs : /\ k.kind = j.kind /\ k.to = j.to /\ k.open = j.open
                              /\ k.size = j.size
           \/ /\ k.size = size /\ size' = size
              /\ \/ k.kind = "rect"
                 \/ k.kind = "show" /\ k.open
                 \/ k.kind = "full" /\ (k.open \/ k.to \subseteq staff')
                 \/ k.kind = "full" /\ \E j \in jobs : j.kind = "show" /\ k.open = j.open
  <1>1. CASE UNCHANGED jobs
    BY <1>1
  <1>2. CASE FrameUpdated
    <2>1. Pixels(BatchRects(Size, rects)) \in SUBSET Screen
      BY <1>2, BatchCovers DEF Sound, FrameUpdated
    <2>2. /\ TypeOK /\ "rect" \in {"rect", "full", "show"} /\ {} \in SUBSET Clients
          /\ 0 \in 0 .. MaxHides
      BY BoundsAssumption DEF Sound
    <2>3. LET j0 == Job("rect", {}, 0, Pixels(BatchRects(Size, rects)))
          IN  j0.kind = "rect" /\ j0.size = size
      BY <2>1, <2>2, NewJob
    <2> QED BY <1>2, <2>3 DEF FrameUpdated
  <1>3. CASE DesktopSizeChanged
    <2>1. PICK j \in jobs : k = [j EXCEPT !.till = IF @ = Live THEN fb ELSE @]
      BY <1>3 DEF DesktopSizeChanged
    <2>2. j \in Jobs
      BY DEF Sound, TypeOK
    <2>3. k.kind = j.kind /\ k.to = j.to /\ k.open = j.open /\ k.size = j.size
      BY <2>1, <2>2 DEF Jobs
    <2> QED BY <2>3
  <1>4. ASSUME NEW c \in Clients
        PROVE  /\ FullScreen(c, 0).kind = "full" /\ FullScreen(c, 0).to = {c}
               /\ FullScreen(c, 0).size = size /\ FullScreen(c, 0).open = ~hidden
    <2>1. TypeOK /\ 0 \in 0 .. MaxHides
      BY BoundsAssumption DEF Sound
    <2> QED BY <2>1, NewFullScreen
  <1>5. CASE \E c \in Clients : Connect(c)
    BY <1>4, <1>5 DEF Connect, displayVars
  <1>6. CASE \E c \in Clients : OnAdminLogin(c)
    BY <1>4, <1>6 DEF OnAdminLogin, displayVars
  <1>7. CASE ShowScreen
    <2>1. shows' \in 0 .. MaxHides
      BY <1>7, ShowScreenSound DEF Sound, TypeOK
    <2>2. LET j == [Job("show", {}, shows', Screen) EXCEPT !.open = TRUE]
          IN  j.kind = "show" /\ j.open = TRUE /\ j.size = size
      BY <2>1, NewShow DEF Sound
    <2> QED BY <1>7, <2>2 DEF ShowScreen, displayVars
  <1>8. CASE \E j \in jobs : ShowScreenEncoded(j)
    <2>1. PICK j \in jobs : ShowScreenEncoded(j)
      BY <1>8
    <2>2. size' = size
      BY <2>1 DEF ShowScreenEncoded, displayVars
    <2> QED BY <2>1, <2>2, Shown
  <1>9. CASE \E j \in jobs : FrameEncoded(j) \/ FullScreenEncoded(j)
    BY <1>9 DEF FrameEncoded, FullScreenEncoded
  <1> QED BY <1>1, <1>2, <1>3, <1>5, <1>6, <1>7, <1>8, <1>9
          DEF Next, vars, RectUpdateProcessed, ConnectRefused, HideScreen

LEMMA SizesKept ==
    ASSUME Sound, SizesOrdered, [Next]_vars
    PROVE  SizesOrdered'
  <1>1. size <= size' /\ size \in Int /\ size' \in Int
    <2>1. size' = size \/ size' = size + 1
      BY DEF Next, vars, RectUpdateProcessed, FrameUpdated, DesktopSizeChanged, Connect,
             ConnectRefused, OnAdminLogin, HideScreen, ShowScreen, FrameEncoded, FullScreenEncoded,
             ShowScreenEncoded, displayVars
    <2> QED BY <2>1, BoundsAssumption DEF Sound, TypeOK
  <1>2. \A j \in jobs : j.size \in Int
    BY JobFields, BoundsAssumption DEF Sound, TypeOK
  <1>3. \A k \in jobs' : k.size = size \/ \E j \in jobs : k.size = j.size
    BY JobsAfter
  <1> QED BY <1>1, <1>2, <1>3 DEF SizesOrdered

LEMMA ClosedKept ==
    ASSUME Sound, ClosedToStaff, [Next]_vars
    PROVE  ClosedToStaff'
  <1>1. staff \subseteq staff'
    BY DEF Next, vars, RectUpdateProcessed, FrameUpdated, DesktopSizeChanged, Connect,
           ConnectRefused, OnAdminLogin, HideScreen, ShowScreen, FrameEncoded, FullScreenEncoded,
           ShowScreenEncoded, clientVars
  <1> SUFFICES ASSUME NEW k \in jobs', k.kind # "rect", ~k.open
               PROVE  k.kind = "full" /\ k.to \subseteq staff'
    BY DEF ClosedToStaff
  <1>2. CASE \E j \in jobs : k.kind = j.kind /\ k.to = j.to /\ k.open = j.open
    BY <1>1, <1>2 DEF ClosedToStaff
  <1>3. CASE \E j \in jobs : j.kind = "show" /\ k.open = j.open
    BY <1>3 DEF ClosedToStaff
  <1> QED BY <1>2, <1>3, JobsAfter

-----------------------------------------------------------------------------
(* The hidden screen.                                                      *)

\* While the screen is hidden, what is sent to clients that are not staff was
\* asked for before.
LEMMA HiddenKept ==
    ASSUME Sound, ClosedToStaff, HiddenUnlessInFlight, [Next]_vars
    PROVE  HiddenUnlessInFlight'
  <1> SUFFICES ASSUME hidden', NEW c \in Clients, c \notin staff', c \notin leaked'
               PROVE  view'[c] = Nothing
    BY DEF HiddenUnlessInFlight
  <1>1. TypeOK
    BY DEF Sound
  <1>2. CASE UNCHANGED <<hidden, view, leaked>> /\ staff \subseteq staff'
    BY <1>2 DEF HiddenUnlessInFlight
  <1>3. CASE DesktopSizeChanged
    <2>1. hidden /\ view'[c] = view[c] /\ c \notin staff /\ c \notin leaked
      BY <1>3 DEF DesktopSizeChanged, Sent, MaySee, hideVars, clientVars
    <2> QED BY <2>1 DEF HiddenUnlessInFlight
  <1>4. CASE \E j \in jobs : FrameEncoded(j)
    <2>1. hidden /\ view'[c] = view[c] /\ c \notin staff /\ c \notin leaked
      BY <1>4 DEF FrameEncoded, Sent, MaySee, hideVars, clientVars
    <2> QED BY <2>1 DEF HiddenUnlessInFlight
  <1>5. CASE \E d \in Clients : Connect(d)
    <2>1. PICK d \in Clients : Connect(d)
      BY <1>5
    <2>2. hidden /\ c \notin staff /\ c \notin leaked /\ Veiled({d})
      BY <2>1 DEF Connect, hideVars
    <2>3. view'[c] = Nothing \/ view'[c] = view[c]
      BY <1>1, <2>2, VeiledView
    <2> QED BY <2>2, <2>3 DEF HiddenUnlessInFlight
  <1>6. CASE HideScreen
    <2>1. Veiled(Clients \ staff) /\ c \notin staff
      BY <1>6 DEF HideScreen, clientVars
    <2> QED BY <1>1, <2>1, VeiledView
  <1>7. CASE ShowScreen
    BY <1>7 DEF ShowScreen
  <1>8. CASE \E j \in jobs : FullScreenEncoded(j)
    <2>1. PICK j \in jobs : FullScreenEncoded(j)
      BY <1>8
    <2>2. /\ hidden /\ c \notin staff /\ j.kind = "full"
          /\ leaked' = IF j.open THEN leaked \cup (j.to \ staff) ELSE leaked
          /\ \E pic \in Encoded(j) : Sent(j.to, pic, j.size)
      BY <2>1 DEF FullScreenEncoded, clientVars, hideVars
    <2>3. c \notin j.to
      BY <2>2 DEF ClosedToStaff
    <2>4. view'[c] = view[c] /\ c \notin leaked
      BY <2>2, <2>3 DEF Sent
    <2> QED BY <2>2, <2>4 DEF HiddenUnlessInFlight
  <1> QED BY <1>2, <1>3, <1>4, <1>5, <1>6, <1>7, <1>8
          DEF Next, vars, RectUpdateProcessed, FrameUpdated, ConnectRefused, OnAdminLogin, ShowScreenEncoded,
              clientVars, hideVars, viewVars

-----------------------------------------------------------------------------
(* What a client lacks is on its way to it.                                *)

LEMMA RectUpdateOnItsWay ==
    ASSUME Sound, OnItsWay, NEW r \in Drawn, RectUpdateProcessed(r)
    PROVE  OnItsWay'
  <1>1. /\ rects' = Append(rects, r)
        /\ fb' = [p \in Screen |-> IF p \in Pixels(r) THEN updates' ELSE fb[p]]
        /\ UNCHANGED <<size, jobs, clientVars, hideVars, viewVars>>
    BY DEF RectUpdateProcessed
  <1>2. /\ r \in Rectangles /\ rects \in Seq(Rectangles)
    BY DrawnAssumption DEF Sound, FrameInv
  <1>3. /\ \A i \in DOMAIN rects : i \in DOMAIN rects' /\ rects'[i] = rects[i]
        /\ \E i \in DOMAIN rects' : rects'[i] = r
    <2>1. Len(rects) + 1 \in DOMAIN rects' /\ rects'[Len(rects) + 1] = r
      BY <1>1, <1>2
    <2> QED BY <1>1, <1>2, <2>1
  <1> SUFFICES ASSUME ~hidden, NEW c \in joined \ (overtaken \cup blank), NEW p \in Screen
               PROVE  SizeArrives(c)' /\ PixelArrives(c, p)'
    BY <1>1 DEF OnItsWay, clientVars, hideVars, viewVars
  <1>4. SizeArrives(c)'
    BY <1>1 DEF OnItsWay, SizeArrives, BringsSize, viewVars
  <1>5. CASE p \in Pixels(r)
    BY <1>3, <1>4, <1>5 DEF PixelArrives
  <1>6. CASE p \notin Pixels(r)
    <2>1. fb'[p] = fb[p]
      BY <1>1, <1>6
    <2>2. \A j \in jobs : Brings(j, c, p) => Brings(j, c, p)'
      BY <2>1 DEF Brings
    <2>3. PixelArrives(c, p)
      BY DEF OnItsWay
    <2> QED BY <1>1, <1>3, <1>4, <2>1, <2>2, <2>3 DEF PixelArrives, viewVars
  <1> QED BY <1>5, <1>6

LEMMA FrameUpdatedOnItsWay ==
    ASSUME Sound, OnItsWay, FrameUpdated
    PROVE  OnItsWay'
  <1> DEFINE box == Pixels(BatchRects(Size, rects))
             j0 == Job("rect", {}, 0, box)
  <1>1. /\ rects # <<>> /\ rects' = <<>> /\ jobs' = jobs \cup {j0}
        /\ UNCHANGED <<fb, updates, size, clientVars, hideVars, viewVars>>
    BY DEF FrameUpdated
  <1>2. box \in SUBSET Screen /\ \A i \in DOMAIN rects : Pixels(rects[i]) \subseteq box
    BY <1>1, BatchCovers DEF Sound
  <1> HIDE DEF box
  <1>3. j0.kind = "rect" /\ j0.box = box /\ j0.from = fb
    <2>1. /\ TypeOK /\ "rect" \in {"rect", "full", "show"} /\ {} \in SUBSET Clients
          /\ 0 \in 0 .. MaxHides
      BY BoundsAssumption DEF Sound
    <2> QED BY <1>2, <2>1, NewJob
  <1>4. PICK k \in jobs' : k.kind = "rect" /\ k.box = box /\ k.from = fb
    BY <1>1, <1>3
  <1> HIDE DEF j0
  <1> SUFFICES ASSUME ~hidden, NEW c \in joined \ (overtaken \cup blank), NEW p \in Screen
               PROVE  SizeArrives(c)' /\ PixelArrives(c, p)'
    BY <1>1 DEF OnItsWay, clientVars, hideVars, viewVars
  <1>5. SizeArrives(c) /\ PixelArrives(c, p)
    BY DEF OnItsWay
  <1>6. \A j \in jobs : /\ j \in jobs'
                        /\ BringsSize(j, c) => BringsSize(j, c)'
                        /\ Brings(j, c, p) => Brings(j, c, p)'
    BY <1>1 DEF BringsSize, Brings
  <1>7. p \in box => Brings(k, c, p)'
    BY <1>1, <1>4 DEF Brings
  <1>8. SizeArrives(c)'
    BY <1>1, <1>5, <1>6 DEF SizeArrives, viewVars
  <1>9. CASE \E i \in DOMAIN rects : p \in Pixels(rects[i])
    BY <1>2, <1>7, <1>8, <1>9 DEF PixelArrives
  <1>10. CASE view[c].pic[p] = fb[p] \/ \E j \in jobs : Brings(j, c, p)
    BY <1>1, <1>6, <1>8, <1>10 DEF PixelArrives, viewVars
  <1> QED BY <1>5, <1>9, <1>10 DEF PixelArrives

LEMMA ResizeOnItsWay ==
    ASSUME Sound, DesktopSizeChanged
    PROVE  OnItsWay'
  <1> DEFINE to == {c \in Clients : MaySee(c)}
  <1>1. /\ rects' = <<Whole(Size)>> /\ size' = size + 1 /\ size < MaxResizes
        /\ Sent(to, <<>>, size') /\ UNCHANGED <<clientVars, hideVars>>
    BY DEF DesktopSizeChanged
  <1> SUFFICES ASSUME ~hidden, NEW c \in joined, NEW p \in Screen
               PROVE  /\ view'[c].size = size'
                      /\ \E i \in DOMAIN rects' : p \in Pixels(rects'[i])
    BY <1>1 DEF OnItsWay, SizeArrives, PixelArrives, clientVars, hideVars
  <1>2. c \in to
    BY DEF MaySee, Sound, TypeOK
  <1>3. size' # Veil
    BY <1>1, BoundsAssumption DEF Veil, Sound, TypeOK
  <1>4. view'[c] = [size |-> IF size' = Veil THEN view[c].size ELSE size',
                    pic |-> Over(view[c].pic, <<>>)]
    BY <1>1, <1>2 DEF Sent
  <1>5. view'[c].size = size'
    BY <1>3, <1>4
  <1>6. 1 \in DOMAIN rects' /\ p \in Pixels(rects'[1])
    BY <1>1, ScreenIs
  <1> QED BY <1>5, <1>6

\* A picture of a job is sent, and the job is over: who has got it lacks nothing
\* the job brought, or has been overtaken.
LEMMA EncodedOnItsWay ==
    ASSUME Sound, SizesOrdered, OnItsWay, NEW j \in jobs, jobs' = jobs \ {j},
           NEW pic \in Encoded(j), NEW to \in SUBSET Clients,
           NEW s \in {Veil} \cup 0 .. MaxResizes, Sent(to, pic, s),
           j.kind # "show", s # Veil => s <= size,
           \A c \in joined : ~hidden /\ BringsSize(j, c) => c \in to /\ s = size,
           \A c \in joined, p \in Screen : ~hidden /\ Brings(j, c, p) => c \in to,
           UNCHANGED <<displayVars, clientVars, hideVars>>
    PROVE  OnItsWay'
  <1>1. /\ overtaken \subseteq overtaken'
        /\ \A c \in Clients : c \notin to => view'[c] = view[c]
        /\ \A c \in to :
              /\ view'[c].size = IF s = Veil THEN view[c].size ELSE s
              /\ \A p \in Screen : view'[c].pic[p] =
                     IF p \in DOMAIN pic THEN pic[p] ELSE view[c].pic[p]
              /\ s # Veil /\ s < view[c].size => c \in overtaken'
              /\ \A p \in DOMAIN pic : pic[p] < view[c].pic[p] => c \in overtaken'
    <2>1. DOMAIN pic \subseteq Screen /\ \A p \in DOMAIN pic : pic[p] \in Count
      BY EncodedBetween
    <2> QED BY <2>1, SentView DEF Sound
  <1>2. /\ DOMAIN pic = j.box /\ j.box \subseteq Screen
        /\ \A p \in j.box : /\ pic[p] \in Int /\ j.from[p] \in Int
                            /\ j.from[p] <= pic[p] /\ pic[p] <= fb[p]
    BY EncodedBetween, BoundsAssumption DEF Count
  <1>3. /\ \A p \in Screen : fb[p] \in Int
        /\ size \in 0 .. MaxResizes /\ joined \subseteq Clients
    BY BoundsAssumption DEF Sound, TypeOK
  <1>4. UNCHANGED <<fb, size, rects, joined, blank, hidden>>
    BY DEF displayVars, clientVars, hideVars
  <1>5. \A c : \A k \in jobs : /\ BringsSize(k, c)' <=> BringsSize(k, c)
                               /\ \A p : Brings(k, c, p)' <=> Brings(k, c, p)
    BY <1>4 DEF BringsSize, Brings
  <1> SUFFICES ASSUME ~hidden, NEW c \in joined, c \notin overtaken', c \notin blank, NEW p \in Screen
               PROVE  /\ view'[c].size = size \/ \E k \in jobs' : BringsSize(k, c)'
                      /\ \/ view'[c].pic[p] = fb[p]
                         \/ \E i \in DOMAIN rects : p \in Pixels(rects[i])
                         \/ \E k \in jobs' : Brings(k, c, p)'
    BY <1>4 DEF OnItsWay, SizeArrives, PixelArrives
  <1>6. /\ view[c].size = size \/ \E k \in jobs : BringsSize(k, c)
        /\ \/ view[c].pic[p] = fb[p]
           \/ \E i \in DOMAIN rects : p \in Pixels(rects[i])
           \/ \E k \in jobs : Brings(k, c, p)
    BY <1>1 DEF OnItsWay, SizeArrives, PixelArrives
  <1>7. CASE c \notin to
    <2>1. view'[c] = view[c] /\ ~BringsSize(j, c) /\ ~Brings(j, c, p)
      BY <1>1, <1>3, <1>7
    <2> QED BY <1>5, <1>6, <2>1
  <1>8. CASE c \in to
    <2>1. view'[c].size = size \/ \E k \in jobs' : BringsSize(k, c)'
      <3>1. CASE BringsSize(j, c)
        <4>1. s = size /\ s # Veil
          BY <1>3, <3>1, BoundsAssumption DEF Veil
        <4> QED BY <1>1, <1>8, <4>1
      <3>2. CASE ~BringsSize(j, c) /\ view[c].size = size
        <4>1. CASE s = Veil
          BY <1>1, <1>8, <3>2, <4>1
        <4>2. CASE s # Veil
          <5>1. s <= size /\ ~(s < size) /\ s \in Int
            BY <1>1, <1>8, <3>2, <4>2, BoundsAssumption
          <5>2. s = size
            BY <1>3, <5>1, BoundsAssumption
          <5> QED BY <1>1, <1>8, <4>2, <5>2
        <4> QED BY <4>1, <4>2
      <3>3. CASE ~BringsSize(j, c) /\ \E k \in jobs : BringsSize(k, c)
        BY <1>5, <3>3
      <3> QED BY <1>6, <3>1, <3>2, <3>3
    <2>2. CASE p \notin j.box
      <3>1. view'[c].pic[p] = view[c].pic[p] /\ ~Brings(j, c, p)
        BY <1>1, <1>2, <1>8, <2>2 DEF Brings
      <3> QED BY <1>5, <1>6, <2>1, <3>1
    <2>3. CASE p \in j.box
      <3>1. view'[c].pic[p] = pic[p] /\ pic[p] \in Int /\ pic[p] <= fb[p] /\ j.from[p] <= pic[p]
            /\ ~(pic[p] < view[c].pic[p])
        BY <1>1, <1>2, <1>8, <2>3
      <3>2. CASE j.from[p] = fb[p] \/ view[c].pic[p] = fb[p]
        <4>1. pic[p] = fb[p]
          BY <1>3, <3>1, <3>2
        <4> QED BY <2>1, <3>1, <4>1
      <3>3. CASE j.from[p] # fb[p] /\ view[c].pic[p] # fb[p]
        <4>1. ~Brings(j, c, p)
          BY <3>3 DEF Brings
        <4> QED BY <1>5, <1>6, <2>1, <3>3, <4>1
      <3> QED BY <3>2, <3>3
    <2> QED BY <2>2, <2>3
  <1> QED BY <1>7, <1>8

LEMMA FrameEncodedOnItsWay ==
    ASSUME Sound, SizesOrdered, OnItsWay, NEW j \in jobs, FrameEncoded(j)
    PROVE  OnItsWay'
  <1> DEFINE to == {c \in Clients : MaySee(c)}
  <1>1. PICK pic \in Encoded(j) : Sent(to, pic, Veil)
    BY DEF FrameEncoded
  <1>2. /\ j.kind = "rect" /\ jobs' = jobs \ {j}
        /\ UNCHANGED <<displayVars, clientVars, hideVars>>
    BY DEF FrameEncoded
  <1>3. /\ to \in SUBSET Clients
        /\ ~hidden => joined \subseteq to
        /\ Veil \in {Veil} \cup 0 .. MaxResizes
    BY DEF MaySee, Sound, TypeOK
  <1> HIDE DEF to
  <1>4. \A c : ~BringsSize(j, c)
    BY <1>2 DEF BringsSize
  <1>5. j.kind # "show"
    BY <1>2
  <1> QED BY <1>1, <1>2, <1>3, <1>4, <1>5, EncodedOnItsWay

LEMMA FullScreenEncodedOnItsWay ==
    ASSUME Sound, SizesOrdered, OnItsWay, NEW j \in jobs, FullScreenEncoded(j)
    PROVE  OnItsWay'
  <1>1. PICK pic \in Encoded(j) : Sent(j.to, pic, j.size)
    BY DEF FullScreenEncoded
  <1>2. /\ j.kind = "full" /\ jobs' = jobs \ {j}
        /\ UNCHANGED <<displayVars, clientVars, hideVars>>
    BY DEF FullScreenEncoded
  <1>3. j.to \in SUBSET Clients /\ j.size \in {Veil} \cup 0 .. MaxResizes
    BY JobFields DEF Sound, TypeOK
  <1>4. j.size <= size
    BY DEF SizesOrdered
  <1>5. \A c : /\ BringsSize(j, c) => c \in j.to /\ j.size = size
               /\ \A p : Brings(j, c, p) => c \in j.to
    BY <1>2 DEF BringsSize, Brings
  <1>6. j.kind # "show"
    BY <1>2
  <1> QED BY <1>1, <1>2, <1>3, <1>4, <1>5, <1>6, EncodedOnItsWay

\* More jobs take nothing away.
LEMMA MoreJobs ==
    ASSUME UNCHANGED displayVars, jobs \subseteq jobs', NEW c, NEW p, view'[c] = view[c],
           SizeArrives(c), PixelArrives(c, p)
    PROVE  SizeArrives(c)' /\ PixelArrives(c, p)'
  <1>1. \A j \in jobs : /\ j \in jobs'
                        /\ BringsSize(j, c) => BringsSize(j, c)'
                        /\ Brings(j, c, p) => Brings(j, c, p)'
    BY DEF BringsSize, Brings, displayVars
  <1>2. SizeArrives(c)'
    BY <1>1 DEF SizeArrives, displayVars
  <1>3. PixelArrives(c, p)'
    BY <1>1 DEF PixelArrives, displayVars
  <1> QED BY <1>2, <1>3

\* A full screen that was asked for just now brings all.
LEMMA FullScreenBrings ==
    ASSUME UNCHANGED displayVars, NEW c, NEW p \in Screen, NEW k \in jobs',
           k.kind = "full", c \in k.to, k.box = Screen, k.from = fb, k.size = size
    PROVE  SizeArrives(c)' /\ PixelArrives(c, p)'
  <1>1. BringsSize(k, c)' /\ Brings(k, c, p)'
    BY DEF BringsSize, Brings, displayVars
  <1> QED BY <1>1 DEF SizeArrives, PixelArrives

LEMMA ConnectOnItsWay ==
    ASSUME Sound, OnItsWay, NEW d \in Clients, Connect(d)
    PROVE  OnItsWay'
  <1>1. joined' = joined \cup {d} /\ blank' = blank \ {d} /\ UNCHANGED <<displayVars, hideVars>>
    BY DEF Connect
  <1> SUFFICES ASSUME ~hidden, NEW c \in joined', c \notin overtaken', c \notin blank', NEW p \in Screen
               PROVE  SizeArrives(c)' /\ PixelArrives(c, p)'
    BY <1>1 DEF OnItsWay, hideVars
  <1>2. jobs' = jobs \cup {FullScreen(d, 0)} /\ UNCHANGED <<view, overtaken>>
    BY DEF Connect
  <1>3. CASE c = d
    <2>1. PICK k \in jobs' : k = FullScreen(d, 0)
      BY <1>2
    <2>2. TypeOK /\ 0 \in 0 .. MaxHides
      BY BoundsAssumption DEF Sound
    <2>3. k.kind = "full" /\ c \in k.to /\ k.box = Screen /\ k.from = fb /\ k.size = size
      BY <1>3, <2>1, <2>2, NewFullScreen
    <2> QED BY <1>1, <2>3, FullScreenBrings
  <1>4. CASE c # d
    <2>1. c \in joined \ (overtaken \cup blank)
      BY <1>1, <1>2, <1>4
    <2>2. SizeArrives(c) /\ PixelArrives(c, p)
      BY <2>1 DEF OnItsWay
    <2> QED BY <1>1, <1>2, <2>2, MoreJobs
  <1> QED BY <1>3, <1>4

LEMMA ConnectRefusedOnItsWay ==
    ASSUME OnItsWay, NEW d \in Clients, ConnectRefused(d)
    PROVE  OnItsWay'
  <1>1. /\ joined' \ blank' \subseteq joined \ blank
        /\ UNCHANGED <<displayVars, jobs, hideVars, viewVars>>
    BY DEF ConnectRefused
  <1> SUFFICES ASSUME ~hidden, NEW c \in joined \ (overtaken \cup blank), NEW p \in Screen
               PROVE  SizeArrives(c)' /\ PixelArrives(c, p)'
    BY <1>1 DEF OnItsWay, hideVars, viewVars
  <1>2. SizeArrives(c) /\ PixelArrives(c, p)
    BY DEF OnItsWay
  <1> QED BY <1>1, <1>2, MoreJobs DEF viewVars

LEMMA OnAdminLoginOnItsWay ==
    ASSUME Sound, OnItsWay, NEW d \in Clients, OnAdminLogin(d)
    PROVE  OnItsWay'
  <1>1. /\ jobs \subseteq jobs' /\ blank' = IF hidden THEN blank \ {d} ELSE blank
        /\ UNCHANGED <<displayVars, joined, hideVars, viewVars>>
    BY DEF OnAdminLogin
  <1> SUFFICES ASSUME ~hidden, NEW c \in joined \ (overtaken \cup blank), NEW p \in Screen
               PROVE  SizeArrives(c)' /\ PixelArrives(c, p)'
    BY <1>1 DEF OnItsWay, hideVars, viewVars
  <1>2. SizeArrives(c) /\ PixelArrives(c, p)
    BY DEF OnItsWay
  <1> QED BY <1>1, <1>2, MoreJobs DEF viewVars

LEMMA ShowScreenOnItsWay ==
    ASSUME Sound, ShowScreen
    PROVE  OnItsWay'
  <1>1. shows' \in 0 .. MaxHides
    BY ShowScreenSound DEF Sound, TypeOK
  <1>2. PICK k \in jobs' : k = [Job("show", {}, shows', Screen) EXCEPT !.open = TRUE]
    BY DEF ShowScreen
  <1>3. k.kind = "show"
    BY <1>1, <1>2, NewShow DEF Sound
  <1>4. \A c : BringsSize(k, c)' /\ \A p : Brings(k, c, p)'
    BY <1>3 DEF BringsSize, Brings
  <1> SUFFICES ASSUME NEW c, NEW p PROVE SizeArrives(c)' /\ PixelArrives(c, p)'
    BY DEF OnItsWay
  <1> QED BY <1>4 DEF SizeArrives, PixelArrives

LEMMA ShowScreenEncodedOnItsWay ==
    ASSUME Sound, NEW j \in jobs, ShowScreenEncoded(j)
    PROVE  OnItsWay'
  <1>1. UNCHANGED <<displayVars, joined, hideVars, viewVars>>
    BY DEF ShowScreenEncoded
  <1> SUFFICES ASSUME NEW c \in joined, NEW p \in Screen
               PROVE  SizeArrives(c)' /\ PixelArrives(c, p)'
    BY <1>1 DEF OnItsWay
  <1>2. c \in Clients
    BY DEF Sound, TypeOK
  <1>3. PICK k \in jobs' : /\ k.kind = "full" /\ k.to = {c} /\ k.size = size
                           /\ k.from = fb /\ k.box = Screen
    BY <1>2, Shown
  <1> QED BY <1>1, <1>3, FullScreenBrings

LEMMA OnItsWayKept ==
    ASSUME Sound, SizesOrdered, OnItsWay, [Next]_vars
    PROVE  OnItsWay'
  <1>1. CASE Next
    <2>1. CASE HideScreen
      BY <2>1 DEF HideScreen, OnItsWay
    <2> QED BY <1>1, <2>1, RectUpdateOnItsWay, FrameUpdatedOnItsWay, ResizeOnItsWay,
               ConnectOnItsWay, ConnectRefusedOnItsWay, OnAdminLoginOnItsWay, ShowScreenOnItsWay,
               FrameEncodedOnItsWay, FullScreenEncodedOnItsWay, ShowScreenEncodedOnItsWay
            DEF Next
  <1>2. CASE UNCHANGED vars
    <2> SUFFICES ASSUME ~hidden, NEW c \in joined \ (overtaken \cup blank), NEW p \in Screen
                 PROVE  SizeArrives(c)' /\ PixelArrives(c, p)'
      BY <1>2 DEF OnItsWay, vars
    <2>1. SizeArrives(c) /\ PixelArrives(c, p)
      BY DEF OnItsWay
    <2> QED BY <1>2, <2>1, MoreJobs DEF vars, displayVars
  <1> QED BY <1>1, <1>2

-----------------------------------------------------------------------------
(* The theorems.                                                           *)

LEMMA Start == Init => IInv
  <1> SUFFICES ASSUME Init PROVE IInv
    OBVIOUS
  <1>1. TypeOK
    <2>1. 0 \in 0 .. MaxUpdates + MaxResizes /\ 0 \in 0 .. MaxResizes /\ 0 \in 0 .. MaxHides
          /\ 0 \in 0 .. MaxConnects
      BY BoundsAssumption
    <2>2. fb \in [Screen -> 0 .. MaxUpdates + MaxResizes]
      BY <2>1 DEF Init
    <2>3. \A c \in Clients : view[c] \in Views
      BY NothingIsView DEF Init
    <2>4. DOMAIN rects = {}
      BY DEF Init
    <2> QED BY <2>1, <2>2, <2>3, <2>4 DEF Init, TypeOK
  <1>2. FrameInv
    BY <1>1, BoundsAssumption DEF Init, FrameInv
  <1> QED BY <1>1, <1>2 DEF Init, IInv, Sound, JobsOrdered, FullIsWhole, SizesOrdered,
                            ClosedToStaff, HiddenUnlessInFlight, OnItsWay

\* What the screens of the clients rest on is kept by every frame, change of size,
\* connection, login, hiding and showing (display/vnc.ts, CollabVMServer.ts).
THEOREM Invariance == Spec => []IInv
  <1>1. IInv /\ [Next]_vars => IInv'
    BY SoundKept, SizesKept, ClosedKept, HiddenKept, OnItsWayKept DEF IInv
  <1> QED BY Start, <1>1, PTL DEF Spec

\* Every step of the frames and of their handlers keeps the types.
THEOREM TypeCorrect == Spec => []TypeOK
  <1>1. IInv => TypeOK
    BY DEF IInv, Sound
  <1> QED BY <1>1, Invariance, PTL

\* Nobody but staff sees anything of the hidden screen, unless a full screen that
\* was asked for before the hiding is sent after it (SendFullScreenWithSize).
THEOREM HiddenUnlessInFlightHolds == Spec => []HiddenUnlessInFlight
  <1>1. IInv => HiddenUnlessInFlight
    BY DEF IInv
  <1> QED BY <1>1, Invariance, PTL

\* At rest each client that may see the screen sees each pixel as it is, in the
\* size it has, unless something older was sent to it after something newer or it
\* was told that it cannot connect (connectViewShared, CollabVMServer.ts 443-449).
THEOREM ViewersCurrentHolds == Spec => []ViewersCurrent
  <1>1. IInv => ViewersCurrent
    <2> SUFFICES ASSUME IInv, jobs = {}, rects = <<>>, ~hidden, NEW c \in joined \ (overtaken \cup blank)
                 PROVE  view[c].pic = fb /\ view[c].size = size
      BY DEF ViewersCurrent, AtRest, Current
    <2>1. \A p \in Screen : SizeArrives(c) /\ PixelArrives(c, p)
      BY DEF IInv, OnItsWay
    <2>2. view[c].size = size
      BY <2>1, ScreenIs DEF SizeArrives
    <2>3. \A p \in Screen : view[c].pic[p] = fb[p]
      BY <2>1 DEF PixelArrives
    <2>4. view[c].pic \in [Screen -> -1 .. MaxUpdates + MaxResizes]
          /\ fb \in [Screen -> 0 .. MaxUpdates + MaxResizes]
      BY DEF IInv, Sound, TypeOK, Views, Pictures
    <2>5. view[c].pic = fb
      BY <2>3, <2>4
    <2> QED BY <2>2, <2>5
  <1> QED BY <1>1, Invariance, PTL
=============================================================================
