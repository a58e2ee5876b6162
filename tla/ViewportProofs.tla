--------------------------- MODULE ViewportProofs ---------------------------
(* Proofs about Viewport for any sessions, markers and times, and for users  *)
(* who take any number of steps.                                             *)
EXTENDS Viewport, TLAPS, SequenceTheorems, FunctionTheorems, FiniteSetTheorems, WellFoundedInduction

------------------------------------------------------------------------------
(* Types                                                                     *)

Clock == Int \cup {NoTime}
Clocks == {"utc", "system"}
Someone == Sessions \cup {None}
SomeKey == Keys \cup {None}
Pairs == Sessions \X Keys

Axes == [xVar : Clocks, refKey : SomeKey, lo : Int, hi : Int]
Lanes == [at : UNION { [S -> Int] : S \in SUBSET Sessions }, merged : SUBSET Sessions]
Cuts == UNION { [S -> {<<>>} \cup (Int \X Int)] : S \in SUBSET Sessions }

Widgets ==
  [xVar : Clocks, refKey : SomeKey, lo : Int, hi : Int, lastRef : Someone, lastOffset : Int,
   graphs : SUBSET Sessions, bubbles : [Keys -> Lanes], full : BOOLEAN, rebuildDue : BOOLEAN,
   markersDue : BOOLEAN, drag : Someone, dragKey : SomeKey, grab : Int, menu : {<<>>} \cup Pairs,
   tool : SomeKey]

Maps ==
  [range : Axes, tracksDue : BOOLEAN, dotsDue : BOOLEAN, tracks : Cuts, dots : SUBSET Pairs,
   unheard : SUBSET Sessions]

Environments ==
  [shown : SUBSET Sessions, hovered : Someone, stored : [Sessions -> [Keys -> Clock]]]

Writings ==
  {Nothing} \cup [session : Sessions, key : Keys, place : Int, time : Int, meant : Clock, follows : BOOLEAN]

TypeOK == p \in Widgets /\ map \in Maps /\ e \in Environments /\ wrote \in Writings

------------------------------------------------------------------------------
(* The inductive invariant                                                   *)

\* Only a redraw that is due swallows updates, and until one of the two timers
\* runs the bubbles are right.
BubblesStand(q, env) ==
  /\ q.full => q.rebuildDue
  /\ ~q.rebuildDue => q.graphs \subseteq env.shown
  /\ ~q.rebuildDue /\ ~q.markersDue => q.bubbles = Bubbles(q, env)

\* Unless a redraw is due, what is remembered of the reference session is its
\* offset; a session that is hidden may have been edited behind it.
OriginIsKnown(q, env) ==
  ~q.rebuildDue /\ q.lastRef \in env.shown => q.lastOffset = Origin(q, env, q.lastRef)

DragIsWhole(q) == q.drag # None => q.dragKey \in Keys

Followed(q, m, env) ==
  /\ m.range = Axis(q)
  /\ ~m.dotsDue => m.dots = Dots(env, m.range)
  /\ ~m.tracksDue => /\ DOMAIN m.tracks = env.shown
                     /\ \A s \in env.shown \ m.unheard : m.tracks[s] = Cropped(env, s, m.range)

\* A marker that was moved is at the pointer, and if it is the reference, the
\* next move of it will find what it needs, though no redraw came between.
WrittenStands(q, env, wr) ==
  wr # Nothing /\ wr.follows =>
    /\ q.xVar = "utc"
    /\ PlotAxisXFromUtc(q, env, wr.session, Attribute(env, wr.session, wr.key)) = q.lo + wr.place
    /\ wr.key = q.refKey /\ q.lastRef = wr.session => q.lastOffset = Origin(q, env, wr.session)

Drawn(q, env) == BubblesStand(q, env) /\ OriginIsKnown(q, env) /\ DragIsWhole(q)

IInv == TypeOK /\ Drawn(p, e) /\ Followed(p, map, e) /\ WrittenStands(p, e, wrote)

------------------------------------------------------------------------------
(* Finite sets                                                               *)

LEMMA ImageIsFinite ==
  ASSUME NEW S, IsFiniteSet(S), NEW f, DOMAIN f = S
  PROVE  IsFiniteSet({ f[x] : x \in S })
<1>. DEFINE T == { f[x] : x \in S }
            g == [x \in S |-> f[x]]
<1>1. g \in Surjection(S, T)
  BY DEF Surjection
<1> QED
  BY <1>1, FS_Surjection

\* A finite set of integers has a first element and a last one.
LEMMA ExtremesAreThere ==
  ASSUME NEW S \in SUBSET Int, IsFiniteSet(S), S # {}
  PROVE  Min(S) \in S /\ Max(S) \in S
<1>. DEFINE R == StrictSubsetOrdering(S)
            HasBoth(T) == (\E x \in T : \A y \in T : x =< y) /\ (\E x \in T : \A y \in T : x >= y)
            Bad == { T \in FiniteSubsetsOf(S) : T # {} /\ ~HasBoth(T) }
<1>1. Bad = {}
  <2>. SUFFICES ASSUME Bad # {} PROVE FALSE
    OBVIOUS
  <2>1. Bad \subseteq FiniteSubsetsOf(S)
    OBVIOUS
  <2>2. PICK T \in Bad : \A U \in Bad : <<U, T>> \notin R
    BY <2>1, FS_StrictSubsetOrderingWellFounded, WFMin
  <2>3. T \in SUBSET S /\ IsFiniteSet(T) /\ T # {} /\ ~HasBoth(T)
    BY <2>2 DEF FiniteSubsetsOf
  <2>4. PICK x \in T : TRUE
    BY <2>3
  <2>. DEFINE U == T \ {x}
  <2>5. U \in FiniteSubsetsOf(S)
    BY <2>3, FS_RemoveElement DEF FiniteSubsetsOf
  <2>6. <<U, T>> \in R
    BY <2>3, <2>4 DEF StrictSubsetOrdering
  <2>7. U = {} \/ HasBoth(U)
    BY <2>2, <2>5, <2>6
  <2>8. x \in Int /\ U \subseteq Int /\ T = U \cup {x}
    BY <2>3, <2>4
  <2>9. CASE U = {}
    BY <2>3, <2>8, <2>9
  <2>10. CASE HasBoth(U)
    <3>1. PICK a \in U : \A y \in U : a =< y
      BY <2>10
    <3>2. PICK b \in U : \A y \in U : b >= y
      BY <2>10
    <3>3. \E z \in T : \A y \in T : z =< y
      BY <2>8, <3>1
    <3>4. \E z \in T : \A y \in T : z >= y
      BY <2>8, <3>2
    <3> QED
      BY <2>3, <3>3, <3>4
  <2> QED
    BY <2>7, <2>9, <2>10
<1>2. S \in FiniteSubsetsOf(S)
  BY DEF FiniteSubsetsOf
<1>3. HasBoth(S)
  BY <1>1, <1>2
<1> QED
  BY <1>3 DEF Min, Max

LEMMA PairsAreFinite ==
  ASSUME NEW a, NEW b
  PROVE  IsFiniteSet({a, b})
<1>1. {a, b} = {a} \cup {b}
  OBVIOUS
<1>2. IsFiniteSet({a}) /\ IsFiniteSet({b})
  BY FS_Singleton
<1>3. IsFiniteSet({a} \cup {b})
  BY <1>2, FS_Union
<1> QED
  BY <1>1, <1>3

LEMMA SessionsAreFinite ==
  ASSUME IsViewport
  PROVE  IsFiniteSet(Sessions)
<1>1. DOMAIN Rows = 1..Len(Rows) /\ Len(Rows) \in Nat
  BY LenProperties DEF IsViewport
<1>2. IsFiniteSet(DOMAIN Rows)
  BY <1>1, FS_Interval
<1>3. Sessions = { Rows[i] : i \in DOMAIN Rows }
  BY DEF Sessions, ToSet
<1> QED
  BY <1>2, <1>3, ImageIsFinite

\* A session is the reference session whenever one is shown.
LEMMA ReferenceIsThere ==
  ASSUME IsViewport, NEW env \in Environments
  PROVE  /\ ReferenceSession(env) \in Someone
         /\ ReferenceSession(env) = None => env.shown = {}
<1>. DEFINE visible == { i \in DOMAIN Rows : Rows[i] \in env.shown }
<1>1. DOMAIN Rows = 1..Len(Rows) /\ Len(Rows) \in Nat
  BY LenProperties DEF IsViewport
<1>2. Sessions = { Rows[i] : i \in DOMAIN Rows }
  BY DEF Sessions, ToSet
<1>3. visible \in SUBSET Int /\ IsFiniteSet(visible)
  <2>1. visible \in SUBSET DOMAIN Rows /\ DOMAIN Rows \in SUBSET Int
    BY <1>1
  <2>2. IsFiniteSet(DOMAIN Rows)
    BY <1>1, FS_Interval
  <2> QED
    BY <2>1, <2>2, FS_Subset
<1>4. visible # {} => Min(visible) \in visible
  BY <1>3, ExtremesAreThere
<1>5. visible # {} => Rows[Min(visible)] \in Sessions
  BY <1>2, <1>4
<1>6. visible = {} => env.shown = {}
  BY <1>2 DEF Environments
<1>7. env.hovered \in Someone /\ None \notin Sessions
  BY DEF Environments, IsViewport
<1> QED
  BY <1>5, <1>6, <1>7 DEF ReferenceSession, Someone

------------------------------------------------------------------------------
(* Times                                                                     *)

LEMMA ShiftIsTyped ==
  ASSUME IsViewport, NEW t \in Clock, NEW d \in Clock
  PROVE  Shift(t, d) \in Clock /\ (Shift(t, d) = NoTime <=> t = NoTime \/ d = NoTime)
  BY DEF Shift, Clock, IsViewport

LEMMA ConversionsAreTyped ==
  ASSUME IsViewport, NEW s \in Sessions, NEW t \in Clock, NEW x \in Clocks
  PROVE  Absolute(x, s, t) \in Clock /\ SystemTimeToUtc(s, t) \in Clock
<1>1. Skew[s] \in Clock
  BY DEF IsViewport, Clock
<1>2. UtcToSystemTime(s, t) \in Clock
  BY <1>1, ShiftIsTyped DEF UtcToSystemTime
<1>3. Skew[s] # NoTime => -Skew[s] \in Clock
  BY <1>1 DEF Clock
<1>4. SystemTimeToUtc(s, t) \in Clock
  BY <1>3, ShiftIsTyped DEF SystemTimeToUtc, Clock
<1> QED
  BY <1>2, <1>4 DEF Absolute

LEMMA AttributeIsTyped ==
  ASSUME IsViewport, NEW env \in Environments, NEW s \in Sessions, NEW key \in Keys
  PROVE  Attribute(env, s, key) \in Clock
  BY DEF Attribute, Environments, IsViewport, Clock

LEMMA OffsetIsTyped ==
  ASSUME IsViewport, NEW env \in Environments, NEW s \in Sessions, NEW refKey \in SomeKey, NEW x \in Clocks
  PROVE  MarkerOffsetSeconds(env, s, refKey, x) \in Clock
<1>1. CASE refKey = None
  BY <1>1 DEF MarkerOffsetSeconds, Clock
<1>2. CASE refKey # None
  <2>1. Attribute(env, s, refKey) \in Clock
    BY <1>2, AttributeIsTyped DEF SomeKey
  <2> QED
    BY <1>2, <2>1, ConversionsAreTyped DEF MarkerOffsetSeconds
<1> QED
  BY <1>1, <1>2

LEMMA PlacesAreTyped ==
  ASSUME IsViewport, NEW q \in Widgets, NEW env \in Environments, NEW s \in Sessions
  PROVE  /\ Offset(q, env, s) \in Clock /\ Origin(q, env, s) \in Int
         /\ \A t \in Clock : PlotAxisXFromUtc(q, env, s, t) \in Clock
         /\ \A x \in Int : XCoordToUtcSeconds(q, env, s, x) \in Int /\ UtcAt(q, env, s, x) \in Clock
<1>1. q.xVar \in Clocks /\ q.refKey \in SomeKey
  BY DEF Widgets
<1>2. Offset(q, env, s) \in Clock
  BY <1>1, OffsetIsTyped DEF Offset
<1>3. Origin(q, env, s) \in Int
  BY <1>2 DEF Origin, Clock
<1>4. ASSUME NEW t \in Clock PROVE PlotAxisXFromUtc(q, env, s, t) \in Clock
  <2>1. Absolute(q.xVar, s, t) \in Clock
    BY <1>1, ConversionsAreTyped
  <2>2. Offset(q, env, s) # NoTime => -Offset(q, env, s) \in Clock
    BY <1>2 DEF Clock
  <2> QED
    BY <2>1, <2>2, ShiftIsTyped DEF PlotAxisXFromUtc, Clock
<1>5. ASSUME NEW x \in Int PROVE XCoordToUtcSeconds(q, env, s, x) \in Int /\ UtcAt(q, env, s, x) \in Clock
  <2>1. XCoordToUtcSeconds(q, env, s, x) \in Int
    BY <1>2 DEF XCoordToUtcSeconds, Clock
  <2>2. Shift(x, Offset(q, env, s)) \in Clock
    BY <1>2, ShiftIsTyped DEF Clock
  <2> QED
    BY <1>1, <2>1, <2>2, ConversionsAreTyped DEF UtcAt
<1> QED
  BY <1>2, <1>3, <1>4, <1>5

------------------------------------------------------------------------------
(* What the views read                                                       *)

\* Two states of the plot with the same axis, and of the sessions with the same
\* markers.
SameAxis(q, r) == r.xVar = q.xVar /\ r.refKey = q.refKey /\ r.lo = q.lo /\ r.hi = q.hi
SameMarkers(env, fnv) == fnv.shown = env.shown /\ fnv.stored = env.stored

LEMMA AxisIsRead ==
  ASSUME NEW q, NEW r, SameAxis(q, r)
  PROVE  Axis(r) = Axis(q)
  BY DEF SameAxis, Axis

LEMMA OffsetIsRead ==
  ASSUME NEW q, NEW r, r.xVar = q.xVar, r.refKey = q.refKey, NEW env, NEW fnv, fnv.stored = env.stored, NEW s
  PROVE  /\ Offset(r, fnv, s) = Offset(q, env, s)
         /\ Origin(r, fnv, s) = Origin(q, env, s)
         /\ \A t : PlotAxisXFromUtc(r, fnv, s, t) = PlotAxisXFromUtc(q, env, s, t)
         /\ \A key : Attribute(fnv, s, key) = Attribute(env, s, key)
<1>1. \A key : Attribute(fnv, s, key) = Attribute(env, s, key)
  BY DEF Attribute
<1>2. Offset(r, fnv, s) = Offset(q, env, s)
  BY <1>1 DEF Offset, MarkerOffsetSeconds
<1> QED
  BY <1>1, <1>2 DEF Origin, PlotAxisXFromUtc

LEMMA BubblesAreRead ==
  ASSUME NEW q, NEW r, SameAxis(q, r), NEW env, NEW fnv, SameMarkers(env, fnv)
  PROVE  Bubbles(r, fnv) = Bubbles(q, env)
<1>. DEFINE PlaceOf(key, s) == PlotAxisXFromUtc(q, env, s, Attribute(env, s, key))
            OtherPlaceOf(key, s) == PlotAxisXFromUtc(r, fnv, s, Attribute(fnv, s, key))
            near == (-ClusterDistance)..ClusterDistance
            D(key) == { s \in env.shown : PlaceOf(key, s) # NoTime /\ q.lo <= PlaceOf(key, s) /\ PlaceOf(key, s) <= q.hi }
            E(key) == { s \in fnv.shown : OtherPlaceOf(key, s) # NoTime /\ r.lo <= OtherPlaceOf(key, s) /\ OtherPlaceOf(key, s) <= r.hi }
            S(key) == { s \in D(key) : \A t \in D(key) \ {s} : ~(PlaceOf(key, t) - PlaceOf(key, s) \in near) }
            T(key) == { s \in E(key) : \A t \in E(key) \ {s} : ~(OtherPlaceOf(key, t) - OtherPlaceOf(key, s) \in near) }
<1>1. \A key : \A s : OtherPlaceOf(key, s) = PlaceOf(key, s)
  BY OffsetIsRead DEF SameMarkers, SameAxis
<1>2. r.lo = q.lo /\ r.hi = q.hi /\ fnv.shown = env.shown
  BY DEF SameAxis, SameMarkers
<1>. HIDE DEF PlaceOf, OtherPlaceOf, near
<1>3. \A key : E(key) = D(key)
  BY <1>1, <1>2
<1>. HIDE DEF D, E
<1>4. \A key : T(key) = S(key)
  BY <1>1, <1>3
<1>. HIDE DEF S, T
<1>5. \A key : [s \in T(key) |-> OtherPlaceOf(key, s) - r.lo] = [s \in S(key) |-> PlaceOf(key, s) - q.lo]
  BY <1>1, <1>2, <1>4
<1>6. Bubbles(q, env) = [key \in Keys |-> [at |-> [s \in S(key) |-> PlaceOf(key, s) - q.lo], merged |-> D(key) \ S(key)]]
  BY Zenon DEF Bubbles, PlaceOf, D, S, near
<1>7. Bubbles(r, fnv) = [key \in Keys |-> [at |-> [s \in T(key) |-> OtherPlaceOf(key, s) - r.lo], merged |-> E(key) \ T(key)]]
  BY Zenon DEF Bubbles, OtherPlaceOf, E, T, near
<1> QED
  BY <1>3, <1>4, <1>5, <1>6, <1>7, Zenon

LEMMA BubblesAreTyped ==
  ASSUME IsViewport, NEW q \in Widgets, NEW env \in Environments
  PROVE  Bubbles(q, env) \in [Keys -> Lanes]
<1>. DEFINE PlaceOf(key, s) == PlotAxisXFromUtc(q, env, s, Attribute(env, s, key))
            near == (-ClusterDistance)..ClusterDistance
            D(key) == { s \in env.shown : PlaceOf(key, s) # NoTime /\ q.lo <= PlaceOf(key, s) /\ PlaceOf(key, s) <= q.hi }
            S(key) == { s \in D(key) : \A t \in D(key) \ {s} : ~(PlaceOf(key, t) - PlaceOf(key, s) \in near) }
            lane(key) == [at |-> [s \in S(key) |-> PlaceOf(key, s) - q.lo], merged |-> D(key) \ S(key)]
<1>1. ASSUME NEW key \in Keys PROVE lane(key) \in Lanes
  <2>1. env.shown \subseteq Sessions /\ q.lo \in Int
    BY DEF Environments, Widgets
  <2>2. \A s \in Sessions : PlaceOf(key, s) \in Clock
    BY AttributeIsTyped, PlacesAreTyped
  <2>. HIDE DEF PlaceOf, near
  <2>3. D(key) \subseteq Sessions /\ \A s \in D(key) : PlaceOf(key, s) \in Int
    BY <2>1, <2>2 DEF Clock
  <2>. HIDE DEF D
  <2>4. S(key) \in SUBSET Sessions /\ \A s \in S(key) : PlaceOf(key, s) \in Int
    BY <2>3
  <2>. HIDE DEF S
  <2>5. [s \in S(key) |-> PlaceOf(key, s) - q.lo] \in [S(key) -> Int]
    BY <2>1, <2>4
  <2> QED
    BY <2>3, <2>4, <2>5 DEF Lanes
<1>2. Bubbles(q, env) = [key \in Keys |-> lane(key)]
  BY Zenon DEF Bubbles
<1> QED
  BY <1>1, <1>2

LEMMA DotsAreRead ==
  ASSUME NEW env, NEW fnv, SameMarkers(env, fnv), NEW r
  PROVE  Dots(fnv, r) = Dots(env, r)
<1>1. fnv.shown = env.shown /\ fnv.stored = env.stored
  BY DEF SameMarkers
<1>2. \A s : \A key : Attribute(fnv, s, key) = Attribute(env, s, key)
  BY <1>1 DEF Attribute
<1>3. \A s : MarkerOffsetSeconds(fnv, s, r.refKey, r.xVar) = MarkerOffsetSeconds(env, s, r.refKey, r.xVar)
  BY <1>2 DEF MarkerOffsetSeconds
<1>4. ASSUME NEW s PROVE DotRange(fnv, s, r) = DotRange(env, s, r)
  <2>1. MarkerOffsetSeconds(fnv, s, r.refKey, r.xVar) = MarkerOffsetSeconds(env, s, r.refKey, r.xVar)
    BY <1>3
  <2> QED
    BY <2>1, Zenon DEF DotRange
<1>. DEFINE Has(g, d) ==
       LET s == d[1]
           t == Attribute(g, s, d[2])
           offset == MarkerOffsetSeconds(g, s, r.refKey, r.xVar)
           range == DotRange(g, s, r)
       IN t # NoTime /\ OnTrack(s, t) /\ (offset # NoTime => range[1] <= t /\ t <= range[2])
<1>5. ASSUME NEW d PROVE Has(fnv, d) <=> Has(env, d)
  <2>1. /\ Attribute(fnv, d[1], d[2]) = Attribute(env, d[1], d[2])
        /\ MarkerOffsetSeconds(fnv, d[1], r.refKey, r.xVar) = MarkerOffsetSeconds(env, d[1], r.refKey, r.xVar)
        /\ DotRange(fnv, d[1], r) = DotRange(env, d[1], r)
    BY <1>2, <1>3, <1>4
  <2> QED
    BY <2>1, Zenon
<1>6. Dots(env, r) = { d \in env.shown \X Keys : Has(env, d) } /\ Dots(fnv, r) = { d \in fnv.shown \X Keys : Has(fnv, d) }
  BY Zenon DEF Dots
<1>. HIDE DEF Has
<1> QED
  BY <1>1, <1>5, <1>6

\* A track is cut by its own reference only.
LEMMA CutIsRead ==
  ASSUME NEW env, NEW fnv, NEW r, NEW s,
         r.refKey # None => Attribute(fnv, s, r.refKey) = Attribute(env, s, r.refKey)
  PROVE  Cropped(fnv, s, r) = Cropped(env, s, r)
<1>1. MarkerOffsetSeconds(fnv, s, r.refKey, r.xVar) = MarkerOffsetSeconds(env, s, r.refKey, r.xVar)
  BY DEF MarkerOffsetSeconds
<1>2. UtcRange(fnv, s, r) = UtcRange(env, s, r)
  BY <1>1, Zenon DEF UtcRange
<1> QED
  BY <1>2, Zenon DEF Cropped

LEMMA CutIsTyped ==
  ASSUME IsViewport, NEW env \in Environments, NEW r \in Axes, NEW s \in Sessions
  PROVE  Cropped(env, s, r) \in {<<>>} \cup (Int \X Int)
<1>. DEFINE offset == MarkerOffsetSeconds(env, s, r.refKey, r.xVar)
<1>1. r.xVar \in Clocks /\ r.refKey \in SomeKey /\ r.lo \in Int /\ r.hi \in Int
  BY DEF Axes
<1>2. offset \in Clock
  BY <1>1, OffsetIsTyped
<1>3. Span[s] \in Int \X Int
  BY DEF IsViewport
<1>4. UtcRange(env, s, r)[1] \in Int /\ UtcRange(env, s, r)[2] \in Int
  <2>. DEFINE lo == r.lo + offset
              hi == r.hi + offset
              a == SystemTimeToUtc(s, lo)
              b == SystemTimeToUtc(s, hi)
  <2>1. CASE offset = NoTime
    BY <1>3, <2>1 DEF UtcRange
  <2>2. CASE offset # NoTime
    <3>1. lo \in Clock /\ hi \in Clock /\ lo \in Int /\ hi \in Int
      BY <1>1, <1>2, <2>2 DEF Clock
    <3>2. a \in Clock /\ b \in Clock /\ (a = NoTime <=> b = NoTime)
      <4>1. Skew[s] \in Clock /\ NoTime \notin Int
        BY DEF IsViewport, Clock
      <4> QED
        BY <3>1, <4>1 DEF SystemTimeToUtc, Shift, Clock
    <3>. HIDE DEF lo, hi, a, b
    <3>3. UtcRange(env, s, r) = LET ends == IF r.xVar = "system" THEN <<a, b>> ELSE <<lo, hi>>
                                IN IF ends[1] = NoTime THEN Span[s] ELSE ends
      BY <2>2, Zenon DEF UtcRange, a, b, lo, hi
    <3> QED
      BY <1>3, <3>1, <3>2, <3>3 DEF Clock, IsViewport
  <2> QED
    BY <2>1, <2>2
<1>. DEFINE range == UtcRange(env, s, r)
            from == IF range[1] > Span[s][1] THEN range[1] ELSE Span[s][1]
            to == IF range[2] < Span[s][2] THEN range[2] ELSE Span[s][2]
<1>5. from \in Int /\ to \in Int
  BY <1>3, <1>4
<1>6. Cropped(env, s, r) = IF from < to THEN <<from, to>> ELSE <<>>
  BY Zenon DEF Cropped
<1>. HIDE DEF from, to
<1> QED
  BY <1>5, <1>6

------------------------------------------------------------------------------
(* The plot                                                                  *)

\* Nothing but the drawing changes.
SameTools(q, r) ==
  r.drag = q.drag /\ r.dragKey = q.dragKey /\ r.grab = q.grab /\ r.menu = q.menu /\ r.tool = q.tool
SameOrigin(q, r) == r.lastRef = q.lastRef /\ r.lastOffset = q.lastOffset
SameDues(q, r) == r.full = q.full /\ r.rebuildDue = q.rebuildDue /\ r.markersDue = q.markersDue

LEMMA RangeChangedDoes ==
  ASSUME IsViewport, NEW q \in Widgets, NEW env \in Environments, NEW r, r = RangeChanged(q, env)
  PROVE  /\ r \in Widgets /\ SameAxis(q, r) /\ SameOrigin(q, r) /\ SameTools(q, r) /\ SameDues(q, r)
         /\ r.graphs = q.graphs /\ r.bubbles = Bubbles(r, env)
<1>. DEFINE b == Bubbles(q, env)
<1>1. b \in [Keys -> Lanes]
  BY BubblesAreTyped
<1>2. r = [q EXCEPT !.bubbles = b]
  BY DEF RangeChanged, UpdateMarkersOnly
<1>. HIDE DEF b
<1>3. /\ r \in Widgets /\ SameAxis(q, r) /\ SameOrigin(q, r) /\ SameTools(q, r) /\ SameDues(q, r)
      /\ r.graphs = q.graphs /\ r.bubbles = b
  BY <1>1, <1>2 DEF Widgets, SameAxis, SameOrigin, SameTools, SameDues
<1>4. Bubbles(r, env) = b
  BY <1>3, BubblesAreRead DEF SameMarkers, b
<1> QED
  BY <1>3, <1>4

LEMMA UpdatePlotDoes ==
  ASSUME IsViewport, NEW q \in Widgets, NEW env \in Environments, NEW r, r = UpdatePlot(q, env)
  PROVE  /\ r \in Widgets /\ SameAxis(q, r) /\ SameTools(q, r)
         /\ ~r.full /\ r.rebuildDue = q.rebuildDue /\ r.markersDue = q.markersDue
         /\ r.graphs \subseteq env.shown /\ r.bubbles = Bubbles(r, env)
         /\ r.lastRef \in env.shown => r.lastOffset = Origin(r, env, r.lastRef)
         /\ SameOrigin(q, r) \/ r.lastOffset = Origin(r, env, r.lastRef)
<1>. DEFINE ref == ReferenceSession(env)
            a == RangeChanged(q, env)
            G == { s \in env.shown : Offset(q, env, s) # NoTime /\ (q.xVar \in OwnClocks \/ Skew[s] # NoTime) }
            d == [a EXCEPT !.full = FALSE, !.graphs = G]
            origin == Origin(q, env, ref)
<1>1. /\ a \in Widgets /\ SameAxis(q, a) /\ SameOrigin(q, a) /\ SameTools(q, a) /\ SameDues(q, a)
      /\ a.bubbles = Bubbles(a, env)
  BY RangeChangedDoes
<1>2. ref \in Someone /\ (ref = None => env.shown = {}) /\ None \notin Sessions
  BY ReferenceIsThere DEF IsViewport
<1>3. ref # None => origin \in Int
  BY <1>2, PlacesAreTyped DEF Someone
<1>4. r = IF ref = None THEN d ELSE [d EXCEPT !.lastRef = ref, !.lastOffset = origin]
  BY Zenon DEF UpdatePlot
<1>5. G \subseteq env.shown /\ G \subseteq Sessions
  BY DEF Environments
<1>. HIDE DEF a, G, origin, ref
<1>6. /\ d \in Widgets /\ SameAxis(q, d) /\ SameOrigin(q, d) /\ SameTools(q, d)
      /\ ~d.full /\ d.rebuildDue = q.rebuildDue /\ d.markersDue = q.markersDue
      /\ d.graphs = G /\ d.bubbles = a.bubbles
  BY <1>1, <1>5 DEF Widgets, SameAxis, SameOrigin, SameTools, SameDues
<1>. HIDE DEF d
<1>7. /\ r \in Widgets /\ SameAxis(q, r) /\ SameTools(q, r)
      /\ ~r.full /\ r.rebuildDue = q.rebuildDue /\ r.markersDue = q.markersDue
      /\ r.graphs = G /\ r.bubbles = a.bubbles
      /\ ref = None => r = d
      /\ ref # None => r.lastRef = ref /\ r.lastOffset = origin
  <2>1. CASE ref = None
    BY <1>4, <1>6, <2>1
  <2>2. CASE ref # None
    BY <1>2, <1>3, <1>4, <1>6, <2>2 DEF Widgets, SameAxis, SameTools
  <2> QED
    BY <2>1, <2>2
<1>8. SameAxis(a, r)
  BY <1>1, <1>7 DEF SameAxis
<1>9. Bubbles(r, env) = a.bubbles
  BY <1>1, <1>8, BubblesAreRead DEF SameMarkers
<1>10. Origin(r, env, ref) = origin
  BY <1>7, OffsetIsRead DEF origin, SameAxis
<1> QED
  BY <1>2, <1>5, <1>6, <1>7, <1>9, <1>10 DEF SameOrigin

LEMMA MarkerUpdateIsScheduled ==
  ASSUME NEW q \in Widgets, NEW r, r = ScheduleMarkerUpdate(q)
  PROVE  /\ r \in Widgets /\ SameAxis(q, r) /\ SameOrigin(q, r) /\ SameTools(q, r)
         /\ r.graphs = q.graphs /\ r.full = q.full /\ r.rebuildDue = q.rebuildDue
         /\ ~q.full => r.markersDue
<1>1. CASE q.full
  BY <1>1 DEF ScheduleMarkerUpdate, SameAxis, SameOrigin, SameTools
<1>2. CASE ~q.full
  BY <1>2 DEF ScheduleMarkerUpdate, SameAxis, SameOrigin, SameTools, Widgets
<1> QED
  BY <1>1, <1>2

LEMMA RebuildIsScheduled ==
  ASSUME NEW q \in Widgets, NEW r, r = SchedulePlotRebuild(q)
  PROVE  /\ r \in Widgets /\ SameAxis(q, r) /\ SameOrigin(q, r) /\ SameTools(q, r)
         /\ r.graphs = q.graphs /\ r.rebuildDue
  BY DEF SchedulePlotRebuild, SameAxis, SameOrigin, SameTools, Widgets

\* The range moves along with the reference session, or stays.
LEMMA ShiftRangeDoes ==
  ASSUME IsViewport, NEW q \in Widgets, NEW env \in Environments, NEW S, S \subseteq Sessions,
         NEW r, r = ShiftRange(q, env, S)
  PROVE  /\ r \in Widgets /\ SameTools(q, r) /\ SameDues(q, r)
         /\ r.xVar = q.xVar /\ r.refKey = q.refKey /\ r.lastRef = q.lastRef
         /\ IF q.lastRef \in S /\ q.lastRef = ReferenceSession(env)
            THEN /\ r.lastOffset = Origin(q, env, q.lastRef)
                 /\ r.lo = q.lo - (r.lastOffset - q.lastOffset)
            ELSE r.lastOffset = q.lastOffset /\ r.lo = q.lo
<1>1. CASE ~(q.lastRef \in S /\ q.lastRef = ReferenceSession(env))
  BY <1>1 DEF ShiftRange, SameTools, SameDues
<1>2. CASE q.lastRef \in S /\ q.lastRef = ReferenceSession(env)
  <2>. DEFINE new == Origin(q, env, q.lastRef)
              delta == new - q.lastOffset
  <2>1. new \in Int
    BY <1>2, PlacesAreTyped
  <2>2. r = [q EXCEPT !.lo = @ - delta, !.hi = @ - delta, !.lastOffset = new]
    BY <1>2 DEF ShiftRange
  <2>. HIDE DEF new
  <2>3. q.lo \in Int /\ q.hi \in Int /\ q.lastOffset \in Int
    BY DEF Widgets
  <2>4. q.lo - delta \in Int /\ q.hi - delta \in Int
    BY <2>1, <2>3
  <2>5. /\ r \in Widgets /\ SameTools(q, r) /\ SameDues(q, r)
        /\ r.xVar = q.xVar /\ r.refKey = q.refKey /\ r.lastRef = q.lastRef
        /\ r.lastOffset = new /\ r.lo = q.lo - delta
    BY <2>1, <2>2, <2>4 DEF Widgets, SameTools, SameDues
  <2> QED
    BY <1>2, <2>5 DEF new
<1> QED
  BY <1>1, <1>2

------------------------------------------------------------------------------
(* The map                                                                   *)

LEMMA AxisIsTyped ==
  ASSUME NEW q \in Widgets
  PROVE  Axis(q) \in Axes
  BY DEF Axis, Axes, Widgets

LEMMA SetRangeDoes ==
  ASSUME NEW m \in Maps, NEW a \in Axes, NEW r, r = SetRange(m, a)
  PROVE  /\ r \in Maps /\ r.range = a
         /\ r = m \/ (r.tracksDue /\ r.dotsDue)
<1>1. CASE m.range = a
  BY <1>1 DEF SetRange
<1>2. CASE m.range # a
  BY <1>2 DEF SetRange, Maps
<1> QED
  BY <1>1, <1>2

LEMMA RangeIsFollowed ==
  ASSUME NEW q, NEW m \in Maps, NEW env, Followed(q, m, env), NEW u \in Widgets, NEW r, r = SetRange(m, Axis(u))
  PROVE  r \in Maps /\ Followed(u, r, env)
<1>1. r \in Maps /\ r.range = Axis(u) /\ (r = m \/ (r.tracksDue /\ r.dotsDue))
  BY AxisIsTyped, SetRangeDoes
<1> QED
  BY <1>1 DEF Followed

\* Only the axis, the markers and the sessions that are shown matter.
LEMMA MapIsKept ==
  ASSUME NEW q, NEW m, NEW env, Followed(q, m, env), NEW u, SameAxis(q, u), NEW fnv, SameMarkers(env, fnv)
  PROVE  Followed(u, m, fnv)
<1>1. Axis(u) = Axis(q)
  BY AxisIsRead
<1>2. Dots(fnv, m.range) = Dots(env, m.range)
  BY DotsAreRead
<1>3. \A s : Cropped(fnv, s, m.range) = Cropped(env, s, m.range)
  BY CutIsRead DEF Attribute, SameMarkers
<1> QED
  BY <1>1, <1>2, <1>3 DEF Followed, SameMarkers

------------------------------------------------------------------------------
(* Setting a marker                                                          *)

ChangedIn(env, key, times) == { s \in DOMAIN times : Changes(env, s, key, times[s]) }

\* What is stored afterwards.
StoredIn(env, S, key, times, fnv) ==
  /\ fnv \in Environments /\ fnv.shown = env.shown /\ fnv.hovered = env.hovered
  /\ \A s \in Sessions : \A k \in Keys :
       fnv.stored[s][k] = IF s \in S /\ k = key THEN times[s] ELSE env.stored[s][k]

LEMMA MarkersAreStored ==
  ASSUME NEW env \in Environments, NEW key \in Keys, NEW times, NEW S, S \subseteq Sessions,
         \A s \in S : times[s] \in Clock, NEW fnv,
         fnv = [env EXCEPT !.stored = [s \in Sessions |->
                  IF s \in S THEN [env.stored[s] EXCEPT ![key] = times[s]] ELSE env.stored[s]]]
  PROVE  StoredIn(env, S, key, times, fnv)
<1>. DEFINE new == [s \in Sessions |-> IF s \in S THEN [env.stored[s] EXCEPT ![key] = times[s]] ELSE env.stored[s]]
<1>1. \A s \in Sessions : env.stored[s] \in [Keys -> Clock]
  BY DEF Environments
<1>2. ASSUME NEW s \in Sessions
      PROVE  /\ new[s] \in [Keys -> Clock]
             /\ \A k \in Keys : new[s][k] = IF s \in S /\ k = key THEN times[s] ELSE env.stored[s][k]
  BY <1>1
<1>3. new = [s \in Sessions |-> new[s]]
  OBVIOUS
<1>. HIDE DEF new
<1>4. new \in [Sessions -> [Keys -> Clock]]
  BY <1>2, <1>3
<1>5. fnv = [env EXCEPT !.stored = new]
  BY DEF new
<1>6. fnv \in Environments /\ fnv.shown = env.shown /\ fnv.hovered = env.hovered /\ fnv.stored = new
  BY <1>4, <1>5 DEF Environments
<1> QED
  BY <1>2, <1>6 DEF StoredIn

\* The plot hears of a marker: of one that is not the reference of the axis it
\* has to draw the bubbles, of the reference everything, and the range may move.
HeardOf(q, env, S, key, u) ==
  /\ u \in Widgets /\ SameTools(q, u) /\ u.graphs = q.graphs
  /\ u.xVar = q.xVar /\ u.refKey = q.refKey /\ u.lastRef = q.lastRef
  /\ key # q.refKey => /\ SameAxis(q, u) /\ SameOrigin(q, u)
                       /\ u.full = q.full /\ u.rebuildDue = q.rebuildDue /\ (~q.full => u.markersDue)
  /\ key = q.refKey =>
       /\ u.rebuildDue
       /\ IF q.lastRef \in S /\ q.lastRef = ReferenceSession(env)
          THEN u.lastOffset = Origin(q, env, q.lastRef) /\ u.lo = q.lo - (u.lastOffset - q.lastOffset)
          ELSE u.lastOffset = q.lastOffset /\ u.lo = q.lo

LEMMA PlotHears ==
  ASSUME IsViewport, NEW q \in Widgets, NEW env \in Environments, NEW S, S \subseteq Sessions, NEW key \in Keys,
         NEW u, u = OnDependencyChanged(ScheduleMarkerUpdate(q), env, S, key)
  PROVE  HeardOf(q, env, S, key, u)
<1>. DEFINE a == ScheduleMarkerUpdate(q)
<1>1. /\ a \in Widgets /\ SameAxis(q, a) /\ SameOrigin(q, a) /\ SameTools(q, a)
      /\ a.graphs = q.graphs /\ a.full = q.full /\ a.rebuildDue = q.rebuildDue
      /\ ~q.full => a.markersDue
  BY MarkerUpdateIsScheduled
<1>2. a.refKey = q.refKey
  BY <1>1 DEF SameAxis
<1>. HIDE DEF a
<1>3. CASE key # q.refKey
  <2>1. u = ScheduleMarkerUpdate(a)
    BY <1>2, <1>3 DEF OnDependencyChanged, a
  <2>2. /\ u \in Widgets /\ SameAxis(a, u) /\ SameOrigin(a, u) /\ SameTools(a, u)
        /\ u.graphs = a.graphs /\ u.full = a.full /\ u.rebuildDue = a.rebuildDue
        /\ ~a.full => u.markersDue
    BY <1>1, <2>1, MarkerUpdateIsScheduled
  <2> QED
    BY <1>1, <1>3, <2>2 DEF HeardOf, SameAxis, SameOrigin, SameTools
<1>4. CASE key = q.refKey
  <2>. DEFINE b == ShiftRange(a, env, S)
  <2>1. /\ b \in Widgets /\ SameTools(a, b) /\ SameDues(a, b)
        /\ b.xVar = a.xVar /\ b.refKey = a.refKey /\ b.lastRef = a.lastRef
        /\ IF a.lastRef \in S /\ a.lastRef = ReferenceSession(env)
           THEN /\ b.lastOffset = Origin(a, env, a.lastRef)
                /\ b.lo = a.lo - (b.lastOffset - a.lastOffset)
           ELSE b.lastOffset = a.lastOffset /\ b.lo = a.lo
    BY <1>1, ShiftRangeDoes
  <2>2. u = SchedulePlotRebuild(b)
    BY <1>2, <1>4 DEF OnDependencyChanged, a
  <2>3. b.graphs = a.graphs
    BY <1>1 DEF ShiftRange
  <2>. HIDE DEF b
  <2>4. /\ u \in Widgets /\ SameAxis(b, u) /\ SameOrigin(b, u) /\ SameTools(b, u)
        /\ u.graphs = b.graphs /\ u.rebuildDue
    BY <2>1, <2>2, RebuildIsScheduled
  <2>5. Origin(a, env, a.lastRef) = Origin(q, env, q.lastRef)
    BY <1>1, OffsetIsRead DEF SameAxis, SameOrigin
  <2> QED
    BY <1>1, <1>4, <2>1, <2>3, <2>4, <2>5 DEF HeardOf, SameAxis, SameOrigin, SameTools
<1> QED
  BY <1>3, <1>4

\* What setting a marker makes of plot, map and sessions.
Told(q, m, S, key) == [m EXCEPT !.dotsDue = TRUE, !.unheard = IF key = q.refKey THEN @ \cup S ELSE @]

StoreEffect(q, m, env, S, key, times, r) ==
  /\ S # {} /\ StoredIn(env, S, key, times, r.e) /\ HeardOf(q, r.e, S, key, r.p)
  /\ r.map = IF Axis(r.p) = Axis(q) THEN Told(q, m, S, key) ELSE SetRange(Told(q, m, S, key), Axis(r.p))

LEMMA StoreDoes ==
  ASSUME IsViewport, NEW q \in Widgets, NEW m \in Maps, NEW env \in Environments, NEW key \in Keys,
         NEW times, DOMAIN times \subseteq Sessions, \A s \in DOMAIN times : times[s] \in Clock,
         NEW st, st = [p |-> q, map |-> m, e |-> env], NEW r, r = Store(st, key, times),
         NEW S, S = ChangedIn(env, key, times)
  PROVE  \/ S = {} /\ r = st
         \/ StoreEffect(q, m, env, S, key, times, r)
<1>. DEFINE fnv == [env EXCEPT !.stored = [s \in Sessions |->
                      IF s \in S THEN [env.stored[s] EXCEPT ![key] = times[s]] ELSE env.stored[s]]]
            u == OnDependencyChanged(ScheduleMarkerUpdate(q), fnv, S, key)
            told == Told(q, m, S, key)
            n == IF Axis(u) = Axis(q) THEN told ELSE SetRange(told, Axis(u))
<1>1. st.p = q /\ st.map = m /\ st.e = env
  OBVIOUS
<1>2. S \subseteq Sessions /\ \A s \in S : times[s] \in Clock
  BY DEF ChangedIn
<1>3. r = IF S = {} THEN st ELSE [e |-> fnv, p |-> u, map |-> n]
  BY <1>1, Zenon DEF Store, ChangedIn, Told
<1>4. StoredIn(env, S, key, times, fnv)
  BY <1>2, MarkersAreStored
<1>5. HeardOf(q, fnv, S, key, u)
  BY <1>2, <1>4, PlotHears DEF StoredIn
<1>. HIDE DEF fnv, u, n
<1>6. CASE S = {}
  BY <1>3, <1>6
<1>7. CASE S # {}
  <2>1. r.e = fnv /\ r.p = u /\ r.map = n
    BY <1>3, <1>7
  <2>2. r.map = IF Axis(r.p) = Axis(q) THEN told ELSE SetRange(told, Axis(r.p))
    BY <2>1, Zenon DEF n
  <2> QED
    BY <1>4, <1>5, <1>7, <2>1, <2>2, Zenon DEF StoreEffect
<1> QED
  BY <1>6, <1>7

\* What was true of the plot and of the map is true of them with the markers as
\* they are then.
LEMMA StoreIsGood ==
  ASSUME IsViewport, NEW q \in Widgets, NEW m \in Maps, NEW env \in Environments, NEW key \in Keys,
         NEW times, DOMAIN times \subseteq Sessions, \A s \in DOMAIN times : times[s] \in Clock,
         BubblesStand(q, env), OriginIsKnown(q, env), Followed(q, m, env),
         NEW r, r = Store([p |-> q, map |-> m, e |-> env], key, times)
  PROVE  /\ r.p \in Widgets /\ r.map \in Maps /\ r.e \in Environments
         /\ BubblesStand(r.p, r.e) /\ OriginIsKnown(r.p, r.e) /\ SameTools(q, r.p)
         /\ Followed(r.p, r.map, r.e)
<1>1. PICK S : S = ChangedIn(env, key, times)
  OBVIOUS
<1>. DEFINE st == [p |-> q, map |-> m, e |-> env]
            told == Told(q, m, S, key)
<1>2. r = st \/ StoreEffect(q, m, env, S, key, times, r)
  BY <1>1, StoreDoes
<1>3. S \subseteq Sessions
  BY <1>1 DEF ChangedIn
<1>4. CASE r = st
  BY <1>4 DEF SameTools
<1>5. CASE StoreEffect(q, m, env, S, key, times, r)
  <2>. USE <1>5 DEF StoreEffect
  <2>1. r.e \in Environments /\ r.e.shown = env.shown /\ r.e.hovered = env.hovered
    BY DEF StoredIn
  <2>2. r.p \in Widgets /\ SameTools(q, r.p) /\ r.p.graphs = q.graphs
    BY DEF HeardOf
  <2>3. BubblesStand(r.p, r.e) /\ OriginIsKnown(r.p, r.e)
    <3>1. CASE key = q.refKey
      BY <3>1 DEF HeardOf, BubblesStand, OriginIsKnown
    <3>2. CASE key # q.refKey
      <4>1. /\ SameAxis(q, r.p) /\ SameOrigin(q, r.p)
            /\ r.p.full = q.full /\ r.p.rebuildDue = q.rebuildDue /\ (~q.full => r.p.markersDue)
        BY <3>2 DEF HeardOf
      <4>2. BubblesStand(r.p, r.e)
        BY <2>1, <2>2, <4>1 DEF BubblesStand
      <4>3. ASSUME r.p.lastRef \in Sessions PROVE Origin(r.p, r.e, r.p.lastRef) = Origin(q, env, q.lastRef)
        <5>. DEFINE s == q.lastRef
        <5>1. r.p.xVar = q.xVar /\ r.p.refKey = q.refKey /\ r.p.lastRef = s /\ q.refKey \in SomeKey
          BY <4>1 DEF SameAxis, SameOrigin, Widgets
        <5>2. q.refKey # None => r.e.stored[s][q.refKey] = env.stored[s][q.refKey]
          BY <3>2, <4>3, <5>1 DEF StoredIn, SomeKey
        <5>. HIDE DEF s
        <5>3. q.refKey # None => Attribute(r.e, s, q.refKey) = Attribute(env, s, q.refKey)
          BY <5>2 DEF Attribute
        <5>4. Offset(r.p, r.e, s) = Offset(q, env, s)
          BY <5>1, <5>3 DEF Offset, MarkerOffsetSeconds
        <5> QED
          BY <5>1, <5>4 DEF Origin, s
      <4>4. OriginIsKnown(r.p, r.e)
        <5>1. env.shown \subseteq Sessions
          BY DEF Environments
        <5> QED
          BY <2>1, <4>1, <4>3, <5>1 DEF OriginIsKnown, SameOrigin
      <4> QED
        BY <4>2, <4>4
    <3> QED
      BY <3>1, <3>2
  <2>4. told \in Maps /\ told.dotsDue /\ told.range = m.range /\ told.tracksDue = m.tracksDue /\ told.tracks = m.tracks
    BY <1>3 DEF Maps, Told
  <2>5. told.unheard = IF key = q.refKey THEN m.unheard \cup S ELSE m.unheard
    BY DEF Maps, Told
  <2>6. Followed(q, told, r.e)
    <3>1. m.range = Axis(q)
      BY DEF Followed
    <3>2. ASSUME NEW s \in env.shown \ told.unheard, ~m.tracksDue
          PROVE  m.tracks[s] = Cropped(r.e, s, m.range)
      <4>1. s \in Sessions /\ s \notin m.unheard
        BY <2>5, <3>2 DEF Environments
      <4>2. key = q.refKey => s \notin S
        BY <2>5, <3>2
      <4>3. m.range.refKey = q.refKey /\ q.refKey \in SomeKey
        BY <3>1 DEF Axis, Widgets
      <4>4. q.refKey # None => r.e.stored[s][q.refKey] = env.stored[s][q.refKey]
        BY <4>1, <4>2, <4>3 DEF StoredIn, SomeKey
      <4>5. Cropped(r.e, s, m.range) = Cropped(env, s, m.range)
        BY <4>3, <4>4, CutIsRead DEF Attribute
      <4> QED
        BY <3>2, <4>1, <4>5 DEF Followed
    <3> QED
      BY <2>1, <2>4, <3>1, <3>2 DEF Followed
  <2>7. r.map \in Maps /\ Followed(r.p, r.map, r.e)
    <3>1. CASE Axis(r.p) = Axis(q)
      BY <2>4, <2>6, <3>1 DEF Followed
    <3>2. CASE Axis(r.p) # Axis(q)
      BY <2>2, <2>4, <2>6, <3>2, RangeIsFollowed
    <3> QED
      BY <3>1, <3>2
  <2> QED
    BY <2>1, <2>2, <2>3, <2>7
<1> QED
  BY <1>2, <1>4, <1>5

LEMMA ReferenceIsRead ==
  ASSUME NEW env, NEW fnv, fnv.shown = env.shown, fnv.hovered = env.hovered
  PROVE  ReferenceSession(fnv) = ReferenceSession(env)
<1>1. { i \in DOMAIN Rows : Rows[i] \in fnv.shown } = { i \in DOMAIN Rows : Rows[i] \in env.shown }
  OBVIOUS
<1> QED
  BY <1>1, Zenon DEF ReferenceSession

\* A marker that is set to the time under the pointer is under the pointer
\* afterwards, also when the range has moved with it.
LEMMA MarkerIsMoved ==
  ASSUME IsViewport, NEW q \in Widgets, NEW m \in Maps, NEW env \in Environments, NEW key \in Keys,
         NEW times, DOMAIN times \subseteq Sessions, \A s \in DOMAIN times : times[s] \in Int,
         NEW s \in DOMAIN times, NEW place \in Int, q.xVar = "utc", Offset(q, env, s) # NoTime,
         times[s] = q.lo + place + Offset(q, env, s),
         key = q.refKey => q.lastRef = s /\ ReferenceSession(env) = s /\ q.lastOffset = Origin(q, env, s),
         NEW r, r = Store([p |-> q, map |-> m, e |-> env], key, times)
  PROVE  /\ r.p.xVar = "utc" /\ r.p.refKey = q.refKey
         /\ PlotAxisXFromUtc(r.p, r.e, s, Attribute(r.e, s, key)) = r.p.lo + place
         /\ key = q.refKey => r.p.lastOffset = Origin(r.p, r.e, s)
<1>1. PICK S : S = ChangedIn(env, key, times)
  OBVIOUS
<1>. DEFINE st == [p |-> q, map |-> m, e |-> env]
            offset == Offset(q, env, s)
            time == times[s]
<1>2. (S = {} /\ r = st) \/ StoreEffect(q, m, env, S, key, times, r)
  <2>1. \A x \in DOMAIN times : times[x] \in Clock
    BY DEF Clock
  <2> QED
    BY <1>1, <2>1, StoreDoes
<1>3. /\ s \in Sessions /\ time \in Int /\ time # NoTime /\ offset \in Int /\ q.lo \in Int /\ q.lastOffset \in Int
      /\ time = q.lo + place + offset /\ None \notin Keys
  BY PlacesAreTyped DEF Clock, Widgets, IsViewport
<1>4. Origin(q, env, s) = offset
  BY <1>3 DEF Origin
<1>5. s \notin S => Attribute(env, s, key) = time
  BY <1>1, <1>3 DEF ChangedIn, Changes
<1>6. \A u : \A fnv : /\ u.xVar = "utc" /\ u.refKey = key
                        => Offset(u, fnv, s) = Attribute(fnv, s, key)
  BY <1>3 DEF Offset, MarkerOffsetSeconds, Absolute
<1>7. \A u : \A fnv : /\ u.xVar = "utc" /\ Offset(u, fnv, s) \in Int
                        => PlotAxisXFromUtc(u, fnv, s, time) = time - Offset(u, fnv, s)
  <2>. SUFFICES ASSUME NEW u, NEW fnv, u.xVar = "utc", Offset(u, fnv, s) \in Int
                PROVE  PlotAxisXFromUtc(u, fnv, s, time) = time - Offset(u, fnv, s)
    OBVIOUS
  <2>. DEFINE o == Offset(u, fnv, s)
  <2>1. o # NoTime /\ -o # NoTime /\ o \in Int
    BY DEF IsViewport
  <2>. HIDE DEF o
  <2>2. PlotAxisXFromUtc(u, fnv, s, time) = Shift(time, -o)
    BY <2>1 DEF PlotAxisXFromUtc, Absolute, o
  <2> QED
    BY <1>3, <2>1, <2>2 DEF Shift, o
<1>. HIDE DEF offset, time
<1>8. CASE S = {} /\ r = st
  <2>1. r.p = q /\ r.e = env
    BY <1>8
  <2>2. PlotAxisXFromUtc(q, env, s, time) = q.lo + place
    BY <1>3, <1>7 DEF offset
  <2> QED
    BY <1>5, <1>8, <2>1, <2>2
<1>9. CASE StoreEffect(q, m, env, S, key, times, r)
  <2>1. /\ r.p.xVar = "utc" /\ r.p.refKey = q.refKey /\ r.p.lastRef = q.lastRef
        /\ r.e.shown = env.shown /\ r.e.hovered = env.hovered
    BY <1>9 DEF StoreEffect, HeardOf, StoredIn
  <2>2. Attribute(r.e, s, key) = time
    <3>1. CASE s \in S
      <4>1. r.e.stored[s][key] = time
        BY <1>3, <1>9, <3>1 DEF StoreEffect, StoredIn, time
      <4> QED
        BY <1>3, <4>1 DEF Attribute
    <3>2. CASE s \notin S
      <4>1. r.e.stored[s][key] = env.stored[s][key]
        BY <1>3, <1>9, <3>2 DEF StoreEffect, StoredIn
      <4> QED
        BY <1>5, <3>2, <4>1 DEF Attribute
    <3> QED
      BY <3>1, <3>2
  <2>3. CASE key # q.refKey
    <3>1. r.p.lo = q.lo
      BY <1>9, <2>3 DEF StoreEffect, HeardOf, SameAxis
    <3>2. q.refKey # None => r.e.stored[s][q.refKey] = env.stored[s][q.refKey]
      <4>1. q.refKey \in SomeKey
        BY DEF Widgets
      <4> QED
        BY <1>3, <1>9, <2>3, <4>1 DEF StoreEffect, StoredIn, SomeKey
    <3>3. q.refKey # None => Attribute(r.e, s, q.refKey) = Attribute(env, s, q.refKey)
      BY <3>2 DEF Attribute
    <3>4. Offset(r.p, r.e, s) = offset
      BY <2>1, <3>3 DEF Offset, MarkerOffsetSeconds, offset
    <3>5. PlotAxisXFromUtc(r.p, r.e, s, time) = q.lo + place
      BY <1>3, <1>7, <2>1, <3>4
    <3> QED
      BY <2>1, <2>2, <2>3, <3>1, <3>5
  <2>4. CASE key = q.refKey
    <3>1. q.lastRef = s /\ ReferenceSession(r.e) = s /\ q.lastOffset = offset
      BY <1>4, <2>1, <2>4, ReferenceIsRead
    <3>2. Offset(r.p, r.e, s) = time /\ Offset(q, r.e, s) = time
      BY <1>6, <2>1, <2>2, <2>4
    <3>3. PlotAxisXFromUtc(r.p, r.e, s, time) = time - time
      BY <1>3, <1>7, <2>1, <3>2
    <3>4. Origin(r.p, r.e, s) = time /\ Origin(q, r.e, s) = time
      BY <1>3, <3>2 DEF Origin
    <3>5. CASE s \in S
      <4>1. r.p.lastOffset = time /\ r.p.lo = q.lo - (time - offset)
        BY <1>9, <2>4, <3>1, <3>4, <3>5 DEF StoreEffect, HeardOf
      <4> QED
        BY <1>3, <2>1, <2>2, <3>3, <3>4, <4>1
    <3>6. CASE s \notin S
      <4>1. r.p.lastOffset = offset /\ r.p.lo = q.lo
        BY <1>9, <2>4, <3>1, <3>6 DEF StoreEffect, HeardOf
      <4>2. offset = time
        BY <1>5, <1>6, <2>4, <3>6 DEF offset
      <4>3. q.lo + place = 0 /\ time - time = 0
        BY <1>3, <4>2
      <4>4. PlotAxisXFromUtc(r.p, r.e, s, Attribute(r.e, s, key)) = r.p.lo + place
        BY <2>2, <3>3, <4>1, <4>3
      <4> QED
        BY <2>1, <3>4, <4>1, <4>2, <4>4
    <3> QED
      BY <3>5, <3>6
  <2> QED
    BY <2>3, <2>4
<1> QED
  BY <1>2, <1>8, <1>9

------------------------------------------------------------------------------
(* The steps                                                                 *)

Good(q, m, env, wr) ==
  /\ q \in Widgets /\ m \in Maps /\ env \in Environments /\ wr \in Writings
  /\ Drawn(q, env) /\ Followed(q, m, env) /\ WrittenStands(q, env, wr)

LEMMA NothingIsWritten ==
  ASSUME NEW q, NEW env
  PROVE  Nothing \in Writings /\ WrittenStands(q, env, Nothing)
  BY DEF Writings, WrittenStands

\* What was written stands as long as axis, markers and origin do.
LEMMA WrittenIsKept ==
  ASSUME NEW q, NEW env, NEW wr, WrittenStands(q, env, wr), NEW u, SameAxis(q, u), NEW fnv, SameMarkers(env, fnv),
         SameOrigin(q, u) \/ u.lastOffset = Origin(u, fnv, u.lastRef)
  PROVE  WrittenStands(u, fnv, wr)
<1>. SUFFICES ASSUME wr # Nothing /\ wr.follows
              PROVE  /\ u.xVar = "utc"
                     /\ PlotAxisXFromUtc(u, fnv, wr.session, Attribute(fnv, wr.session, wr.key)) = u.lo + wr.place
                     /\ wr.key = u.refKey /\ u.lastRef = wr.session => u.lastOffset = Origin(u, fnv, wr.session)
  BY DEF WrittenStands
<1>1. /\ q.xVar = "utc"
      /\ PlotAxisXFromUtc(q, env, wr.session, Attribute(env, wr.session, wr.key)) = q.lo + wr.place
      /\ wr.key = q.refKey /\ q.lastRef = wr.session => q.lastOffset = Origin(q, env, wr.session)
  BY DEF WrittenStands
<1>2. u.xVar = q.xVar /\ u.refKey = q.refKey /\ u.lo = q.lo /\ fnv.stored = env.stored
  BY DEF SameAxis, SameMarkers
<1>3. /\ Origin(u, fnv, wr.session) = Origin(q, env, wr.session)
      /\ \A t : PlotAxisXFromUtc(u, fnv, wr.session, t) = PlotAxisXFromUtc(q, env, wr.session, t)
      /\ \A key : Attribute(fnv, wr.session, key) = Attribute(env, wr.session, key)
  BY <1>2, OffsetIsRead
<1> QED
  BY <1>1, <1>2, <1>3 DEF SameOrigin

LEMMA OriginIsRead ==
  ASSUME NEW q, NEW u, SameAxis(q, u), SameOrigin(q, u), NEW env
  PROVE  Origin(u, env, u.lastRef) = Origin(q, env, q.lastRef)
  BY OffsetIsRead DEF SameAxis, SameOrigin

LEMMA TracksTimeoutIsGood ==
  ASSUME IsViewport, Good(p, map, e, wrote), TracksTimeout
  PROVE  Good(p, map, e, wrote)'
<1>. DEFINE cut == Tracks(e, map.range)
<1>1. p \in Widgets /\ map \in Maps /\ e \in Environments
  BY DEF Good
<1>2. map.range \in Axes /\ e.shown \subseteq Sessions
  BY <1>1 DEF Maps, Environments
<1>3. cut = [s \in e.shown |-> Cropped(e, s, map.range)]
  BY DEF Tracks
<1>4. \A s \in e.shown : Cropped(e, s, map.range) \in {<<>>} \cup (Int \X Int)
  BY <1>1, <1>2, CutIsTyped
<1>5. cut \in Cuts /\ DOMAIN cut = e.shown /\ \A s \in e.shown : cut[s] = Cropped(e, s, map.range)
  BY <1>2, <1>3, <1>4 DEF Cuts
<1>. HIDE DEF cut
<1>6. map' = [map EXCEPT !.tracksDue = FALSE, !.tracks = cut, !.unheard = {}]
  BY DEF TracksTimeout, cut
<1>7. /\ map' \in Maps /\ map'.range = map.range /\ map'.dotsDue = map.dotsDue /\ map'.dots = map.dots
      /\ map'.tracks = cut
  BY <1>1, <1>5, <1>6 DEF Maps
<1>8. Followed(p, map', e)
  BY <1>5, <1>7 DEF Followed, Good
<1>9. p' = p /\ e' = e /\ wrote' = wrote
  BY DEF TracksTimeout
<1> QED
  BY <1>7, <1>8, <1>9 DEF Good

LEMMA DotsTimeoutIsGood ==
  ASSUME IsViewport, Good(p, map, e, wrote), DotsTimeout
  PROVE  Good(p, map, e, wrote)'
<1>. DEFINE dots == Dots(e, map.range)
<1>1. map \in Maps /\ e \in Environments
  BY DEF Good
<1>2. dots \in SUBSET Pairs
  BY <1>1 DEF Dots, Pairs, Environments
<1>. HIDE DEF dots
<1>3. map' = [map EXCEPT !.dotsDue = FALSE, !.dots = dots]
  BY DEF DotsTimeout, dots
<1>4. /\ map' \in Maps /\ map'.range = map.range /\ map'.tracksDue = map.tracksDue /\ map'.tracks = map.tracks
      /\ map'.unheard = map.unheard /\ map'.dots = dots
  BY <1>1, <1>2, <1>3 DEF Maps
<1>5. Followed(p, map', e)
  BY <1>4 DEF Followed, Good, dots
<1>6. p' = p /\ e' = e /\ wrote' = wrote
  BY DEF DotsTimeout
<1> QED
  BY <1>4, <1>5, <1>6 DEF Good

LEMMA RebuildTimeoutIsGood ==
  ASSUME IsViewport, Good(p, map, e, wrote), RebuildTimeout
  PROVE  Good(p, map, e, wrote)'
<1>. DEFINE u == UpdatePlot(p, e)
<1>1. p \in Widgets /\ map \in Maps /\ e \in Environments /\ wrote \in Writings
  BY DEF Good
<1>2. /\ u \in Widgets /\ SameAxis(p, u) /\ SameTools(p, u) /\ ~u.full
      /\ u.graphs \subseteq e.shown /\ u.bubbles = Bubbles(u, e)
      /\ u.lastRef \in e.shown => u.lastOffset = Origin(u, e, u.lastRef)
      /\ SameOrigin(p, u) \/ u.lastOffset = Origin(u, e, u.lastRef)
  BY <1>1, UpdatePlotDoes
<1>3. p' = [u EXCEPT !.rebuildDue = FALSE] /\ map' = SetRange(map, Axis(p')) /\ e' = e /\ wrote' = wrote
  BY DEF RebuildTimeout
<1>. HIDE DEF u
<1>4. /\ p' \in Widgets /\ SameAxis(u, p') /\ SameTools(u, p') /\ SameOrigin(u, p') /\ ~p'.full
      /\ p'.graphs = u.graphs /\ p'.bubbles = u.bubbles
  BY <1>2, <1>3 DEF Widgets, SameAxis, SameTools, SameOrigin
<1>5. Bubbles(p', e) = Bubbles(u, e) /\ Origin(p', e, p'.lastRef) = Origin(u, e, u.lastRef)
  BY <1>4, BubblesAreRead, OriginIsRead DEF SameMarkers
<1>6. SameAxis(p, p') /\ (SameOrigin(p, p') \/ p'.lastOffset = Origin(p', e, p'.lastRef))
  BY <1>2, <1>4, <1>5 DEF SameAxis, SameOrigin
<1>7. WrittenStands(p', e, wrote)
  BY <1>6, WrittenIsKept DEF Good, SameMarkers
<1>8. Drawn(p', e)
  BY <1>2, <1>4, <1>5 DEF Drawn, BubblesStand, OriginIsKnown, DragIsWhole, SameTools, SameOrigin, Good
<1>9. map' \in Maps /\ Followed(p', map', e)
  BY <1>1, <1>3, <1>4, RangeIsFollowed DEF Good
<1> QED
  BY <1>1, <1>3, <1>4, <1>7, <1>8, <1>9 DEF Good

LEMMA MarkersTimeoutIsGood ==
  ASSUME IsViewport, Good(p, map, e, wrote), MarkersTimeout
  PROVE  Good(p, map, e, wrote)'
<1>. DEFINE u == RangeChanged(p, e)
<1>1. p \in Widgets /\ map \in Maps /\ e \in Environments /\ wrote \in Writings
  BY DEF Good
<1>2. /\ u \in Widgets /\ SameAxis(p, u) /\ SameOrigin(p, u) /\ SameTools(p, u) /\ SameDues(p, u)
      /\ u.graphs = p.graphs /\ u.bubbles = Bubbles(u, e)
  BY <1>1, RangeChangedDoes
<1>3. p' = [u EXCEPT !.markersDue = FALSE] /\ map' = map /\ e' = e /\ wrote' = wrote
  BY DEF MarkersTimeout, RangeChanged
<1>. HIDE DEF u
<1>4. /\ p' \in Widgets /\ SameAxis(u, p') /\ SameTools(u, p') /\ SameOrigin(u, p')
      /\ p'.full = u.full /\ p'.rebuildDue = u.rebuildDue /\ p'.graphs = u.graphs /\ p'.bubbles = u.bubbles
  BY <1>2, <1>3 DEF Widgets, SameAxis, SameTools, SameOrigin
<1>5. SameAxis(p, p') /\ SameOrigin(p, p') /\ SameTools(p, p')
  BY <1>2, <1>4 DEF SameAxis, SameOrigin, SameTools
<1>6. Bubbles(p', e) = Bubbles(u, e) /\ Origin(p', e, p'.lastRef) = Origin(p, e, p.lastRef)
  BY <1>4, <1>5, BubblesAreRead, OriginIsRead DEF SameMarkers
<1>7. WrittenStands(p', e, wrote) /\ Followed(p', map, e)
  BY <1>5, WrittenIsKept, MapIsKept DEF Good, SameMarkers
<1>8. Drawn(p', e)
  BY <1>2, <1>4, <1>5, <1>6 DEF Drawn, BubblesStand, OriginIsKnown, DragIsWhole, SameTools, SameOrigin, SameDues, Good
<1> QED
  BY <1>1, <1>3, <1>4, <1>7, <1>8 DEF Good

\* A new range, of a plot in which nothing else changed.
LEMMA AxisToIsGood ==
  ASSUME IsViewport, Good(p, map, e, wrote), NEW lo \in Int, NEW hi \in Int, AxisTo(lo, hi)
  PROVE  Good(p, map, e, wrote)'
<1>. DEFINE q == [p EXCEPT !.lo = lo, !.hi = hi]
<1>1. p \in Widgets /\ map \in Maps /\ e \in Environments
  BY DEF Good
<1>2. /\ q \in Widgets /\ SameOrigin(p, q) /\ SameTools(p, q) /\ SameDues(p, q) /\ q.graphs = p.graphs
      /\ q.xVar = p.xVar /\ q.refKey = p.refKey
  BY <1>1 DEF Widgets, SameOrigin, SameTools, SameDues
<1>3. p' = RangeChanged(q, e) /\ map' = SetRange(map, Axis(p')) /\ e' = e /\ wrote' = Nothing
  BY DEF AxisTo
<1>. HIDE DEF q
<1>4. /\ p' \in Widgets /\ SameAxis(q, p') /\ SameOrigin(q, p') /\ SameTools(q, p') /\ SameDues(q, p')
      /\ p'.graphs = q.graphs /\ p'.bubbles = Bubbles(p', e)
  BY <1>1, <1>2, <1>3, RangeChangedDoes
<1>5. Origin(p', e, p'.lastRef) = Origin(p, e, p.lastRef)
  BY <1>2, <1>4, OffsetIsRead DEF SameAxis, SameOrigin
<1>6. Drawn(p', e)
  BY <1>2, <1>4, <1>5 DEF Drawn, BubblesStand, OriginIsKnown, DragIsWhole, SameTools, SameOrigin, SameDues, Good
<1>7. map' \in Maps /\ Followed(p', map', e)
  BY <1>1, <1>3, <1>4, RangeIsFollowed DEF Good
<1> QED
  BY <1>1, <1>3, <1>4, <1>6, <1>7, NothingIsWritten DEF Good

LEMMA PanIsGood ==
  ASSUME IsViewport, Good(p, map, e, wrote), NEW d \in Moves, Pan(d)
  PROVE  Good(p, map, e, wrote)'
<1>1. p.lo + d \in Int /\ p.hi + d \in Int
  BY DEF Good, Widgets, IsViewport
<1> QED
  BY <1>1, AxisToIsGood DEF Pan

LEMMA ExtentsAreFinite ==
  ASSUME IsViewport, p \in Widgets, e \in Environments, NEW mode, NEW s \in Sessions
  PROVE  ExtentOf(s, mode) \in SUBSET Int /\ IsFiniteSet(ExtentOf(s, mode))
<1>. DEFINE offset == Offset(p, e, s)
            mark == [key \in Keys |-> MarkerOffsetSeconds(e, s, key, p.xVar)]
            marks == { mark[key] : key \in Keys }
            first == Absolute(p.xVar, s, Span[s][1])
            last == Absolute(p.xVar, s, Span[s][2])
            span == {first, last} \ {NoTime}
            ends == IF mode = "markerRange" /\ NoTime \notin marks THEN marks ELSE span
            moved == [t \in ends |-> t - offset]
<1>1. p.xVar \in Clocks /\ Span[s][1] \in Clock /\ Span[s][2] \in Clock
  BY DEF Widgets, IsViewport, Clock
<1>2. DOMAIN mark = Keys /\ \A key \in Keys : mark[key] \in Clock
  BY <1>1, OffsetIsTyped DEF SomeKey
<1>3. { MarkerOffsetSeconds(e, s, key, p.xVar) : key \in Keys } = marks
  OBVIOUS
<1>4. first \in Clock /\ last \in Clock /\ offset \in Clock
  BY <1>1, ConversionsAreTyped, PlacesAreTyped
<1>5. ExtentOf(s, mode) = IF offset = NoTime THEN {} ELSE { t - offset : t \in ends }
  BY <1>3, Zenon DEF ExtentOf
<1>. HIDE DEF mark, first, last, offset
<1>6. marks \subseteq Clock /\ IsFiniteSet(marks)
  <2>1. IsFiniteSet(Keys)
    BY DEF IsViewport
  <2> QED
    BY <1>2, <2>1, ImageIsFinite
<1>7. span \subseteq Int /\ IsFiniteSet(span)
  <2>1. IsFiniteSet({first, last}) /\ span \in SUBSET {first, last}
    BY PairsAreFinite
  <2> QED
    BY <1>4, <2>1, FS_Subset DEF Clock
<1>. HIDE DEF marks, span
<1>8. ends \subseteq Int /\ IsFiniteSet(ends)
  BY <1>6, <1>7 DEF Clock
<1>. HIDE DEF ends
<1>9. DOMAIN moved = ends
  OBVIOUS
<1>10. { t - offset : t \in ends } = { moved[t] : t \in ends }
  OBVIOUS
<1>. HIDE DEF moved
<1>11. IsFiniteSet({ moved[t] : t \in ends })
  BY <1>8, <1>9, ImageIsFinite, Zenon
<1>12. CASE offset = NoTime
  BY <1>5, <1>12, FS_EmptySet
<1>13. CASE offset # NoTime
  <2>1. ExtentOf(s, mode) = { t - offset : t \in ends }
    BY <1>5, <1>13
  <2>2. { t - offset : t \in ends } \in SUBSET Int
    BY <1>4, <1>8, <1>13 DEF Clock
  <2> QED
    BY <1>10, <1>11, <2>1, <2>2, Zenon
<1> QED
  BY <1>12, <1>13

LEMMA ZoomToExtentIsGood ==
  ASSUME IsViewport, Good(p, map, e, wrote), NEW mode, ZoomToExtent(mode)
  PROVE  Good(p, map, e, wrote)'
<1>. DEFINE f == [s \in e.shown |-> ExtentOf(s, mode)]
            all == UNION { f[s] : s \in e.shown }
<1>1. p \in Widgets /\ e \in Environments /\ e.shown \in SUBSET Sessions
  BY DEF Good, Environments
<1>2. \A s \in e.shown : f[s] \in SUBSET Int /\ IsFiniteSet(f[s])
  BY <1>1, ExtentsAreFinite
<1>3. IsFiniteSet({ f[s] : s \in e.shown })
  <2>1. IsFiniteSet(e.shown)
    BY <1>1, SessionsAreFinite, FS_Subset
  <2> QED
    BY <2>1, ImageIsFinite
<1>4. all \in SUBSET Int /\ IsFiniteSet(all)
  BY <1>2, <1>3, FS_UNION
<1>5. all # {} /\ AxisTo(Min(all), Max(all))
  <2>1. all = UNION { ExtentOf(s, mode) : s \in e.shown }
    OBVIOUS
  <2> QED
    BY <2>1, Zenon DEF ZoomToExtent
<1>. HIDE DEF all
<1>6. Min(all) \in Int /\ Max(all) \in Int
  BY <1>4, <1>5, ExtremesAreThere
<1> QED
  BY <1>5, <1>6, AxisToIsGood

\* The plot is drawn anew, for another axis; a marker update may be asked for.
LEMMA RedrawnIsGood ==
  ASSUME IsViewport, Good(p, map, e, wrote), NEW q \in Widgets, SameTools(p, q), q.rebuildDue = p.rebuildDue,
         NEW u, u = UpdatePlot(q, e),
         p' \in Widgets, SameAxis(u, p'), SameOrigin(u, p'), SameTools(u, p'), p'.full = u.full,
         p'.rebuildDue = u.rebuildDue, p'.graphs = u.graphs, p'.markersDue \/ p'.bubbles = u.bubbles,
         map' = SetRange(map, Axis(p')), wrote' = Nothing, e' = e
  PROVE  Good(p, map, e, wrote)'
<1>1. p \in Widgets /\ map \in Maps /\ e \in Environments
  BY DEF Good
<1>2. /\ u \in Widgets /\ SameTools(q, u) /\ ~u.full
      /\ u.graphs \subseteq e.shown /\ u.bubbles = Bubbles(u, e)
      /\ u.lastRef \in e.shown => u.lastOffset = Origin(u, e, u.lastRef)
  BY <1>1, UpdatePlotDoes
<1>3. Bubbles(p', e) = Bubbles(u, e) /\ Origin(p', e, p'.lastRef) = Origin(u, e, u.lastRef)
  BY BubblesAreRead, OriginIsRead DEF SameMarkers
<1>4. Drawn(p', e)
  BY <1>2, <1>3 DEF Drawn, BubblesStand, OriginIsKnown, DragIsWhole, SameTools, SameOrigin, Good
<1>5. map' \in Maps /\ Followed(p', map', e)
  BY <1>1, RangeIsFollowed DEF Good
<1> QED
  BY <1>1, <1>4, <1>5, NothingIsWritten DEF Good

LEMMA SetXVariableIsGood ==
  ASSUME IsViewport, Good(p, map, e, wrote), NEW x \in Clocks, SetXVariable(x)
  PROVE  Good(p, map, e, wrote)'
<1>. DEFINE q == [p EXCEPT !.xVar = x]
<1>1. p \in Widgets /\ e \in Environments
  BY DEF Good
<1>2. q \in Widgets /\ SameTools(p, q) /\ q.rebuildDue = p.rebuildDue
  BY <1>1 DEF Widgets, SameTools
<1>3. p' = UpdatePlot(q, e) /\ map' = SetRange(map, Axis(p')) /\ wrote' = Nothing /\ e' = e
  BY DEF SetXVariable
<1>. HIDE DEF q
<1>4. p' \in Widgets
  BY <1>1, <1>2, <1>3, UpdatePlotDoes
<1> QED
  BY <1>2, <1>3, <1>4, RedrawnIsGood DEF SameAxis, SameOrigin, SameTools

LEMMA SetReferenceMarkerKeyIsGood ==
  ASSUME IsViewport, Good(p, map, e, wrote), NEW key \in SomeKey, SetReferenceMarkerKey(key)
  PROVE  Good(p, map, e, wrote)'
<1>. DEFINE Old(s) == MarkerOffsetSeconds(e, s, p.refKey, p.xVar)
            New(s) == MarkerOffsetSeconds(e, s, key, p.xVar)
            both == { t \in e.shown : Old(t) # NoTime /\ New(t) # NoTime }
            delta == [s \in both |-> New(s) - Old(s)]
            deltas == { delta[s] : s \in both }
            moved == IF deltas = {} THEN p ELSE [p EXCEPT !.lo = @ - Max(deltas), !.hi = @ - Min(deltas)]
            q == [moved EXCEPT !.refKey = key]
            u == UpdatePlot(q, e)
<1>1. p \in Widgets /\ e \in Environments
  BY DEF Good
<1>2. /\ p' = ScheduleMarkerUpdate(u) /\ map' = SetRange(map, Axis(p')) /\ wrote' = Nothing /\ e' = e
  <2>1. deltas = { New(s) - Old(s) : s \in both }
    OBVIOUS
  <2> QED
    BY <2>1, Zenon DEF SetReferenceMarkerKey
<1>3. p.xVar \in Clocks /\ p.refKey \in SomeKey /\ p.lo \in Int /\ p.hi \in Int /\ e.shown \in SUBSET Sessions
  BY <1>1 DEF Widgets, Environments
<1>4. \A s \in Sessions : Old(s) \in Clock /\ New(s) \in Clock
  BY <1>1, <1>3, OffsetIsTyped
<1>. HIDE DEF Old, New
<1>5. both \in SUBSET Sessions /\ \A s \in both : delta[s] \in Int
  BY <1>3, <1>4 DEF Clock
<1>6. deltas \in SUBSET Int /\ IsFiniteSet(deltas)
  <2>1. IsFiniteSet(both)
    BY <1>5, SessionsAreFinite, FS_Subset
  <2> QED
    BY <1>5, <2>1, ImageIsFinite
<1>. HIDE DEF deltas
<1>7. deltas # {} => Min(deltas) \in Int /\ Max(deltas) \in Int
  BY <1>6, ExtremesAreThere
<1>8. moved \in Widgets /\ SameTools(p, moved) /\ moved.rebuildDue = p.rebuildDue
  <2>1. CASE deltas = {}
    BY <1>1, <2>1 DEF SameTools
  <2>2. CASE deltas # {}
    <3>1. p.lo - Max(deltas) \in Int /\ p.hi - Min(deltas) \in Int
      BY <1>3, <1>7, <2>2
    <3> QED
      BY <1>1, <2>2, <3>1 DEF Widgets, SameTools
  <2> QED
    BY <2>1, <2>2
<1>. HIDE DEF moved
<1>9. q \in Widgets /\ SameTools(p, q) /\ q.rebuildDue = p.rebuildDue
  BY <1>8 DEF Widgets, SameTools
<1>. HIDE DEF q
<1>10. u \in Widgets /\ ~u.full
  BY <1>1, <1>9, UpdatePlotDoes
<1>. HIDE DEF u
<1>11. /\ p' \in Widgets /\ SameAxis(u, p') /\ SameOrigin(u, p') /\ SameTools(u, p')
       /\ p'.graphs = u.graphs /\ p'.full = u.full /\ p'.rebuildDue = u.rebuildDue /\ p'.markersDue
  BY <1>2, <1>10, MarkerUpdateIsScheduled
<1> QED
  BY <1>2, <1>9, <1>11, RedrawnIsGood DEF u

\* A bubble is held, a menu opened, a tool chosen: the plot is as it was.
LEMMA ToolsMayChange ==
  ASSUME IsViewport, Good(p, map, e, wrote), p' \in Widgets, SameAxis(p, p'), SameOrigin(p, p'), SameDues(p, p'),
         p'.graphs = p.graphs, p'.bubbles = p.bubbles, DragIsWhole(p'),
         map' = map, e' = e, wrote' = Nothing
  PROVE  Good(p, map, e, wrote)'
<1>1. Bubbles(p', e) = Bubbles(p, e) /\ Origin(p', e, p'.lastRef) = Origin(p, e, p.lastRef)
  BY BubblesAreRead, OriginIsRead DEF SameMarkers
<1>2. Drawn(p', e)
  BY <1>1 DEF Drawn, BubblesStand, OriginIsKnown, SameOrigin, SameDues, Good
<1>3. Followed(p', map, e)
  BY MapIsKept DEF SameMarkers, Good
<1> QED
  BY <1>2, <1>3, NothingIsWritten DEF Good

LEMMA HandleBubblePressIsGood ==
  ASSUME IsViewport, Good(p, map, e, wrote), NEW s \in Sessions, NEW key \in Keys, NEW place \in Places,
         HandleBubblePress(s, key, place)
  PROVE  Good(p, map, e, wrote)'
<1>. DEFINE grab == place - p.bubbles[key].at[s]
<1>1. grab \in Int
  BY DEF HandleBubblePress
<1>2. p' = [p EXCEPT !.drag = s, !.dragKey = key, !.grab = grab] /\ map' = map /\ e' = e /\ wrote' = Nothing
  BY DEF HandleBubblePress
<1>. HIDE DEF grab
<1>3. /\ p' \in Widgets /\ SameAxis(p, p') /\ SameOrigin(p, p') /\ SameDues(p, p')
      /\ p'.graphs = p.graphs /\ p'.bubbles = p.bubbles /\ p'.dragKey = key
  BY <1>1, <1>2 DEF Widgets, SameAxis, SameOrigin, SameDues, Someone, SomeKey, Good
<1> QED
  BY <1>2, <1>3, ToolsMayChange DEF DragIsWhole

LEMMA ShowBubbleContextMenuIsGood ==
  ASSUME IsViewport, Good(p, map, e, wrote), NEW s \in Sessions, NEW key \in Keys, ShowBubbleContextMenu(s, key)
  PROVE  Good(p, map, e, wrote)'
<1>1. p' = [p EXCEPT !.menu = <<s, key>>] /\ map' = map /\ e' = e /\ wrote' = Nothing
  BY DEF ShowBubbleContextMenu
<1>2. p \in Widgets /\ <<s, key>> \in Pairs
  BY DEF Good, Pairs
<1>3. /\ p' \in Widgets /\ SameAxis(p, p') /\ SameOrigin(p, p') /\ SameDues(p, p')
      /\ p'.graphs = p.graphs /\ p'.bubbles = p.bubbles /\ p'.dragKey = p.dragKey /\ p'.drag = p.drag
  BY <1>1, <1>2 DEF Widgets, SameAxis, SameOrigin, SameDues
<1> QED
  BY <1>1, <1>3, ToolsMayChange DEF DragIsWhole, Good, Drawn

LEMMA SetCurrentToolIsGood ==
  ASSUME IsViewport, Good(p, map, e, wrote), NEW key \in SomeKey, SetCurrentTool(key)
  PROVE  Good(p, map, e, wrote)'
<1>1. p' = [p EXCEPT !.tool = key] /\ map' = map /\ e' = e /\ wrote' = Nothing /\ p \in Widgets
  BY DEF SetCurrentTool, Good
<1>2. /\ p' \in Widgets /\ SameAxis(p, p') /\ SameOrigin(p, p') /\ SameDues(p, p')
      /\ p'.graphs = p.graphs /\ p'.bubbles = p.bubbles /\ p'.dragKey = p.dragKey /\ p'.drag = p.drag
  BY <1>1 DEF Widgets, SameAxis, SameOrigin, SameDues
<1> QED
  BY <1>1, <1>2, ToolsMayChange DEF DragIsWhole, Good, Drawn

\* What sets markers starts from the plot with other tools in hand.
Handed(q) ==
  /\ q \in Widgets /\ SameAxis(p, q) /\ SameOrigin(p, q) /\ SameDues(p, q)
  /\ q.graphs = p.graphs /\ q.bubbles = p.bubbles /\ DragIsWhole(q)

LEMMA SettingIsGood ==
  ASSUME IsViewport, Good(p, map, e, wrote), NEW q, Handed(q), NEW key \in Keys,
         NEW times, DOMAIN times \subseteq Sessions, \A s \in DOMAIN times : times[s] \in Clock,
         NEW r, r = Store([p |-> q, map |-> map, e |-> e], key, times)
  PROVE  r.p \in Widgets /\ r.map \in Maps /\ r.e \in Environments /\ Drawn(r.p, r.e) /\ Followed(r.p, r.map, r.e)
<1>1. map \in Maps /\ e \in Environments
  BY DEF Good
<1>2. Bubbles(q, e) = Bubbles(p, e) /\ Origin(q, e, q.lastRef) = Origin(p, e, p.lastRef)
  BY BubblesAreRead, OriginIsRead DEF SameMarkers, Handed
<1>3. BubblesStand(q, e) /\ OriginIsKnown(q, e)
  BY <1>2 DEF Drawn, BubblesStand, OriginIsKnown, SameOrigin, SameDues, Good, Handed
<1>4. Followed(q, map, e)
  BY MapIsKept DEF SameMarkers, Good, Handed
<1>5. /\ r.p \in Widgets /\ r.map \in Maps /\ r.e \in Environments
      /\ BubblesStand(r.p, r.e) /\ OriginIsKnown(r.p, r.e) /\ SameTools(q, r.p)
      /\ Followed(r.p, r.map, r.e)
  BY <1>1, <1>3, <1>4, StoreIsGood DEF Handed
<1> QED
  BY <1>5 DEF Drawn, DragIsWhole, SameTools, Handed

\* A tool sets the marker of a session to the time under the pointer.
LEMMA WritingIsGood ==
  ASSUME IsViewport, Good(p, map, e, wrote), NEW q, Handed(q), NEW key \in Keys,
         NEW S \in SUBSET Sessions, NEW s \in S, NEW place \in Int, NEW x, x = p.lo + place,
         NEW times, times = [a \in S |-> XCoordToUtcSeconds(p, e, a, x)],
         Becomes(Store([p |-> q, map |-> map, e |-> e], key, times)), wrote' = Written(s, key, place, x)
  PROVE  Good(p, map, e, wrote)'
<1>. DEFINE r == Store([p |-> q, map |-> map, e |-> e], key, times)
            offset == Offset(p, e, s)
            meant == UtcAt(p, e, s, x)
            follows == /\ p.xVar = "utc" /\ meant # NoTime
                       /\ key = p.refKey => p.lastRef = s /\ ReferenceSession(e) = s /\ IsPlaced(s, key)
<1>1. p \in Widgets /\ map \in Maps /\ e \in Environments /\ x \in Int /\ p.lo \in Int /\ s \in Sessions
  BY DEF Good, Widgets
<1>2. DOMAIN times = S /\ \A a \in S : times[a] \in Int
  BY <1>1, PlacesAreTyped
<1>3. meant \in Clock /\ offset \in Clock
  BY <1>1, PlacesAreTyped
<1>4. p' = r.p /\ map' = r.map /\ e' = r.e
  BY DEF Becomes
<1>5. /\ r.p \in Widgets /\ r.map \in Maps /\ r.e \in Environments /\ Drawn(r.p, r.e)
      /\ Followed(r.p, r.map, r.e)
  <2>1. \A a \in DOMAIN times : times[a] \in Clock
    BY <1>2 DEF Clock
  <2> QED
    BY <1>2, <2>1, SettingIsGood
<1>6. wrote' = [session |-> s, key |-> key, place |-> place, time |-> times[s], meant |-> meant, follows |-> follows]
  BY DEF Written
<1>7. follows \in BOOLEAN
  OBVIOUS
<1>8. follows => offset # NoTime /\ times[s] = q.lo + place + Offset(q, e, s) /\ Offset(q, e, s) = offset /\ q.xVar = "utc"
  <2>. SUFFICES ASSUME follows PROVE offset # NoTime /\ times[s] = q.lo + place + Offset(q, e, s)
                                      /\ Offset(q, e, s) = offset /\ q.xVar = "utc"
    OBVIOUS
  <2>1. offset # NoTime
    BY DEF UtcAt, Shift
  <2>2. times[s] = x + offset
    BY <1>2, <2>1 DEF XCoordToUtcSeconds
  <2>3. q.lo = p.lo /\ q.xVar = p.xVar /\ q.refKey = p.refKey
    BY DEF Handed, SameAxis
  <2>4. Offset(q, e, s) = offset
    BY <2>3, OffsetIsRead
  <2> QED
    BY <2>1, <2>2, <2>3, <2>4
<1>9. follows /\ key = q.refKey => q.lastRef = s /\ ReferenceSession(e) = s /\ q.lastOffset = Origin(q, e, s)
  <2>. SUFFICES ASSUME follows, key = q.refKey
                PROVE  q.lastRef = s /\ ReferenceSession(e) = s /\ q.lastOffset = Origin(q, e, s)
    OBVIOUS
  <2>1. p.refKey = key /\ q.lastRef = p.lastRef /\ q.lastOffset = p.lastOffset /\ p.xVar = q.xVar
    BY DEF Handed, SameAxis, SameOrigin
  <2>2. p.lastRef = s /\ ReferenceSession(e) = s /\ IsPlaced(s, key)
    BY <2>1
  <2>3. p.lastOffset = Origin(p, e, s)
    BY <2>1, <2>2 DEF IsPlaced, Good, Drawn, OriginIsKnown, WrittenStands
  <2>4. Origin(q, e, s) = Origin(p, e, s)
    BY <2>1, OffsetIsRead
  <2> QED
    BY <2>1, <2>2, <2>3, <2>4
<1>. HIDE DEF r, follows, meant, offset
<1>10. ASSUME follows
       PROVE  /\ r.p.xVar = "utc" /\ r.p.refKey = q.refKey
              /\ PlotAxisXFromUtc(r.p, r.e, s, Attribute(r.e, s, key)) = r.p.lo + place
              /\ key = q.refKey => r.p.lastOffset = Origin(r.p, r.e, s)
  BY <1>1, <1>2, <1>8, <1>9, <1>10, MarkerIsMoved DEF r, Handed
<1>11. WrittenStands(r.p, r.e, wrote')
  BY <1>6, <1>10 DEF WrittenStands
<1>12. wrote' \in Writings
  BY <1>1, <1>2, <1>3, <1>6, <1>7 DEF Writings
<1> QED
  BY <1>4, <1>5, <1>11, <1>12 DEF Good

LEMMA DraggingIsGood ==
  ASSUME IsViewport, Good(p, map, e, wrote), NEW q, Handed(q), NEW place \in Places,
         Drag(place, [p |-> q, map |-> map, e |-> e])
  PROVE  Good(p, map, e, wrote)'
<1>1. p.drag \in Sessions /\ p.dragKey \in Keys /\ p.grab \in Int /\ p.lo \in Int /\ place \in Int
  BY DEF Drag, Good, Drawn, DragIsWhole, Widgets, Someone, IsViewport
<1>2. place - p.grab \in Int /\ X(place) - p.grab = p.lo + (place - p.grab)
  BY <1>1 DEF X
<1>3. {p.drag} \in SUBSET Sessions /\ p.drag \in {p.drag}
  BY <1>1
<1> QED
  BY <1>1, <1>2, <1>3, WritingIsGood DEF Drag

LEMMA HandleBubbleDragIsGood ==
  ASSUME IsViewport, Good(p, map, e, wrote), NEW place \in Places, HandleBubbleDrag(place)
  PROVE  Good(p, map, e, wrote)'
<1>1. Handed(p)
  BY DEF Handed, SameAxis, SameOrigin, SameDues, Good, Drawn
<1> QED
  BY <1>1, DraggingIsGood DEF HandleBubbleDrag, State

LEMMA HandleBubbleReleaseIsGood ==
  ASSUME IsViewport, Good(p, map, e, wrote), NEW place \in Places, HandleBubbleRelease(place)
  PROVE  Good(p, map, e, wrote)'
<1>. DEFINE q == [p EXCEPT !.drag = None, !.dragKey = None, !.grab = 0]
<1>1. p \in Widgets
  BY DEF Good
<1>2. None \in Someone /\ None \in SomeKey
  BY DEF Someone, SomeKey
<1>3. q \in Widgets
  <2>. DEFINE q1 == [p EXCEPT !.drag = None]
              q2 == [q1 EXCEPT !.dragKey = None]
  <2>1. q1 \in Widgets
    BY <1>1, <1>2 DEF Widgets
  <2>. HIDE DEF q1
  <2>2. q2 \in Widgets
    BY <2>1, <1>2 DEF Widgets
  <2>. HIDE DEF q2
  <2>3. [q2 EXCEPT !.grab = 0] \in Widgets
    BY <2>2 DEF Widgets
  <2>4. q = [q2 EXCEPT !.grab = 0]
    BY <1>1 DEF q1, q2, Widgets
  <2> QED
    BY <2>3, <2>4
<1>4. /\ q.drag = None /\ q.xVar = p.xVar /\ q.refKey = p.refKey /\ q.lo = p.lo /\ q.hi = p.hi
      /\ q.lastRef = p.lastRef /\ q.lastOffset = p.lastOffset /\ q.graphs = p.graphs /\ q.bubbles = p.bubbles
      /\ q.full = p.full /\ q.rebuildDue = p.rebuildDue /\ q.markersDue = p.markersDue
  BY <1>1 DEF Widgets
<1>5. Handed(q)
  BY <1>3, <1>4 DEF Handed, SameAxis, SameOrigin, SameDues, DragIsWhole
<1>6. [State EXCEPT !.p.drag = None, !.p.dragKey = None, !.p.grab = 0] = [State EXCEPT !.p = q]
  BY <1>1 DEF State, Widgets
<1>7. [State EXCEPT !.p = q] = [p |-> q, map |-> map, e |-> e]
  BY DEF State
<1> QED
  BY <1>5, <1>6, <1>7, DraggingIsGood DEF HandleBubbleRelease

\* A step that sets markers without a pointer.
LEMMA SilentIsGood ==
  ASSUME IsViewport, Good(p, map, e, wrote), NEW q, Handed(q), NEW key \in Keys, NEW S \in SUBSET Sessions,
         NEW times, times \in [S -> Clock],
         Becomes(Store([p |-> q, map |-> map, e |-> e], key, times)), wrote' = Nothing
  PROVE  Good(p, map, e, wrote)'
<1>. DEFINE r == Store([p |-> q, map |-> map, e |-> e], key, times)
<1>1. r.p \in Widgets /\ r.map \in Maps /\ r.e \in Environments /\ Drawn(r.p, r.e) /\ Followed(r.p, r.map, r.e)
  BY SettingIsGood
<1>2. p' = r.p /\ map' = r.map /\ e' = r.e
  BY DEF Becomes
<1> QED
  BY <1>1, <1>2, NothingIsWritten DEF Good

LEMMA ResetToDefaultIsGood ==
  ASSUME IsViewport, Good(p, map, e, wrote), ResetToDefault
  PROVE  Good(p, map, e, wrote)'
<1>. DEFINE q == [p EXCEPT !.menu = <<>>]
            s == p.menu[1]
            times == [a \in {s} |-> NoTime]
<1>1. Handed(q)
  BY DEF Handed, SameAxis, SameOrigin, SameDues, Good, Drawn, Widgets, DragIsWhole
<1>2. [State EXCEPT !.p.menu = <<>>] = [p |-> q, map |-> map, e |-> e]
  BY DEF State
<1>3. s \in Sessions /\ p.menu[2] \in Keys
  BY DEF ResetToDefault, Good, Widgets, Pairs
<1>4. Becomes(Store([p |-> q, map |-> map, e |-> e], p.menu[2], times)) /\ wrote' = Nothing
  BY <1>2 DEF ResetToDefault
<1>5. times \in [{s} -> Clock] /\ {s} \in SUBSET Sessions
  BY <1>3 DEF Clock
<1> QED
  BY <1>1, <1>3, <1>4, <1>5, SilentIsGood

LEMMA EditIsGood ==
  ASSUME IsViewport, Good(p, map, e, wrote), NEW s \in Sessions, NEW key \in Keys, NEW t \in Times, Edit(s, key, t)
  PROVE  Good(p, map, e, wrote)'
<1>. DEFINE times == [a \in {s} |-> t]
<1>1. Handed(p)
  BY DEF Handed, SameAxis, SameOrigin, SameDues, Good, Drawn
<1>2. times \in [{s} -> Clock] /\ {s} \in SUBSET Sessions
  BY DEF Clock, IsViewport
<1>3. Becomes(Store([p |-> p, map |-> map, e |-> e], key, times)) /\ wrote' = Nothing
  BY DEF Edit, State
<1> QED
  BY <1>1, <1>2, <1>3, SilentIsGood

LEMMA ToolPressIsGood ==
  ASSUME IsViewport, Good(p, map, e, wrote), NEW traced \in SUBSET p.graphs, NEW place \in Places, ToolPress(traced, place)
  PROVE  Good(p, map, e, wrote)'
<1>. DEFINE q == [p EXCEPT !.tool = None]
            times == [a \in traced |-> XCoordToUtcSeconds(p, e, a, X(place))]
<1>1. Handed(q)
  BY DEF Handed, SameAxis, SameOrigin, SameDues, Good, Drawn, Widgets, DragIsWhole, SomeKey
<1>2. [State EXCEPT !.p.tool = None] = [p |-> q, map |-> map, e |-> e]
  BY DEF State
<1>3. /\ p \in Widgets /\ e \in Environments /\ traced \in SUBSET Sessions /\ p.tool \in Keys
      /\ place \in Int /\ p.lo \in Int
  BY DEF ToolPress, Good, Widgets, SomeKey, IsViewport
<1>4. X(place) = p.lo + place /\ X(place) \in Int
  BY <1>3 DEF X
<1>5. Becomes(Store([p |-> q, map |-> map, e |-> e], p.tool, times))
  BY <1>2 DEF ToolPress
<1>6. CASE Cardinality(traced) = 1
  <2>1. IsFiniteSet(traced)
    BY <1>3, SessionsAreFinite, FS_Subset
  <2>2. traced # {}
    BY <1>6, FS_EmptySet
  <2>. DEFINE s == CHOOSE s \in traced : TRUE
  <2>3. s \in traced
    BY <2>2
  <2>4. wrote' = Written(s, p.tool, place, X(place))
    BY <1>6 DEF ToolPress
  <2>. HIDE DEF s
  <2> QED
    BY <1>1, <1>3, <1>4, <1>5, <2>3, <2>4, WritingIsGood
<1>7. CASE Cardinality(traced) # 1
  <2>1. wrote' = Nothing
    BY <1>7 DEF ToolPress
  <2>2. times \in [traced -> Clock]
    BY <1>3, <1>4, PlacesAreTyped DEF Clock
  <2> QED
    BY <1>1, <1>3, <1>5, <2>1, <2>2, SilentIsGood
<1> QED
  BY <1>6, <1>7

LEMMA ShowSessionsIsGood ==
  ASSUME IsViewport, Good(p, map, e, wrote), NEW shown \in SUBSET Sessions, ShowSessions(shown)
  PROVE  Good(p, map, e, wrote)'
<1>1. /\ e' = [e EXCEPT !.shown = shown] /\ p' = SchedulePlotRebuild(p) /\ wrote' = Nothing
      /\ map' = [map EXCEPT !.tracksDue = TRUE, !.dotsDue = TRUE]
      /\ p \in Widgets /\ map \in Maps /\ e \in Environments
  BY DEF ShowSessions, Good
<1>2. /\ p' \in Widgets /\ SameAxis(p, p') /\ SameOrigin(p, p') /\ SameTools(p, p') /\ p'.rebuildDue
  BY <1>1, RebuildIsScheduled
<1>3. e' \in Environments
  BY <1>1 DEF Environments
<1>4. map' \in Maps /\ map'.range = map.range /\ map'.tracksDue /\ map'.dotsDue
  BY <1>1 DEF Maps
<1>5. Drawn(p', e')
  BY <1>2 DEF Drawn, BubblesStand, OriginIsKnown, DragIsWhole, SameTools, Good
<1>6. Followed(p', map', e')
  BY <1>2, <1>4, AxisIsRead DEF Followed, Good
<1> QED
  BY <1>1, <1>2, <1>3, <1>4, <1>5, <1>6, NothingIsWritten DEF Good

LEMMA HoverIsGood ==
  ASSUME IsViewport, Good(p, map, e, wrote), NEW s \in Someone, Hover(s)
  PROVE  Good(p, map, e, wrote)'
<1>1. e' = [e EXCEPT !.hovered = s] /\ p' = p /\ map' = map /\ wrote' = wrote /\ e \in Environments
  BY DEF Hover, Good
<1>2. e' \in Environments /\ SameMarkers(e, e')
  BY <1>1 DEF Environments, SameMarkers
<1>3. SameAxis(p, p) /\ SameOrigin(p, p)
  BY DEF SameAxis, SameOrigin
<1>4. Bubbles(p, e') = Bubbles(p, e) /\ Origin(p, e', p.lastRef) = Origin(p, e, p.lastRef)
  BY <1>2, <1>3, BubblesAreRead, OffsetIsRead DEF SameMarkers
<1>5. Drawn(p, e')
  BY <1>2, <1>4 DEF Drawn, BubblesStand, OriginIsKnown, SameMarkers, Good
<1>6. Followed(p, map, e') /\ WrittenStands(p, e', wrote)
  BY <1>2, <1>3, MapIsKept, WrittenIsKept DEF Good
<1> QED
  BY <1>1, <1>2, <1>5, <1>6 DEF Good

------------------------------------------------------------------------------
(* The theorems                                                              *)

LEMMA InitIsGood ==
  ASSUME IsViewport, Init
  PROVE  Good(p, map, e, wrote)
<1>1. PICK key \in Keys :
       p = [xVar |-> "utc", refKey |-> key, lo |-> 0, hi |-> 5, lastRef |-> None, lastOffset |-> 0, graphs |-> {},
            bubbles |-> [k \in Keys |-> [at |-> <<>>, merged |-> {}]], full |-> TRUE, rebuildDue |-> TRUE,
            markersDue |-> FALSE, drag |-> None, dragKey |-> None, grab |-> 0, menu |-> <<>>, tool |-> None]
  BY DEF Init
<1>2. /\ wrote = Nothing
      /\ e = [shown |-> Sessions, hovered |-> None, stored |-> [s \in Sessions |-> [k \in Keys |-> NoTime]]]
      /\ map = [range |-> Axis(p), tracksDue |-> TRUE, dotsDue |-> TRUE, tracks |-> <<>>, dots |-> {}, unheard |-> {}]
  BY DEF Init
<1>3. e \in Environments
  BY <1>2 DEF Environments, Someone, Clock
<1>4. \A T : <<>> \in [{} -> T]
  OBVIOUS
<1>5. [k \in Keys |-> [at |-> <<>>, merged |-> {}]] \in [Keys -> Lanes]
  <2>1. <<>> \in UNION { [S -> Int] : S \in SUBSET Sessions }
    BY <1>4
  <2> QED
    BY <2>1 DEF Lanes
<1>6. p \in Widgets
  BY <1>1, <1>5 DEF Widgets, Clocks, Someone, SomeKey
<1>7. <<>> \in Cuts
  BY <1>4 DEF Cuts
<1>8. map \in Maps
  BY <1>2, <1>6, <1>7, AxisIsTyped DEF Maps
<1>9. Drawn(p, e)
  BY <1>1 DEF Drawn, BubblesStand, OriginIsKnown, DragIsWhole
<1>10. Followed(p, map, e)
  BY <1>2 DEF Followed
<1> QED
  BY <1>2, <1>3, <1>6, <1>8, <1>9, <1>10, NothingIsWritten DEF Good

LEMMA UserIsGood ==
  ASSUME IsViewport, Good(p, map, e, wrote), User
  PROVE  Good(p, map, e, wrote)'
<1>1. CASE \E d \in Moves : Pan(d)
  BY <1>1, PanIsGood
<1>2. CASE \E mode \in {"full", "markerRange"} : ZoomToExtent(mode)
  BY <1>2, ZoomToExtentIsGood
<1>3. CASE \E x \in {"utc", "system"} : SetXVariable(x)
  BY <1>3, SetXVariableIsGood DEF Clocks
<1>4. CASE \E key \in Keys \cup {None} : SetReferenceMarkerKey(key)
  BY <1>4, SetReferenceMarkerKeyIsGood DEF SomeKey
<1>5. CASE \E s \in Sessions, key \in Keys, place \in Places : HandleBubblePress(s, key, place)
  BY <1>5, HandleBubblePressIsGood
<1>6. CASE \E place \in Places : HandleBubbleDrag(place)
  BY <1>6, HandleBubbleDragIsGood
<1>7. CASE \E place \in Places : HandleBubbleRelease(place)
  BY <1>7, HandleBubbleReleaseIsGood
<1>8. CASE \E key \in Keys : HandleBubbleDoubleClick(key)
  BY <1>8, SetReferenceMarkerKeyIsGood DEF HandleBubbleDoubleClick, SomeKey
<1>9. CASE \E s \in Sessions, key \in Keys : ShowBubbleContextMenu(s, key)
  BY <1>9, ShowBubbleContextMenuIsGood
<1>10. CASE ResetToDefault
  BY <1>10, ResetToDefaultIsGood
<1>11. CASE \E key \in Keys \cup {None} : SetCurrentTool(key)
  BY <1>11, SetCurrentToolIsGood DEF SomeKey
<1>12. CASE \E traced \in SUBSET p.graphs, place \in Places : ToolPress(traced, place)
  BY <1>12, ToolPressIsGood
<1>13. CASE \E s \in Sessions, key \in Keys, t \in Times : Edit(s, key, t)
  BY <1>13, EditIsGood
<1>14. CASE \E shown \in SUBSET Sessions : ShowSessions(shown)
  BY <1>14, ShowSessionsIsGood
<1>15. CASE \E s \in Sessions \cup {None} : Hover(s)
  BY <1>15, HoverIsGood DEF Someone
<1> QED
  BY <1>1, <1>2, <1>3, <1>4, <1>5, <1>6, <1>7, <1>8, <1>9, <1>10, <1>11, <1>12, <1>13, <1>14, <1>15 DEF User

\* The inductive invariant: what the bubbles, the map, the offset that the plot
\* remembers and the last marker that was moved have to do with each other,
\* through redraws that are due and edits from elsewhere.
THEOREM ViewportInvariant == IsViewport => (Spec => []IInv)
<1>. SUFFICES ASSUME IsViewport PROVE Spec => []IInv
  OBVIOUS
<1>1. Good(p, map, e, wrote) <=> IInv
  BY DEF Good, IInv, TypeOK
<1>2. Init => IInv
  BY <1>1, InitIsGood
<1>3. IInv /\ [Next]_vars => IInv'
  <2>. SUFFICES ASSUME Good(p, map, e, wrote), [Next]_vars PROVE Good(p, map, e, wrote)'
    BY <1>1 DEF Good, IInv, TypeOK
  <2>1. CASE TracksTimeout
    BY <2>1, TracksTimeoutIsGood
  <2>2. CASE DotsTimeout
    BY <2>2, DotsTimeoutIsGood
  <2>3. CASE RebuildTimeout
    BY <2>3, RebuildTimeoutIsGood
  <2>4. CASE MarkersTimeout
    BY <2>4, MarkersTimeoutIsGood
  <2>5. CASE User
    BY <2>5, UserIsGood
  <2>6. CASE UNCHANGED vars
    BY <2>6 DEF vars
  <2> QED
    BY <2>1, <2>2, <2>3, <2>4, <2>5, <2>6 DEF Next, Timers
<1> QED
  BY <1>2, <1>3, PTL DEF Spec

\* At rest every marker in the range has its bubble where it is
\* (PlotWidget::updateReferenceMarkers), whatever updates were dropped while a
\* redraw was due.
THEOREM BubblesAreAlwaysTrue == IsViewport => (Spec => []BubblesAreTrue)
<1>. SUFFICES ASSUME IsViewport PROVE Spec => []BubblesAreTrue
  OBVIOUS
<1>1. IInv => BubblesAreTrue
  BY DEF IInv, Drawn, BubblesStand, BubblesAreTrue, AtRest
<1> QED
  BY <1>1, ViewportInvariant, PTL

\* The map shows the range of the plot, and cuts tracks and dots to it
\* (TrackMapModel::rebuild, MapCursorDotModel::rebuild).
THEOREM MapAlwaysFollows == IsViewport => (Spec => []MapFollows)
<1>. SUFFICES ASSUME IsViewport PROVE Spec => []MapFollows
  OBVIOUS
<1>1. IInv => MapFollows
  BY DEF IInv, Followed, MapFollows
<1> QED
  BY <1>1, ViewportInvariant, PTL

\* A marker that is dragged or set by a click is under the pointer, and stays
\* there through the redraws that follow (PlotWidget::onDependencyChanged).
THEOREM MarkerIsAlwaysAtPointer == IsViewport => (Spec => []MarkerIsAtPointer)
<1>. SUFFICES ASSUME IsViewport PROVE Spec => []MarkerIsAtPointer
  OBVIOUS
<1>1. IInv => MarkerIsAtPointer
  BY DEF IInv, WrittenStands, MarkerIsAtPointer, X
<1> QED
  BY <1>1, ViewportInvariant, PTL

=============================================================================
