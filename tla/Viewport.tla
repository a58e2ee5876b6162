------------------------------ MODULE Viewport ------------------------------
(* The time axis of the plot and the marker bubbles on it: every session is  *)
(* drawn relative to a reference marker of its own, the axis is UTC or the   *)
(* clock of the device, and a bubble that is dragged, or a tool that is      *)
(* pressed, turns a place on the axis back into a moment of a session. The   *)
(* range is passed on to the map, which cuts the tracks and the dots of the  *)
(* markers to it. The place of the pointer is its distance from the lower    *)
(* end of the axis, in seconds.                                              *)
EXTENDS SequencesExt, FiniteSetsExt, Integers

CONSTANTS
  Rows,               \* the sessions in the order of their rows
  Keys,               \* the marker attributes, all of them enabled and editable
  Computed,           \* for each session and key, the time calculated, or NoTime
  Skew,               \* for each session, device time less UTC, or NoTime: no fit
  OwnClocks,          \* the clocks, "utc" and "system", that a sensor of the plots keeps itself
  Span,               \* for each session, the first and the last moment of its track
  ClusterDistance,    \* bubbles no further apart are merged into one
  NoTime,
  Times,              \* the times a marker is set to by an edit
  Places,             \* the places of the pointer
  Moves,              \* how far the range is panned
  MaxSteps            \* bound: the steps of the user

VARIABLES
  p,                  \* PlotWidget with PlotViewSettingsModel
  map,                \* PlotRangeModel, TrackMapModel and MapCursorDotModel
  e,                  \* the sessions that are shown, their stored markers, the hovered one
  wrote,              \* the last time a tool wrote, and the one that was meant
  steps               \* how many steps the user took

vars == <<p, map, e, wrote, steps>>

Sessions == ToSet(Rows)
None == ""

\* What the proofs take of the constants.
IsViewport ==
  /\ Rows \in Seq(Sessions) /\ None \notin Sessions
  /\ IsFiniteSet(Keys) /\ None \notin Keys
  /\ NoTime \notin Int /\ Times \cup Places \cup Moves \subseteq Int
  /\ Computed \in [Sessions -> [Keys -> Int \cup {NoTime}]]
  /\ Skew \in [Sessions -> Int \cup {NoTime}] /\ Span \in [Sessions -> Int \X Int]

Nothing == [session |-> None]

-----------------------------------------------------------------------------
(* Times                                                                     *)

\* A stored time takes the place of the one that is calculated.
Attribute(env, s, key) == IF env.stored[s][key] # NoTime THEN env.stored[s][key] ELSE Computed[s][key]

Shift(t, d) == IF t = NoTime \/ d = NoTime THEN NoTime ELSE t + d
UtcToSystemTime(s, t) == Shift(t, Skew[s])
SystemTimeToUtc(s, t) == IF Skew[s] = NoTime THEN NoTime ELSE Shift(t, -Skew[s])

Absolute(xVar, s, t) == IF xVar = "system" THEN UtcToSystemTime(s, t) ELSE t

MarkerOffsetSeconds(env, s, refKey, xVar) ==
  IF refKey = None THEN 0 ELSE Absolute(xVar, s, Attribute(env, s, refKey))

\* referenceOffsetForSession
Offset(q, env, s) == MarkerOffsetSeconds(env, s, q.refKey, q.xVar)

PlotAxisXFromUtc(q, env, s, t) ==
  LET offset == Offset(q, env, s) IN
  IF offset = NoTime THEN NoTime ELSE Shift(Absolute(q.xVar, s, t), -offset)

\* A time of the device is handed on as it is; without an offset it is 0.
XCoordToUtcSeconds(q, env, s, x) ==
  LET offset == Offset(q, env, s) IN IF offset = NoTime THEN 0 ELSE x + offset

\* withReferenceSession
ReferenceSession(env) ==
  LET visible == { i \in DOMAIN Rows : Rows[i] \in env.shown } IN
  IF env.hovered # None THEN env.hovered ELSE IF visible = {} THEN None ELSE Rows[Min(visible)]

-----------------------------------------------------------------------------
(* The map                                                                   *)

\* TrackMapModel::computeSessionUtcRange, or everything
UtcRange(env, s, r) ==
  LET offset == MarkerOffsetSeconds(env, s, r.refKey, r.xVar)
      ends == IF offset = NoTime THEN <<NoTime, NoTime>>
              ELSE IF r.xVar = "system" THEN <<SystemTimeToUtc(s, r.lo + offset), SystemTimeToUtc(s, r.hi + offset)>>
              ELSE <<r.lo + offset, r.hi + offset>>
  IN IF ends[1] = NoTime THEN Span[s] ELSE ends

\* The part of the track in the range, if it has two points.
Cropped(env, s, r) ==
  LET range == UtcRange(env, s, r)
      from == IF range[1] > Span[s][1] THEN range[1] ELSE Span[s][1]
      to == IF range[2] < Span[s][2] THEN range[2] ELSE Span[s][2]
  IN IF from < to THEN <<from, to>> ELSE <<>>

Tracks(env, r) == [s \in env.shown |-> Cropped(env, s, r)]

\* sampleLatLonAtUtc
OnTrack(s, t) == t \in Span[s][1]..Span[s][2]

\* The range of the plot for a dot: on the clock of the device, a session
\* without a fit keeps the ends of the device, unlike its track.
DotRange(env, s, r) ==
  LET offset == MarkerOffsetSeconds(env, s, r.refKey, r.xVar)
      skew == IF r.xVar = "system" /\ Skew[s] # NoTime THEN Skew[s] ELSE 0
  IN <<r.lo + offset - skew, r.hi + offset - skew>>

\* The dots of the markers: where the track has a point, and within the range
\* of the plot when the session has an offset.
Dots(env, r) ==
  { d \in env.shown \X Keys :
      LET s == d[1]
          t == Attribute(env, s, d[2])
          offset == MarkerOffsetSeconds(env, s, r.refKey, r.xVar)
          range == DotRange(env, s, r)
      IN /\ t # NoTime /\ OnTrack(s, t)
         /\ offset # NoTime => range[1] <= t /\ t <= range[2] }

\* A plausible slip: only the ends of the range are compared.
SetRangeOfEnds(mp, r) == IF mp.range.lo = r.lo /\ mp.range.hi = r.hi THEN mp
                         ELSE [mp EXCEPT !.range = r, !.tracksDue = TRUE, !.dotsDue = TRUE]

\* PlotRangeModel::setRange
SetRange(mp, r) == IF mp.range = r THEN mp ELSE [mp EXCEPT !.range = r, !.tracksDue = TRUE, !.dotsDue = TRUE]

TracksTimeout ==
  /\ map.tracksDue
  /\ map' = [map EXCEPT !.tracksDue = FALSE, !.tracks = Tracks(e, map.range), !.unheard = {}]
  /\ UNCHANGED <<p, e, wrote, steps>>

DotsTimeout ==
  /\ map.dotsDue
  /\ map' = [map EXCEPT !.dotsDue = FALSE, !.dots = Dots(e, map.range)]
  /\ UNCHANGED <<p, e, wrote, steps>>

-----------------------------------------------------------------------------
(* The bubbles                                                               *)

\* updateReferenceMarkers: of each marker the sessions whose bubble stands
\* alone, with its place on the screen, and those that are merged.
Bubbles(q, env) ==
  [key \in Keys |->
     LET X(s) == PlotAxisXFromUtc(q, env, s, Attribute(env, s, key))
         drawn == { s \in env.shown : X(s) # NoTime /\ q.lo <= X(s) /\ X(s) <= q.hi }
         single == { s \in drawn : \A t \in drawn \ {s} :
                       ~(X(t) - X(s) \in (-ClusterDistance)..ClusterDistance) }
     IN [at |-> [s \in single |-> X(s) - q.lo], merged |-> drawn \ single]]

UpdateMarkersOnly(q, env) == [q EXCEPT !.bubbles = Bubbles(q, env)]

\* Nothing smaller is scheduled while a full rebuild is due.
ScheduleMarkerUpdate(q) == IF q.full THEN q ELSE [q EXCEPT !.markersDue = TRUE]
SchedulePlotRebuild(q) == [q EXCEPT !.full = TRUE, !.rebuildDue = TRUE]

-----------------------------------------------------------------------------
(* Drawing                                                                   *)

Axis(q) == [xVar |-> q.xVar, refKey |-> q.refKey, lo |-> q.lo, hi |-> q.hi]

\* A plausible slip: the bubbles are left to their timer.
RangeChangedOnly(q, env) == q

\* onXAxisRangeChanged, up to the broadcast
RangeChanged(q, env) == UpdateMarkersOnly(q, env)

\* The offset of a session as it is remembered.
Origin(q, env, s) == LET offset == Offset(q, env, s) IN IF offset = NoTime THEN 0 ELSE offset

\* updatePlot: the sessions that have an offset and the time of the axis, as it
\* was recorded or through the fit, and the reference session, whose offset is
\* remembered until the next redraw or change of it.
UpdatePlot(q, env) ==
  LET ref == ReferenceSession(env)
      drawn == [RangeChanged(q, env) EXCEPT !.full = FALSE,
                  !.graphs = { s \in env.shown : Offset(q, env, s) # NoTime /\ (q.xVar \in OwnClocks \/ Skew[s] # NoTime) }]
  IN IF ref = None THEN drawn
     ELSE [drawn EXCEPT !.lastRef = ref, !.lastOffset = Origin(q, env, ref)]

\* onDependencyChanged for an attribute of the sessions S: an edit of the
\* reference of the session that is the reference moves the range along with it.
ShiftRange(q, env, S) ==
  LET new == Origin(q, env, q.lastRef)
      delta == new - q.lastOffset
  IN IF q.lastRef \in S /\ q.lastRef = ReferenceSession(env)
     THEN [q EXCEPT !.lo = @ - delta, !.hi = @ - delta, !.lastOffset = new] ELSE q

\* A plausible slip: the range stays where it is, as for any other marker.
OnDependencyChangedInPlace(q, env, S, key) ==
  IF key = q.refKey THEN SchedulePlotRebuild(q) ELSE ScheduleMarkerUpdate(q)

OnDependencyChanged(q, env, S, key) ==
  IF key = q.refKey THEN SchedulePlotRebuild(ShiftRange(q, env, S)) ELSE ScheduleMarkerUpdate(q)

\* updateAttribute tells nobody when nothing changes, and removeAttribute when
\* nothing is stored.
Changes(env, s, key, t) == t # IF t = NoTime THEN env.stored[s][key] ELSE Attribute(env, s, key)

\* A marker of some sessions is set to the given times. Every listener of a
\* change: the moment model, with it the dots of the map and the bubbles, then
\* the plot, which may move its range. The sessions come one by one, but the
\* order tells nothing: each has its own reference, and one is that of the axis.
Store(st, key, times) ==
  LET S == { s \in DOMAIN times : Changes(st.e, s, key, times[s]) }
      env == [st.e EXCEPT !.stored = [s \in Sessions |->
                IF s \in S THEN [st.e.stored[s] EXCEPT ![key] = times[s]] ELSE st.e.stored[s]]]
      q == OnDependencyChanged(ScheduleMarkerUpdate(st.p), env, S, key)
      told == [st.map EXCEPT !.dotsDue = TRUE, !.unheard = IF key = st.p.refKey THEN @ \cup S ELSE @]
  IN IF S = {} THEN st
     ELSE [e |-> env, p |-> q, map |-> IF Axis(q) = Axis(st.p) THEN told ELSE SetRange(told, Axis(q))]

State == [p |-> p, map |-> map, e |-> e]
Becomes(st) == p' = st.p /\ map' = st.map /\ e' = st.e

RebuildTimeout ==
  /\ p.rebuildDue
  /\ p' = [UpdatePlot(p, e) EXCEPT !.rebuildDue = FALSE]
  /\ map' = SetRange(map, Axis(p'))
  /\ UNCHANGED <<e, wrote, steps>>

\* The timers of the bubbles and of the moments.
MarkersTimeout ==
  /\ p.markersDue
  /\ p' = [UpdateMarkersOnly(p, e) EXCEPT !.markersDue = FALSE]
  /\ UNCHANGED <<map, e, wrote, steps>>

-----------------------------------------------------------------------------
(* The range                                                                 *)

\* A change of the range by the pointer, or by zoomToExtent.
AxisTo(lo, hi) ==
  /\ p' = RangeChanged([p EXCEPT !.lo = lo, !.hi = hi], e)
  /\ map' = SetRange(map, Axis(p'))
  /\ wrote' = Nothing /\ UNCHANGED e

Pan(d) == p.drag = None /\ AxisTo(p.lo + d, p.hi + d)

\* zoomToExtent: the range between two markers where a session has both, its
\* whole track otherwise. The margin is left out.
ExtentOf(s, mode) ==
  LET offset == Offset(p, e, s)
      marks == { MarkerOffsetSeconds(e, s, key, p.xVar) : key \in Keys }
      ends == IF mode = "markerRange" /\ NoTime \notin marks THEN marks
              ELSE { Absolute(p.xVar, s, Span[s][1]), Absolute(p.xVar, s, Span[s][2]) } \ {NoTime}
  IN IF offset = NoTime THEN {} ELSE { t - offset : t \in ends }

ZoomToExtent(mode) ==
  LET all == UNION { ExtentOf(s, mode) : s \in e.shown } IN
  /\ p.drag = None
  /\ all # {} /\ Min(all) < Max(all)
  /\ AxisTo(Min(all), Max(all))

SetXVariable(x) ==
  /\ p.drag = None /\ x # p.xVar
  /\ p' = UpdatePlot([p EXCEPT !.xVar = x], e)
  /\ map' = SetRange(map, Axis(p'))
  /\ wrote' = Nothing /\ UNCHANGED e

\* onReferenceMarkerKeyChanged: the range that shows all that was shown of
\* each session that has both markers.
SetReferenceMarkerKey(key) ==
  LET Old(s) == MarkerOffsetSeconds(e, s, p.refKey, p.xVar)
      New(s) == MarkerOffsetSeconds(e, s, key, p.xVar)
      deltas == { New(s) - Old(s) : s \in { t \in e.shown : Old(t) # NoTime /\ New(t) # NoTime } }
      moved == IF deltas = {} THEN p ELSE [p EXCEPT !.lo = @ - Max(deltas), !.hi = @ - Min(deltas)]
  IN /\ p.drag = None /\ key # p.refKey
     /\ p' = ScheduleMarkerUpdate(UpdatePlot([moved EXCEPT !.refKey = key], e))
     /\ map' = SetRange(map, Axis(p'))
     /\ wrote' = Nothing /\ UNCHANGED e

-----------------------------------------------------------------------------
(* The bubbles and the tools                                                 *)

X(place) == p.lo + place

\* The moment of the session that is drawn at x.
UtcAt(q, env, s, x) ==
  LET t == Shift(x, Offset(q, env, s)) IN IF q.xVar = "system" THEN SystemTimeToUtc(s, t) ELSE t

\* The range is where the reference of the session says: since the last redraw
\* this marker was moved by the pointer and nothing else was.
IsPlaced(s, key) == \/ ~p.rebuildDue /\ s \in e.shown
                    \/ wrote # Nothing /\ wrote.session = s /\ wrote.key = key /\ wrote.follows

\* What a tool wrote, what was meant, and whether the range goes along.
Written(s, key, place, x) ==
  [session |-> s, key |-> key, place |-> place, time |-> XCoordToUtcSeconds(p, e, s, x), meant |-> UtcAt(p, e, s, x),
   follows |-> /\ p.xVar = "utc" /\ UtcAt(p, e, s, x) # NoTime
               /\ key = p.refKey => p.lastRef = s /\ ReferenceSession(e) = s /\ IsPlaced(s, key)]

\* The pointer may take hold of a bubble a little off its middle.
HandleBubblePress(s, key, place) ==
  /\ p.drag = None /\ s \in DOMAIN p.bubbles[key].at
  /\ place - p.bubbles[key].at[s] \in {0, 1}
  /\ p' = [p EXCEPT !.drag = s, !.dragKey = key, !.grab = place - p.bubbles[key].at[s]]
  /\ wrote' = Nothing /\ UNCHANGED <<map, e>>

Drag(place, st) ==
  LET x == X(place) - p.grab IN
  /\ p.drag # None
  /\ Becomes(Store(st, p.dragKey, [s \in {p.drag} |-> XCoordToUtcSeconds(p, e, s, x)]))
  /\ wrote' = Written(p.drag, p.dragKey, place - p.grab, x)

HandleBubbleDrag(place) == Drag(place, State)
HandleBubbleRelease(place) == Drag(place, [State EXCEPT !.p.drag = None, !.p.dragKey = None, !.p.grab = 0])

HandleBubbleDoubleClick(key) ==
  /\ DOMAIN p.bubbles[key].at \cup p.bubbles[key].merged # {}
  /\ SetReferenceMarkerKey(key)

\* The menu of a bubble runs an event loop of its own and keeps what it needs.
ShowBubbleContextMenu(s, key) ==
  /\ p.drag = None /\ p.menu = <<>> /\ s \in DOMAIN p.bubbles[key].at /\ e.stored[s][key] # NoTime
  /\ p' = [p EXCEPT !.menu = <<s, key>>]
  /\ wrote' = Nothing /\ UNCHANGED <<map, e>>

ResetToDefault ==
  /\ p.menu # <<>>
  /\ Becomes(Store([State EXCEPT !.p.menu = <<>>], p.menu[2], [s \in {p.menu[1]} |-> NoTime]))
  /\ wrote' = Nothing

SetCurrentTool(key) ==
  /\ p.drag = None /\ key # p.tool
  /\ p' = [p EXCEPT !.tool = key]
  /\ wrote' = Nothing /\ UNCHANGED <<map, e>>

\* SetExitTool, SetSyncTool and SetCourseTool: the marker of every session that
\* is traced, then the primary tool again.
ToolPress(traced, place) ==
  /\ p.tool # None /\ p.drag = None
  /\ Becomes(Store([State EXCEPT !.p.tool = None], p.tool, [s \in traced |-> XCoordToUtcSeconds(p, e, s, X(place))]))
  /\ wrote' = IF Cardinality(traced) = 1 THEN Written(CHOOSE s \in traced : TRUE, p.tool, place, X(place)) ELSE Nothing

-----------------------------------------------------------------------------
(* The sessions                                                              *)

Edit(s, key, t) == Changes(e, s, key, t) /\ Becomes(Store(State, key, [x \in {s} |-> t])) /\ wrote' = Nothing

\* modelChanged and visibilityChanged
ShowSessions(shown) ==
  /\ shown # e.shown
  /\ e' = [e EXCEPT !.shown = shown]
  /\ p' = SchedulePlotRebuild(p)
  /\ map' = [map EXCEPT !.tracksDue = TRUE, !.dotsDue = TRUE]
  /\ wrote' = Nothing

\* Hovering only changes the pens.
Hover(s) == s # e.hovered /\ e' = [e EXCEPT !.hovered = s] /\ UNCHANGED <<p, map, wrote>>

-----------------------------------------------------------------------------
Init ==
  /\ steps = 0 /\ wrote = Nothing
  /\ e = [shown |-> Sessions, hovered |-> None, stored |-> [s \in Sessions |-> [key \in Keys |-> NoTime]]]
  /\ \E key \in Keys :
       p = [xVar |-> "utc", refKey |-> key, lo |-> 0, hi |-> 5, lastRef |-> None, lastOffset |-> 0, graphs |-> {},
            bubbles |-> [k \in Keys |-> [at |-> <<>>, merged |-> {}]], full |-> TRUE, rebuildDue |-> TRUE,
            markersDue |-> FALSE, drag |-> None, dragKey |-> None, grab |-> 0, menu |-> <<>>, tool |-> None]
  /\ map = [range |-> Axis(p), tracksDue |-> TRUE, dotsDue |-> TRUE, tracks |-> <<>>, dots |-> {}, unheard |-> {}]

User ==
  /\ steps < MaxSteps /\ steps' = steps + 1
  /\ \/ \E d \in Moves : Pan(d)
     \/ \E mode \in {"full", "markerRange"} : ZoomToExtent(mode)
     \/ \E x \in {"utc", "system"} : SetXVariable(x)
     \/ \E key \in Keys \cup {None} : SetReferenceMarkerKey(key)
     \/ \E s \in Sessions, key \in Keys, place \in Places : HandleBubblePress(s, key, place)
     \/ \E place \in Places : HandleBubbleDrag(place)
     \/ \E place \in Places : HandleBubbleRelease(place)
     \/ \E key \in Keys : HandleBubbleDoubleClick(key)
     \/ \E s \in Sessions, key \in Keys : ShowBubbleContextMenu(s, key)
     \/ ResetToDefault
     \/ \E key \in Keys \cup {None} : SetCurrentTool(key)
     \/ \E traced \in SUBSET p.graphs, place \in Places : ToolPress(traced, place)
     \/ \E s \in Sessions, key \in Keys, t \in Times : Edit(s, key, t)
     \/ \E shown \in SUBSET Sessions : ShowSessions(shown)
     \/ \E s \in Sessions \cup {None} : Hover(s)

Timers == RebuildTimeout \/ MarkersTimeout \/ TracksTimeout \/ DotsTimeout
Next == Timers \/ User
Spec == Init /\ [][Next]_vars

-----------------------------------------------------------------------------
(* Properties                                                                *)

AtRest == ~p.rebuildDue /\ ~p.markersDue

\* Every marker that is in the range has its bubble: alone, and then where the
\* marker is, or merged with those that stand next to it (a marker update that
\* comes while a rebuild waits is dropped, PlotWidget.cpp 1686-1691).
BubblesAreTrue == AtRest => p.bubbles = Bubbles(p, e) /\ p.graphs \subseteq e.shown

\* A bubble that is dragged, and a marker that is set by a click, is then
\* where the pointer is, whatever redraws come after it: with UTC on the axis
\* and, if the marker is the reference of the axis, for the session that was
\* and is the reference session, with nothing else moved since the last redraw.
MarkerIsAtPointer ==
  wrote # Nothing /\ wrote.follows =>
    PlotAxisXFromUtc(p, e, wrote.session, Attribute(e, wrote.session, wrote.key)) = X(wrote.place)

\* The map is cut to the range of the plot: what was passed on is what the
\* axis shows, and at rest every dot and every track agrees with it. A track is
\* not cut anew when only the reference marker of its session changed.
MapFollows ==
  /\ map.range = Axis(p)
  /\ ~map.dotsDue => map.dots = Dots(e, map.range)
  /\ ~map.tracksDue => /\ DOMAIN map.tracks = e.shown
                       /\ \A s \in e.shown \ map.unheard : map.tracks[s] = Cropped(e, s, map.range)

\* A place on the axis is turned into the moment that is drawn there
\* (PlotWidget.cpp:415, "Plot-to-UTC: add offset back").
ToolsWriteUtc == wrote # Nothing /\ wrote.meant # NoTime => wrote.time = wrote.meant
=============================================================================
