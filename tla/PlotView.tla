------------------------------ MODULE PlotView ------------------------------
(* The plot with its crosshair, the measure tool and the legend: what is     *)
(* drawn of the sessions, which session the pointer picks out, the mouse     *)
(* moment the other views follow, and the cursor the plot shows when the     *)
(* pointer is elsewhere. The plot redraws late: changes start timers, and a  *)
(* full rebuild that waits swallows the smaller updates. A place is what     *)
(* lies under the pointer: the tracks there, the nearest, and whether the    *)
(* others are near enough for the session hovered before to be kept. The     *)
(* axis is UTC or the clock of the device, absolute or relative to a marker; *)
(* a session without a time fit has no way from one clock to the other.      *)
EXTENDS Moments, SequencesExt, Integers

CONSTANTS
  Rows,             \* the sessions in the order of their rows
  Places,           \* the places of the plot area and the times of the video
  Under,            \* for each place, the sessions that have a track there
  Nearest,          \* for each place, the session nearest to the pointer
  Tight,            \* for each place, whether every track is within the margin
  KeySets,          \* the sets of modifier keys that may be held
  Changing,         \* the sessions whose data and reference change
  Fitted,           \* the sessions with a fit of the device clock to UTC
  OwnClocks,        \* the clocks that a sensor of the plots keeps itself
  MaxSteps          \* bound: the steps of the user and of the calculations

\* Rows are sessions, a place has sessions under it, the pointer may be away.
IsPlot ==
  /\ Rows \in Seq(ToSet(Rows)) /\ "" \notin ToSet(Rows)
  /\ Under \in [Places -> SUBSET ToSet(Rows)]
  /\ "away" \notin Places
  /\ Changing \cup Fitted \subseteq ToSet(Rows)

VARIABLES
  w,                \* PlotWidget, CrosshairManager, MeasureTool and the models they write
  e,                \* the sessions, the settings of the axis, the pointer and the keyboard
  steps             \* how many of those there were

vars == <<w, e, steps>>

Sessions == ToSet(Rows)
None == ""
InPlot(env) == env.pointer \in Places
Shown(env) == { s \in Sessions : env.status[s] = "shown" }
Loaded(env) == { s \in Sessions : env.status[s] # "stub" }

Environment(env) == e' = env
Counted == steps < MaxSteps /\ steps' = steps + 1

-----------------------------------------------------------------------------
(* The axis                                                                  *)

\* systemTimeToUtc and utcToSystemTime are not asked, or have a value.
Convertible(env, s) == env.xVar = "system" => s \in Fitted

\* markerOffsetSeconds has a value; without a reference it is 0.
HasOffset(env, s) == env.relative => env.referenced[s] /\ Convertible(env, s)

\* plotAxisXFromUtc has a value.
OnAxis(env, s) == Convertible(env, s) /\ HasOffset(env, s)

\* The plots have the time of the axis: as it was recorded, or through the fit.
HasX(env, s) == env.xVar \in OwnClocks \/ s \in Fitted

-----------------------------------------------------------------------------
(* The timers                                                                *)

SchedulePlotRebuild(u) == [u EXCEPT !.full = TRUE, !.rebuildDue = TRUE]

\* w.missed says that an update of the cursor was dropped or that the graphs
\* changed under it; the program does not keep it.
ScheduleMomentUpdate(u) == IF u.full THEN [u EXCEPT !.missed = TRUE] ELSE [u EXCEPT !.momentDue = TRUE]

\* LegendPresenter::scheduleUpdate
ScheduleLegend(u) == [u EXCEPT !.legendDue = TRUE]

\* momentsChanged, which the model sends when something changed.
MomentsTo(u, ms) == IF ms = u.moments THEN u
                    ELSE ScheduleMomentUpdate(ScheduleLegend([u EXCEPT !.moments = ms]))

-----------------------------------------------------------------------------
(* The crosshair                                                             *)

\* interpolateY has a value where the track has data on both sides.
Candidates(u, place) == u.graphs \cap Under[place]

FirstOf(there) == Rows[CHOOSE i \in DOMAIN Rows : Rows[i] \in there /\ \A k \in 1..(i - 1) : Rows[k] \notin there]

FindClosestGraph(u, place) ==
  LET there == Candidates(u, place) IN
  IF there = {} THEN None ELSE IF Nearest[place] \in there THEN Nearest[place] ELSE FirstOf(there)

\* The session hovered before is kept while its track is about as near.
Target(u, place) == IF u.hovered \in Candidates(u, place) /\ Tight[place] THEN u.hovered
                    ELSE FindClosestGraph(u, place)

\* A plausible slip: the conversion to UTC is not checked.
WriteMouseMomentUnconverted(u, env, place, traced) ==
  LET placed == { s \in traced \cap Loaded(env) : HasOffset(env, s) } IN
  MomentsTo(u, IF place \in Places /\ placed # {}
               THEN SetSessionPositions(u.moments, "mouse", place, [s \in placed |-> place], traced, TRUE)
               ELSE SetMomentPosition(u.moments, "mouse", NoTime, traced, FALSE))

\* A session without an offset, or whose device time cannot be converted to
\* UTC, has no position; without any the moment is inactive.
WriteMouseMoment(u, env, place, traced) ==
  LET placed == { s \in traced \cap Loaded(env) : HasOffset(env, s) /\ Convertible(env, s) } IN
  MomentsTo(u, IF place \in Places /\ traced # {}
               THEN IF placed # {} THEN SetSessionPositions(u.moments, "mouse", place, [s \in placed |-> place], traced, TRUE)
                    ELSE SetMomentPosition(u.moments, "mouse", NoTime, {}, FALSE)
               ELSE SetMomentPosition(u.moments, "mouse", NoTime, traced, FALSE))

HideTracers(u) == [u EXCEPT !.traced = {}, !.cursor = None]

\* tracedSessionsChanged is heard while the pointer was last seen in the plot.
Trace(u, env, place, hovered, traced) ==
  LET drawn == [u EXCEPT !.hovered = hovered, !.traced = traced, !.cursor = IF traced = {} THEN None ELSE place] IN
  IF u.inArea THEN WriteMouseMoment(drawn, env, place, traced) ELSE drawn

UpdateTracers(u, env, place) ==
  LET lock == IF u.toolLock # None THEN u.toolLock ELSE u.lock
      there == Candidates(u, place)
      target == Target(u, place)
  IN IF lock # None THEN Trace(u, env, place, lock, there \cap {lock})
     ELSE IF "shift" \in env.keys THEN Trace(u, env, place, None, there)
     ELSE Trace(u, env, place, target, {target} \ {None})

\* Pressing Ctrl locks the session that is hovered, releasing it unlocks.
CtrlSeen(u, env) ==
  IF "ctrl" \in env.keys /\ "ctrl" \notin u.lastKeys THEN [u EXCEPT !.lock = IF u.hovered # None THEN u.hovered ELSE @]
  ELSE IF "ctrl" \notin env.keys /\ "ctrl" \in u.lastKeys THEN [u EXCEPT !.lock = None]
  ELSE u

Left(u) == [HideTracers(u) EXCEPT !.over = FALSE, !.hovered = None]

HandleMouseMove(u, env, place) ==
  IF place \in Places THEN
    [UpdateTracers(CtrlSeen([u EXCEPT !.over = TRUE], env), env, place) EXCEPT !.lastKeys = env.keys]
  ELSE IF u.over THEN Left(u) ELSE u

HandleMouseLeave(u) == IF u.over THEN [Left(u) EXCEPT !.lastKeys = @ \ {"shift"}] ELSE u

\* The pointer is asked where it is, also when no event told of it yet.
UpdateIfOverPlotArea(u, env) ==
  IF ~u.over THEN u
  ELSE IF ~InPlot(env) THEN HandleMouseMove(u, env, env.pointer) ELSE UpdateTracers(u, env, env.pointer)

\* The timer that polls the modifiers.
CheckModifiers ==
  /\ w.over /\ w.lastKeys # e.keys
  /\ w' = UpdateIfOverPlotArea([CtrlSeen(w, e) EXCEPT !.lastKeys = e.keys], e)
  /\ UNCHANGED <<e, steps>>

-----------------------------------------------------------------------------
(* The cursor of a moment                                                    *)

EffectiveMoment(u) ==
  LET mouse == u.moments["mouse"] IN
  IF mouse.active /\ mouse.targets # {} THEN "mouse" ELSE IF u.moments["video"].active THEN "video" ELSE None

At(moment, s) == IF s \in DOMAIN moment.sessionPositions THEN moment.sessionPositions[s] ELSE moment.position

\* setExternalCursor, setExternalCursorMulti and clearExternalCursor: the
\* tracers of the sessions that have a graph where the moment is.
External(u, sessions, place) ==
  LET traced == sessions \cap Candidates(u, place) IN
  [u EXCEPT !.traced = traced, !.cursor = IF traced = {} THEN None ELSE place]

\* The mouse moment of another view has one target, which need not be shown;
\* the video is on every session that has a graph there. Either way the moment
\* needs a place on the axis of the session.
CursorOf(u, env) ==
  LET id == EffectiveMoment(u)
      moment == u.moments[id]
      s == CHOOSE t \in moment.targets : TRUE
  IN IF id = None THEN HideTracers(u)
     ELSE IF id = "mouse"
          THEN IF Cardinality(moment.targets) = 1 /\ s \in Loaded(env) /\ OnAxis(env, s)
               THEN External(u, {s}, At(moment, s)) ELSE HideTracers(u)
     ELSE External(u, { t \in Shown(env) : OnAxis(env, t) }, moment.position)

UpdateCrosshairFromMoments(u, env) == IF u.inArea THEN u ELSE CursorOf(u, env)

-----------------------------------------------------------------------------
(* Drawing                                                                   *)

\* The sessions that have data of the plot, an offset and the time of the axis.
Drawable(env) ==
  IF env.enabled THEN { s \in Shown(env) : env.available[s] /\ HasOffset(env, s) /\ HasX(env, s) } ELSE {}

\* onXAxisRangeChanged
RangeChanged(u, env) == UpdateIfOverPlotArea(u, env)

UpdatePlot(u, env) ==
  RangeChanged([u EXCEPT !.full = FALSE, !.graphs = Drawable(env), !.missed = TRUE], env)

\* Data of a plot nobody has drawn yet comes unnoticed.
OnDependencyChanged(u, env) == IF u.graphs # {} THEN SchedulePlotRebuild(u) ELSE u

-----------------------------------------------------------------------------
(* The measure tool and the legend                                           *)

ClearMeasure(u) == IF u.measured = "none" THEN u ELSE ScheduleLegend([u EXCEPT !.measured = "none"])

\* Across all tracks it needs a sample of a drawn session in the range, which
\* there is or is not; on one track the time itself is a row, so it needs the
\* session only.
UpdateMeasurement(u, env, sampled) ==
  IF ~env.enabled THEN ClearMeasure(u)
  ELSE IF IF u.multi THEN sampled /\ u.graphs \cap Loaded(env) # {} ELSE u.session \in Loaded(env)
       THEN ScheduleLegend([u EXCEPT !.measured = IF u.multi THEN "multi" ELSE "single"])
       ELSE ClearMeasure(u)

StopMeasuring(u) == [u EXCEPT !.measuring = FALSE, !.multi = FALSE, !.toolLock = None]

\* A plausible slip: the tool is closed without giving the focus back.
CloseToolHolding(u) ==
  ClearMeasure(IF u.measuring THEN [u EXCEPT !.measuring = FALSE, !.multi = FALSE] ELSE u)

CloseTool(u) == ClearMeasure(IF u.measuring THEN StopMeasuring(u) ELSE u)

ToolMoves(u, env, sampled) == IF u.measuring THEN UpdateMeasurement(u, env, sampled) ELSE u

HasValue(env, moment, s) ==
  env.available[s] /\ HasX(env, s) /\ OnAxis(env, s) /\ s \in Under[At(moment, s)]

\* legendContentForMoment: explicit targets that are shown, or the sessions
\* that overlap. With one target the time is a row, and the target needs its
\* place on the axis; with several it needs a value of one.
LegendSessions(u, env) ==
  LET moment == u.moments[EffectiveMoment(u)]
      targets == IF moment.targets # {} THEN moment.targets \cap Shown(env)
                 ELSE { s \in Shown(env) : HasValue(env, moment, s) }
      tells == IF Cardinality(targets) = 1 THEN \A s \in targets : OnAxis(env, s)
               ELSE \E s \in targets : HasValue(env, moment, s)
  IN IF tells THEN targets ELSE {}

\* w.blank says that no session shown under the mouse had data when the legend
\* was made; the program does not keep it.
NoneHasData(mouse, env) == mouse.active /\ \A s \in mouse.targets \cap Shown(env) : ~HasValue(env, mouse, s)

\* LegendPresenter::recompute
RecomputeLegend ==
  /\ w.legendDue
  /\ w' = [w EXCEPT !.legendDue = FALSE,
                    !.blank = NoneHasData(w.moments["mouse"], e),
                    !.legend = IF w.measured # "none" THEN [mode |-> w.measured, sessions |-> {}]
                               ELSE IF ~e.enabled \/ EffectiveMoment(w) = None THEN [mode |-> "clear", sessions |-> {}]
                               ELSE LET sessions == LegendSessions(w, e) IN
                                    [mode |-> IF sessions = {} THEN "clear" ELSE "point", sessions |-> sessions]]
  /\ UNCHANGED <<e, steps>>

-----------------------------------------------------------------------------
(* Actions: the pointer and the keyboard                                     *)

\* The pointer moves, and the widget is told a little later. While a button
\* is held the widget goes on receiving its moves and no Leave.
PointerMoves(p) ==
  /\ Counted
  /\ p # e.pointer
  /\ Environment([e EXCEPT !.pointer = p, !.unseen = TRUE])
  /\ UNCHANGED w

\* eventFilter, MouseMove
MouseMove ==
  LET seen == HandleMouseMove([w EXCEPT !.inArea = InPlot(e)], e, e.pointer)
      written == WriteMouseMoment(seen, e, e.pointer, seen.traced)
      told == IF w.inArea /\ ~InPlot(e) THEN ScheduleMomentUpdate(written) ELSE written
  IN /\ e.unseen /\ (e.pointer # "away" \/ w.measuring)
     /\ \E sampled \in BOOLEAN : w' = ToolMoves(told, e, sampled)
     /\ UNCHANGED steps
     /\ Environment([e EXCEPT !.unseen = FALSE])

\* A plausible slip: the moments are not looked at again.
LeaveQuietly ==
  LET left == HandleMouseLeave([w EXCEPT !.inArea = FALSE])
      quiet == SetMomentPosition(left.moments, "mouse", NoTime, {}, FALSE)
  IN /\ e.unseen /\ e.pointer = "away" /\ ~w.measuring
     /\ w' = [left EXCEPT !.moments = quiet]
     /\ UNCHANGED steps
     /\ Environment([e EXCEPT !.unseen = FALSE])

\* eventFilter, Leave
Leave ==
  LET left == HandleMouseLeave([w EXCEPT !.inArea = FALSE])
      written == MomentsTo(left, SetMomentPosition(left.moments, "mouse", NoTime, {}, FALSE))
  IN /\ e.unseen /\ e.pointer = "away" /\ ~w.measuring
     /\ w' = ScheduleMomentUpdate(written)
     /\ UNCHANGED steps
     /\ Environment([e EXCEPT !.unseen = FALSE])

KeysChange(keys) == Counted /\ keys # e.keys /\ Environment([e EXCEPT !.keys = keys]) /\ UNCHANGED w

\* Shift measures all tracks, otherwise the session that is hovered.
MousePress ==
  /\ Counted
  /\ w.tool = "measure" /\ ~w.measuring /\ InPlot(e) /\ ~e.unseen
  /\ "shift" \in e.keys \/ w.hovered # None
  /\ w' = IF "shift" \in e.keys THEN [w EXCEPT !.measuring = TRUE, !.multi = TRUE, !.session = None]
          ELSE [w EXCEPT !.measuring = TRUE, !.multi = FALSE, !.session = w.hovered, !.toolLock = w.hovered]
  /\ UNCHANGED e

\* The pointer that left while the button was held leaves now.
MouseRelease ==
  /\ Counted
  /\ w.measuring
  /\ w' = ClearMeasure(StopMeasuring(w))
  /\ Environment([e EXCEPT !.unseen = @ \/ e.pointer = "away"])

SetCurrentTool(t) ==
  /\ Counted
  /\ t # w.tool
  /\ w' = [IF w.tool = "measure" THEN CloseTool(w) ELSE w EXCEPT !.tool = t]
  /\ Environment([e EXCEPT !.unseen = @ \/ e.pointer = "away"])

-----------------------------------------------------------------------------
(* Actions: the other views                                                  *)

\* MapCursorProxy: the pointer is over the map.
SetMapHover(s, place) ==
  /\ Counted
  /\ e.pointer = "away" /\ ~e.unseen /\ s \in Shown(e)
  /\ w' = [MomentsTo(w, SetMomentPosition(w.moments, "mouse", place, {s}, TRUE)) EXCEPT !.hovered = s]
  /\ UNCHANGED e
ClearMapHover ==
  /\ Counted
  /\ w.moments["mouse"].active /\ e.pointer = "away" /\ ~e.unseen
  /\ w' = [MomentsTo(w, SetMomentPosition(w.moments, "mouse", NoTime, {}, FALSE)) EXCEPT !.hovered = None]
  /\ UNCHANGED e

\* The video moment is moved, or stops being shown.
VideoMoves(place) ==
  /\ Counted
  /\ w' = MomentsTo(w, IF place = None THEN SetMomentActive(w.moments, "video", FALSE)
                       ELSE SetMomentPosition(w.moments, "video", place, {}, TRUE))
  /\ w' # w /\ UNCHANGED e

-----------------------------------------------------------------------------
(* Actions: the sessions and the settings                                    *)

\* modelChanged and visibilityChanged
ModelChanged(env) == w' = ScheduleLegend(SchedulePlotRebuild(w)) /\ Environment(env)

ShowSessions(shown) ==
  /\ Counted
  /\ shown # Shown(e)
  /\ ModelChanged([e EXCEPT !.status = [s \in Sessions |-> IF s \in shown THEN "shown"
                                                            ELSE IF @[s] = "shown" THEN "hidden" ELSE @[s]]])

\* The model lets go of a hidden session; nothing here listens.
Evict(s) == Counted /\ e.status[s] = "hidden" /\ Environment([e EXCEPT !.status[s] = "stub"]) /\ UNCHANGED w

\* A calculation publishes its result as a change of the model as well.
Calculated(s) == Counted /\ s \in Loaded(e) /\ ModelChanged([e EXCEPT !.available[s] = ~@])

\* An edit of an attribute the plot depends on only names the measurement.
EditInput(s) ==
  /\ Counted
  /\ s \in Loaded(e)
  /\ w' = OnDependencyChanged(w, e)
  /\ Environment([e EXCEPT !.available[s] = ~@])

\* An edit of the marker that is or was the reference: the moment model is told
\* before the plot is, which redraws when the axis is relative to it.
EditReference(s) ==
  LET told == ScheduleMomentUpdate(ScheduleLegend(w)) IN
  /\ Counted
  /\ s \in Loaded(e)
  /\ w' = IF e.relative THEN SchedulePlotRebuild(told) ELSE told
  /\ Environment([e EXCEPT !.referenced[s] = ~@])

\* A redraw with another axis brings another place under the pointer.
OtherAxis(env, place) == IF InPlot(env) THEN [env EXCEPT !.pointer = place] ELSE env

\* onXVariableChanged: the moments are not looked at again.
SetXVariable(place) ==
  LET env == OtherAxis([e EXCEPT !.xVar = IF @ = "utc" THEN "system" ELSE "utc"], place) IN
  Counted /\ w' = ScheduleLegend(UpdatePlot(w, env)) /\ Environment(env)

\* onReferenceMarkerKeyChanged: the marker is chosen as the reference, or none.
SetReferenceMarkerKey(place) ==
  LET env == OtherAxis([e EXCEPT !.relative = ~@], place) IN
  Counted /\ w' = ScheduleMomentUpdate(ScheduleLegend(UpdatePlot(w, env))) /\ Environment(env)

\* PlotModel::dataChanged redraws at once; a redraw that waited stays due.
TogglePlot ==
  LET env == [e EXCEPT !.enabled = ~@] IN
  Counted /\ w' = ScheduleLegend(UpdatePlot(w, env)) /\ Environment(env)

-----------------------------------------------------------------------------
(* Actions: the timers                                                       *)

RebuildTimeout == w.rebuildDue /\ w' = UpdatePlot([w EXCEPT !.rebuildDue = FALSE], e) /\ UNCHANGED <<e, steps>>

OnMomentsChanged ==
  /\ w.momentDue
  /\ w' = [UpdateCrosshairFromMoments(w, e) EXCEPT !.momentDue = FALSE, !.missed = w.inArea /\ @]
  /\ UNCHANGED <<e, steps>>

-----------------------------------------------------------------------------
\* The logbook has shown its sessions again, and nothing is drawn yet.
Init ==
  /\ steps = 0
  /\ w = [tool |-> "pan", measuring |-> FALSE, multi |-> FALSE, session |-> None, measured |-> "none",
          toolLock |-> None, lock |-> None, lastKeys |-> {}, over |-> FALSE, inArea |-> FALSE,
          hovered |-> None, traced |-> {}, cursor |-> None, graphs |-> {}, missed |-> FALSE,
          full |-> TRUE, rebuildDue |-> TRUE, momentDue |-> FALSE,
          legendDue |-> TRUE, legend |-> [mode |-> "clear", sessions |-> {}], blank |-> FALSE,
          moments |-> RegisterMoments(<<>>, {"mouse", "video"}, "")]
  /\ e = [status |-> [s \in Sessions |-> "shown"], available |-> [s \in Sessions |-> TRUE],
          referenced |-> [s \in Sessions |-> TRUE], enabled |-> TRUE, xVar |-> "utc", relative |-> TRUE,
          pointer |-> "away", unseen |-> FALSE, keys |-> {}]

User == \/ \E p \in Places \cup {"axis", "away"} : PointerMoves(p)
        \/ MousePress \/ MouseRelease
        \/ \E keys \in KeySets : KeysChange(keys)
        \/ \E t \in {"pan", "measure"} : SetCurrentTool(t)
Views == \/ \E s \in Sessions : \E place \in Places : s \in Under[place] /\ SetMapHover(s, place)
         \/ ClearMapHover
         \/ \E place \in Places \cup {None} : VideoMoves(place)
Model == \/ \E shown \in SUBSET Sessions : ShowSessions(shown)
         \/ \E s \in Sessions : Evict(s)
         \/ \E s \in Changing : Calculated(s) \/ EditInput(s) \/ EditReference(s)
         \/ TogglePlot
         \/ \E place \in Places : SetXVariable(place) \/ SetReferenceMarkerKey(place)
EventLoop == MouseMove \/ Leave \/ RebuildTimeout \/ OnMomentsChanged \/ RecomputeLegend \/ CheckModifiers
Next == EventLoop \/ User \/ Views \/ Model
Spec == Init /\ [][Next]_vars

-----------------------------------------------------------------------------
(* Properties                                                                *)

Redrawn == ~w.rebuildDue
AtRest == Redrawn /\ ~e.unseen /\ ~w.momentDue /\ (w.over => w.lastKeys = e.keys)

\* At rest the plot shows the sessions that are shown, with data, an offset
\* and the time of the axis, or nothing at all: data that appears for a plot
\* nobody has drawn is not noticed until the next redraw. While the pointer is
\* in the plot, the mouse moment the other views follow names the sessions that
\* are traced there and the place of each whose time can be converted, is
\* active exactly when there is such a session (PlotWidget.cpp 1933-1964), and
\* while a session is hovered no other is traced.
CrosshairTells ==
  LET mouse == w.moments["mouse"] IN
     /\ Redrawn => w.graphs \in {Drawable(e), {}}
     /\ AtRest /\ InPlot(e) =>
          /\ w.over /\ w.inArea
          /\ w.traced \subseteq Candidates(w, e.pointer)
          /\ mouse.active = (\E s \in w.traced : Convertible(e, s))
          /\ mouse.active => /\ mouse.targets = w.traced
                             /\ \A s \in w.traced : Convertible(e, s) => At(mouse, s) = e.pointer
          /\ w.hovered # None => w.traced \subseteq {w.hovered}
     /\ AtRest /\ ~InPlot(e) => ~w.over /\ ~w.inArea

\* With the pointer elsewhere and nothing waiting, the cursor on the plot is
\* that of the moment that is in effect, on the graphs that are there, unless
\* a change of it was swallowed by a redraw (PlotWidget.cpp, Leave, and
\* scheduleMomentUpdate).
CursorFollows ==
  AtRest /\ ~InPlot(e) /\ ~w.missed =>
    LET u == CursorOf(w, e) IN w.traced = u.traced /\ w.cursor = u.cursor

\* With the pointer in the plot or elsewhere, the crosshair is true.
CrosshairIsTrue == CrosshairTells /\ CursorFollows

\* The crosshair is locked to a session by the measure tool exactly while it
\* measures that session, and once the legend is up to date it shows a
\* measurement exactly while there is one and otherwise, for a pointer that
\* rests in the plot, the sessions that are traced there if the time of one can
\* be converted, unless none of these had data when it was made: it is not told
\* of data that comes back with an edit (LegendPresenter.cpp, the constructor).
MeasureEnds ==
  /\ w.toolLock = IF w.measuring /\ ~w.multi THEN w.session ELSE None
  /\ w.measured # "none" => w.measuring /\ w.tool = "measure"
  /\ ~w.legendDue => (w.legend.mode \in {"single", "multi"}) = (w.measured # "none")
  /\ AtRest /\ InPlot(e) /\ ~w.legendDue /\ w.measured = "none" /\ ~w.blank /\ (\E s \in w.traced : Convertible(e, s)) =>
       w.legend.sessions = w.traced
=============================================================================
