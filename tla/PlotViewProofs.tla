--------------------------- MODULE PlotViewProofs ---------------------------
(* Proofs about PlotView for any sessions, places and keys, and for users    *)
(* and calculations that take any number of steps.                           *)
EXTENDS PlotView, TLAPS, SequenceTheorems, WellFoundedInduction, FiniteSetTheorems

------------------------------------------------------------------------------
(* Types                                                                     *)

Keys == UNION KeySets
Positions == Places \cup {None, NoTime}
Someone == Sessions \cup {None}
PositionsOfSome == {<<>>} \cup UNION { [T -> Places] : T \in SUBSET Sessions }
MomentRecords == [enabled : {TRUE}, group : {""}, position : Positions, active : BOOLEAN,
                  targets : SUBSET Sessions, sessionPositions : PositionsOfSome]
MomentIds == {"mouse", "video"}
MomentModels == [MomentIds -> MomentRecords]
Legends == [mode : {"clear", "point", "single", "multi"}, sessions : SUBSET Sessions]

Widgets ==
  [tool : {"pan", "measure"}, measuring : BOOLEAN, multi : BOOLEAN, session : Someone,
   measured : {"none", "single", "multi"}, toolLock : Someone, lock : Someone, lastKeys : SUBSET Keys,
   over : BOOLEAN, inArea : BOOLEAN, hovered : Someone, traced : SUBSET Sessions, cursor : Positions,
   graphs : SUBSET Sessions, missed : BOOLEAN, full : BOOLEAN, rebuildDue : BOOLEAN, momentDue : BOOLEAN,
   legendDue : BOOLEAN, legend : Legends, blank : BOOLEAN, moments : MomentModels]

Environments ==
  [status : [Sessions -> {"shown", "hidden", "stub"}], available : [Sessions -> BOOLEAN],
   referenced : [Sessions -> BOOLEAN], enabled : BOOLEAN, xVar : {"utc", "system"}, relative : BOOLEAN,
   pointer : Places \cup {"axis", "away"}, unseen : BOOLEAN, keys : SUBSET Keys]

TypeOK == w \in Widgets /\ e \in Environments

------------------------------------------------------------------------------
(* The inductive invariant                                                   *)

\* A moment that is active is somewhere.
MomentsHavePlaces(u) ==
  /\ u.moments["mouse"].active => u.moments["mouse"].position \in Places
  /\ u.moments["video"].active => u.moments["video"].position \in Places

\* The crosshair is in the plot only while the widget saw the pointer there,
\* and a redraw swallows the updates only while it is due.
OverIsInside(u) == u.over => u.inArea
FullIsDue(u) == u.full => u.rebuildDue

\* Once the widget was told of it, it knows where the pointer is.
PointerIsKnown(u, env) == ~env.unseen => u.over = InPlot(env) /\ u.inArea = InPlot(env)

\* Unless a redraw is due, what is drawn can be drawn.
GraphsAreDrawable(u, env) == ~u.rebuildDue => u.graphs \in {Drawable(env), {}}

\* The crosshair says what is at a place, and so does the mouse moment if the
\* time of a session there can be converted.
SomeConvertible(sessions, env) == \E s \in sessions : Convertible(env, s)
MouseTells(u, env, place) ==
  LET mouse == u.moments["mouse"] IN
  /\ u.traced \subseteq Candidates(u, place)
  /\ mouse.active = SomeConvertible(u.traced, env)
  /\ mouse.active => mouse.targets = u.traced /\ \A s \in u.traced : At(mouse, s) = place
  /\ u.hovered # None => u.traced \subseteq {u.hovered}
TracedIsUnder(u, env) == ~u.rebuildDue /\ ~env.unseen /\ InPlot(env) => MouseTells(u, env, env.pointer)

\* While the pointer was last seen elsewhere and no update waits or was lost,
\* the cursor is that of the moments; whether the pointer has come back unseen
\* does not matter.
SameCursor(u, c) == u.traced = c.traced /\ u.cursor = c.cursor
CursorKept(u, env) ==
  ~u.rebuildDue /\ ~u.inArea /\ ~u.momentDue /\ ~u.missed => SameCursor(u, CursorOf(u, env))

\* A measurement is one of the measure tool, and a legend that is up to date
\* shows it.
MeasureIsWhole(u) ==
  /\ u.toolLock = IF u.measuring /\ ~u.multi THEN u.session ELSE None
  /\ u.measuring => u.tool = "measure"
  /\ u.measured # "none" => u.measuring
  /\ ~u.legendDue => (u.legend.mode \in {"single", "multi"}) = (u.measured # "none")

\* Otherwise it shows what the mouse moment names, wherever that was set.
LegendHears(u, env) ==
  ~u.legendDue /\ u.measured = "none" /\ env.enabled /\ EffectiveMoment(u) = "mouse" /\ ~u.blank =>
    u.legend.sessions = u.moments["mouse"].targets \cap Shown(env)

Drawn(u, env) ==
  /\ MomentsHavePlaces(u) /\ OverIsInside(u) /\ FullIsDue(u)
  /\ PointerIsKnown(u, env) /\ GraphsAreDrawable(u, env)
  /\ TracedIsUnder(u, env) /\ CursorKept(u, env)

IInv == TypeOK /\ Drawn(w, e) /\ MeasureIsWhole(w) /\ LegendHears(w, e)

------------------------------------------------------------------------------
(* The moments                                                               *)

\* What the operations of the model make of one of the two moments.
MouseSet(ms, mt) == mt \in MomentModels /\ mt["video"] = ms["video"]
VideoSet(ms, mt) == mt \in MomentModels /\ mt["mouse"] = ms["mouse"]
On(moment, place) == moment.active /\ moment.position = place

LEMMA MouseIsPlaced ==
  ASSUME NEW ms \in MomentModels, NEW place \in Places, NEW targets \in SUBSET Sessions, NEW mt,
         mt = SetMomentPosition(ms, "mouse", place, targets, TRUE)
  PROVE  MouseSet(ms, mt) /\ On(mt["mouse"], place)
<1>. DEFINE new == [enabled |-> TRUE, group |-> "", position |-> place, active |-> TRUE,
                    targets |-> targets, sessionPositions |-> <<>>]
<1>1. DOMAIN ms = MomentIds /\ "mouse" \in MomentIds /\ ms["mouse"] \in MomentRecords
  BY DEF MomentModels, MomentIds
<1>2. ms["mouse"].enabled = TRUE /\ ms["mouse"].group = ""
  BY <1>1 DEF MomentRecords
<1>3. new \in MomentRecords /\ On(new, place)
  BY DEF MomentRecords, PositionsOfSome, Positions, On
<1>4. mt = [ms EXCEPT !["mouse"] = new]
  BY <1>1, <1>2 DEF SetMomentPosition, Moment
<1>. HIDE DEF new
<1>5. MouseSet(ms, mt) /\ mt["mouse"] = new
  BY <1>1, <1>3, <1>4 DEF MomentModels, MomentIds, MouseSet
<1> QED
  BY <1>3, <1>5

LEMMA VideoIsPlaced ==
  ASSUME NEW ms \in MomentModels, NEW place \in Places, NEW targets \in SUBSET Sessions, NEW mt,
         mt = SetMomentPosition(ms, "video", place, targets, TRUE)
  PROVE  VideoSet(ms, mt) /\ On(mt["video"], place)
<1>. DEFINE new == [enabled |-> TRUE, group |-> "", position |-> place, active |-> TRUE,
                    targets |-> targets, sessionPositions |-> <<>>]
<1>1. DOMAIN ms = MomentIds /\ "video" \in MomentIds /\ ms["video"] \in MomentRecords
  BY DEF MomentModels, MomentIds
<1>2. ms["video"].enabled = TRUE /\ ms["video"].group = ""
  BY <1>1 DEF MomentRecords
<1>3. new \in MomentRecords /\ On(new, place)
  BY DEF MomentRecords, PositionsOfSome, Positions, On
<1>4. mt = [ms EXCEPT !["video"] = new]
  BY <1>1, <1>2 DEF SetMomentPosition, Moment
<1>. HIDE DEF new
<1>5. VideoSet(ms, mt) /\ mt["video"] = new
  BY <1>1, <1>3, <1>4 DEF MomentModels, MomentIds, VideoSet
<1> QED
  BY <1>3, <1>5

LEMMA MouseIsCleared ==
  ASSUME NEW ms \in MomentModels, NEW targets \in SUBSET Sessions, NEW mt,
         mt = SetMomentPosition(ms, "mouse", NoTime, targets, FALSE)
  PROVE  MouseSet(ms, mt) /\ ~mt["mouse"].active
<1>. DEFINE new == [enabled |-> TRUE, group |-> "", position |-> NoTime, active |-> FALSE,
                    targets |-> targets, sessionPositions |-> <<>>]
<1>1. DOMAIN ms = MomentIds /\ "mouse" \in MomentIds /\ ms["mouse"] \in MomentRecords
  BY DEF MomentModels, MomentIds
<1>2. ms["mouse"].enabled = TRUE /\ ms["mouse"].group = ""
  BY <1>1 DEF MomentRecords
<1>3. new \in MomentRecords /\ ~new.active
  BY DEF MomentRecords, PositionsOfSome, Positions
<1>4. mt = [ms EXCEPT !["mouse"] = new]
  BY <1>1, <1>2 DEF SetMomentPosition, Moment
<1>. HIDE DEF new
<1>5. MouseSet(ms, mt) /\ mt["mouse"] = new
  BY <1>1, <1>3, <1>4 DEF MomentModels, MomentIds, MouseSet
<1> QED
  BY <1>3, <1>5

\* The mouse moment names the sessions and where they are.
Names(mouse, sessions, place) ==
  mouse.active /\ mouse.targets = sessions /\ \A s : At(mouse, s) = place

LEMMA SessionPositionsAreSet ==
  ASSUME NEW ms \in MomentModels, NEW place \in Places, NEW placed \in SUBSET Sessions,
         NEW targets \in SUBSET Sessions, NEW mt,
         mt = SetSessionPositions(ms, "mouse", place, [s \in placed |-> place], targets, TRUE)
  PROVE  MouseSet(ms, mt) /\ On(mt["mouse"], place) /\ Names(mt["mouse"], targets, place)
<1>. DEFINE sp == [s \in placed |-> place]
            new == [enabled |-> TRUE, group |-> "", position |-> place, active |-> TRUE,
                    targets |-> targets, sessionPositions |-> sp]
<1>1. DOMAIN ms = MomentIds /\ "mouse" \in MomentIds /\ ms["mouse"] \in MomentRecords
  BY DEF MomentModels, MomentIds
<1>2. ms["mouse"].enabled = TRUE /\ ms["mouse"].group = ""
  BY <1>1 DEF MomentRecords
<1>3. sp \in PositionsOfSome
  <2>1. sp \in [placed -> Places]
    OBVIOUS
  <2> QED
    BY <2>1 DEF PositionsOfSome
<1>4. \A s : (IF s \in DOMAIN sp THEN sp[s] ELSE place) = place
  OBVIOUS
<1>5. mt = [ms EXCEPT !["mouse"] = new]
  BY <1>1, <1>2 DEF SetSessionPositions, Moment
<1>. HIDE DEF sp
<1>6. new \in MomentRecords
  BY <1>3 DEF MomentRecords, Positions
<1>7. On(new, place) /\ Names(new, targets, place)
  BY <1>4 DEF At, On, Names
<1>. HIDE DEF new
<1>8. MouseSet(ms, mt) /\ mt["mouse"] = new
  BY <1>1, <1>5, <1>6 DEF MomentModels, MomentIds, MouseSet
<1> QED
  BY <1>7, <1>8

LEMMA VideoIsCleared ==
  ASSUME NEW ms \in MomentModels, NEW mt, mt = SetMomentActive(ms, "video", FALSE)
  PROVE  VideoSet(ms, mt) /\ ~mt["video"].active
<1>1. DOMAIN ms = MomentIds /\ ms["video"] \in MomentRecords
  BY DEF MomentModels, MomentIds
<1>. DEFINE new == [ms["video"] EXCEPT !.active = FALSE]
<1>2. new \in MomentRecords /\ ~new.active
  BY <1>1 DEF MomentRecords
<1>3. mt = [ms EXCEPT !["video"] = new]
  BY <1>1 DEF SetMomentActive, MomentIds
<1>. HIDE DEF new
<1>4. VideoSet(ms, mt) /\ mt["video"] = new
  BY <1>1, <1>2, <1>3 DEF MomentModels, MomentIds, VideoSet
<1> QED
  BY <1>2, <1>4

LEMMA AtIsPosition ==
  ASSUME NEW m \in MomentRecords, NEW s
  PROVE  At(m, s) \in Positions
<1>1. m.position \in Positions /\ m.sessionPositions \in PositionsOfSome
  BY DEF MomentRecords
<1>2. s \in DOMAIN m.sessionPositions => m.sessionPositions[s] \in Places
  <2>1. CASE m.sessionPositions = <<>>
    BY <2>1
  <2>2. CASE m.sessionPositions # <<>>
    <3>1. PICK T \in SUBSET Sessions : m.sessionPositions \in [T -> Places]
      BY <1>1, <2>2 DEF PositionsOfSome
    <3> QED
      BY <3>1
  <2> QED
    BY <2>1, <2>2
<1> QED
  BY <1>1, <1>2 DEF At, Positions

------------------------------------------------------------------------------
(* What the operators of the crosshair do                                    *)

\* The measure tool and what is drawn are left alone, and so is the legend; who
\* follows the moments is told when they change, and nothing due is forgotten.
Beside(u, x) ==
  /\ x \in Widgets
  /\ x.tool = u.tool /\ x.measuring = u.measuring /\ x.multi = u.multi /\ x.session = u.session
  /\ x.measured = u.measured /\ x.toolLock = u.toolLock
  /\ x.graphs = u.graphs /\ x.full = u.full /\ x.rebuildDue = u.rebuildDue
  /\ x.legend = u.legend /\ x.blank = u.blank
  /\ u.legendDue => x.legendDue
  /\ u.momentDue => x.momentDue
  /\ u.missed => x.missed
  /\ x.moments = u.moments \/ (x.legendDue /\ (x.momentDue \/ x.missed))

\* Only the moments are changed.
OnlyMoments(u, x) ==
  /\ x.over = u.over /\ x.inArea = u.inArea /\ x.lastKeys = u.lastKeys /\ x.lock = u.lock
  /\ x.hovered = u.hovered /\ x.traced = u.traced /\ x.cursor = u.cursor

LEMMA BesideIsTransitive ==
  ASSUME NEW u, NEW x, NEW y, Beside(u, x), Beside(x, y)
  PROVE  Beside(u, y)
  BY DEF Beside

LEMMA BesideIsReflexive ==
  ASSUME NEW u \in Widgets
  PROVE  Beside(u, u)
  BY DEF Beside

LEMMA MomentUpdateIsScheduled ==
  ASSUME NEW u \in Widgets, NEW x, x = ScheduleMomentUpdate(u)
  PROVE  Beside(u, x) /\ OnlyMoments(u, x) /\ x.moments = u.moments /\ (x.momentDue \/ x.missed)
         /\ x.legendDue = u.legendDue
<1>1. CASE u.full
  <2>1. x = [u EXCEPT !.missed = TRUE]
    BY <1>1 DEF ScheduleMomentUpdate
  <2>2. x \in Widgets /\ x.missed = TRUE /\ OnlyMoments(u, x)
    BY <2>1 DEF Widgets, OnlyMoments
  <2>3. Beside(u, x) /\ x.moments = u.moments /\ x.legendDue = u.legendDue
    BY <2>1, <2>2 DEF Widgets, Beside
  <2> QED
    BY <2>2, <2>3
<1>2. CASE ~u.full
  <2>1. x = [u EXCEPT !.momentDue = TRUE]
    BY <1>2 DEF ScheduleMomentUpdate
  <2>2. x \in Widgets /\ x.momentDue = TRUE /\ OnlyMoments(u, x)
    BY <2>1 DEF Widgets, OnlyMoments
  <2>3. Beside(u, x) /\ x.moments = u.moments /\ x.legendDue = u.legendDue
    BY <2>1, <2>2 DEF Widgets, Beside
  <2> QED
    BY <2>2, <2>3
<1> QED
  BY <1>1, <1>2

LEMMA MomentsToDoes ==
  ASSUME NEW u \in Widgets, NEW ms \in MomentModels, NEW x, x = MomentsTo(u, ms)
  PROVE  Beside(u, x) /\ OnlyMoments(u, x) /\ x.moments = ms
<1>1. CASE ms = u.moments
  BY <1>1 DEF MomentsTo, Beside, OnlyMoments
<1>2. CASE ms # u.moments
  <2>. DEFINE y == [u EXCEPT !.moments = ms, !.legendDue = TRUE]
  <2>1. x = ScheduleMomentUpdate(y)
    BY <1>2 DEF MomentsTo, ScheduleLegend, Widgets
  <2>2. /\ y \in Widgets /\ y.moments = ms /\ y.legendDue = TRUE
        /\ y.tool = u.tool /\ y.measuring = u.measuring /\ y.multi = u.multi /\ y.session = u.session
        /\ y.measured = u.measured /\ y.toolLock = u.toolLock
        /\ y.graphs = u.graphs /\ y.full = u.full /\ y.rebuildDue = u.rebuildDue
        /\ y.legend = u.legend /\ y.blank = u.blank /\ y.momentDue = u.momentDue /\ y.missed = u.missed
        /\ OnlyMoments(u, y)
    BY DEF Widgets, OnlyMoments
  <2>. HIDE DEF y
  <2>3. /\ Beside(y, x) /\ OnlyMoments(y, x) /\ x.moments = y.moments /\ (x.momentDue \/ x.missed)
        /\ x.legendDue = y.legendDue
    BY <2>1, <2>2, MomentUpdateIsScheduled
  <2> QED
    BY <2>2, <2>3 DEF Beside, OnlyMoments
<1> QED
  BY <1>1, <1>2

\* What is traced has a place on the axis.
Placed(sessions, env) == \A s \in sessions : s \in Loaded(env) /\ HasOffset(env, s)

\* The mouse moment is that of a pointer that traces these sessions.
Written(mouse, env, traced, place) ==
  IF SomeConvertible(traced, env) THEN Names(mouse, traced, place) ELSE ~mouse.active

\* Who writes the same moments changes nothing.
NothingElse(u, x) == x.moments = u.moments => x = u

LEMMA MouseMomentIsWritten ==
  ASSUME NEW u \in Widgets, NEW env \in Environments, NEW place, NEW traced \in SUBSET Sessions,
         NEW x, x = WriteMouseMoment(u, env, place, traced)
  PROVE  /\ Beside(u, x) /\ OnlyMoments(u, x)
         /\ MomentsHavePlaces(u) => MomentsHavePlaces(x)
         /\ NothingElse(u, x)
         /\ place \in Places /\ Placed(traced, env) => Written(x.moments["mouse"], env, traced, place)
<1>. DEFINE placed == { s \in traced \cap Loaded(env) : HasOffset(env, s) /\ Convertible(env, s) }
            on == SetSessionPositions(u.moments, "mouse", place, [s \in placed |-> place], traced, TRUE)
            none == SetMomentPosition(u.moments, "mouse", NoTime, {}, FALSE)
            off == SetMomentPosition(u.moments, "mouse", NoTime, traced, FALSE)
<1>1. u.moments \in MomentModels /\ placed \in SUBSET Sessions
  BY DEF Widgets
<1>2. /\ MouseSet(u.moments, none) /\ ~none["mouse"].active
      /\ MouseSet(u.moments, off) /\ ~off["mouse"].active
  BY <1>1, MouseIsCleared
<1>3. place \in Places => /\ MouseSet(u.moments, on) /\ On(on["mouse"], place)
                         /\ Names(on["mouse"], traced, place)
  <2>. HAVE place \in Places
  <2>. HIDE DEF placed
  <2> QED
    BY <1>1, SessionPositionsAreSet
<1>4. PICK ms : /\ x = MomentsTo(u, ms)
                /\ ms = IF place \in Places /\ traced # {} THEN IF placed # {} THEN on ELSE none ELSE off
  BY DEF WriteMouseMoment
<1>5. Placed(traced, env) => (placed # {}) = SomeConvertible(traced, env)
  BY DEF Placed, SomeConvertible
<1>. HIDE DEF on, none, off, placed
<1>6. MouseSet(u.moments, ms) /\ (ms["mouse"].active => ms["mouse"].position \in Places)
  BY <1>2, <1>3, <1>4 DEF On
<1>7. ms \in MomentModels /\ ms["video"] = u.moments["video"]
  BY <1>6 DEF MouseSet
<1>8. Beside(u, x) /\ OnlyMoments(u, x) /\ x.moments = ms
  BY <1>4, <1>7, MomentsToDoes
<1>9. MomentsHavePlaces(u) => MomentsHavePlaces(x)
  BY <1>6, <1>7, <1>8 DEF MomentsHavePlaces
<1>10. NothingElse(u, x)
  BY <1>4, <1>8 DEF MomentsTo, NothingElse
<1>11. ASSUME place \in Places, Placed(traced, env)
       PROVE  Written(ms["mouse"], env, traced, place)
  <2>1. CASE ~SomeConvertible(traced, env)
    <3>1. ms \in {off, none}
      BY <1>4, <1>5, <1>11, <2>1
    <3> QED
      BY <1>2, <2>1, <3>1 DEF Written
  <2>2. CASE SomeConvertible(traced, env)
    <3>1. traced # {} /\ placed # {}
      BY <1>5, <1>11, <2>2 DEF SomeConvertible
    <3>2. ms = on
      BY <1>4, <1>11, <3>1
    <3> QED
      BY <1>3, <1>11, <2>2, <3>2 DEF Written
  <2> QED
    BY <2>1, <2>2
<1> QED
  BY <1>8, <1>9, <1>10, <1>11

\* Rows that come before others.
Earlier == {r \in Nat \X Nat : r[1] < r[2]}

LEMMA EarlierIsWellFounded == IsWellFoundedOn(Earlier, Nat)
<1>1. Earlier = OpToRel(<, Nat)
  BY DEF Earlier, OpToRel
<1> QED
  BY <1>1, NatLessThanWellFounded, Zenon

LEMMA FirstIsThere ==
  ASSUME IsPlot, NEW there \in SUBSET Sessions, there # {}
  PROVE  FirstOf(there) \in there
<1>. DEFINE Hits == { i \in DOMAIN Rows : Rows[i] \in there }
<1>1. Rows \in Seq(ToSet(Rows)) /\ DOMAIN Rows = 1..Len(Rows) /\ Len(Rows) \in Nat
  BY LenProperties DEF IsPlot
<1>2. Hits \subseteq Nat /\ Hits # {}
  <2>1. PICK s \in there : TRUE
    OBVIOUS
  <2>2. PICK i \in DOMAIN Rows : Rows[i] = s
    BY <2>1 DEF Sessions, ToSet
  <2> QED
    BY <1>1, <2>1, <2>2
<1>3. PICK i \in Hits : \A k \in Hits : <<k, i>> \notin Earlier
  BY <1>2, EarlierIsWellFounded, WFMin
<1>4. \A k \in 1..(i - 1) : Rows[k] \notin there
  <2>. TAKE k \in 1..(i - 1)
  <2>1. k \in DOMAIN Rows /\ <<k, i>> \in Earlier
    BY <1>1, <1>3 DEF Earlier
  <2> QED
    BY <1>3, <2>1
<1>5. \E n \in DOMAIN Rows : Rows[n] \in there /\ \A k \in 1..(n - 1) : Rows[k] \notin there
  BY <1>3, <1>4
<1> QED
  BY <1>5 DEF FirstOf

LEMMA TargetIsCandidate ==
  ASSUME IsPlot, NEW u \in Widgets, NEW place \in Places
  PROVE  /\ Candidates(u, place) \in SUBSET Sessions
         /\ Target(u, place) \in Candidates(u, place) \cup {None}
<1>1. Candidates(u, place) \in SUBSET Sessions
  BY DEF Candidates, Widgets
<1>2. Candidates(u, place) # {} => FirstOf(Candidates(u, place)) \in Candidates(u, place)
  BY <1>1, FirstIsThere
<1> QED
  BY <1>1, <1>2 DEF Target, FindClosestGraph
\* The crosshair is redrawn at a place; the widget goes on knowing where the
\* pointer is.
Follows(u, x) ==
  /\ Beside(u, x) /\ x.inArea = u.inArea
  /\ MomentsHavePlaces(u) => MomentsHavePlaces(x)

Redraws(u, x, env, place) ==
  Follows(u, x) /\ x.over = u.over /\ (Placed(u.graphs, env) => MouseTells(x, env, place))

LEMMA BesideOfFields ==
  ASSUME NEW u \in Widgets, NEW x \in Widgets,
         x.tool = u.tool, x.measuring = u.measuring, x.multi = u.multi, x.session = u.session,
         x.measured = u.measured, x.toolLock = u.toolLock,
         x.graphs = u.graphs, x.full = u.full, x.rebuildDue = u.rebuildDue, x.missed = u.missed,
         x.momentDue = u.momentDue, x.legendDue = u.legendDue, x.legend = u.legend, x.blank = u.blank,
         x.moments = u.moments
  PROVE  Beside(u, x) /\ (MomentsHavePlaces(u) => MomentsHavePlaces(x))
  BY DEF Beside, MomentsHavePlaces

LEMMA TraceDoes ==
  ASSUME NEW u \in Widgets, NEW env \in Environments, NEW place \in Places, u.inArea,
         NEW hovered \in Someone, NEW traced \in SUBSET Sessions, traced \subseteq Candidates(u, place),
         hovered # None => traced \subseteq {hovered},
         NEW x, x = Trace(u, env, place, hovered, traced)
  PROVE  Redraws(u, x, env, place)
<1>. DEFINE y == [u EXCEPT !.hovered = hovered, !.traced = traced, !.cursor = IF traced = {} THEN None ELSE place]
<1>1. /\ y \in Widgets /\ y.hovered = hovered /\ y.traced = traced
      /\ y.over = u.over /\ y.inArea = u.inArea /\ y.graphs = u.graphs
  BY DEF Widgets, Positions
<1>2. Beside(u, y) /\ (MomentsHavePlaces(u) => MomentsHavePlaces(y))
  <2>1. /\ y.tool = u.tool /\ y.measuring = u.measuring /\ y.multi = u.multi /\ y.session = u.session
        /\ y.measured = u.measured /\ y.toolLock = u.toolLock
        /\ y.graphs = u.graphs /\ y.full = u.full /\ y.rebuildDue = u.rebuildDue /\ y.missed = u.missed
        /\ y.momentDue = u.momentDue /\ y.legendDue = u.legendDue /\ y.legend = u.legend /\ y.blank = u.blank
        /\ y.moments = u.moments
    BY DEF Widgets
  <2>. HIDE DEF y
  <2> QED
    BY <1>1, <2>1, BesideOfFields
<1>3. x = WriteMouseMoment(y, env, place, traced)
  BY <1>1 DEF Trace
<1>. HIDE DEF y
<1>4. /\ Beside(y, x) /\ OnlyMoments(y, x)
      /\ MomentsHavePlaces(y) => MomentsHavePlaces(x)
      /\ place \in Places /\ Placed(traced, env) => Written(x.moments["mouse"], env, traced, place)
  BY <1>1, <1>3, MouseMomentIsWritten
<1>5. Beside(u, x)
  BY <1>2, <1>4, BesideIsTransitive
<1>6. /\ x.over = u.over /\ x.inArea = u.inArea /\ x.hovered = hovered /\ x.traced = traced
      /\ x.graphs = u.graphs /\ x \in Widgets
  BY <1>1, <1>4 DEF OnlyMoments, Beside
<1>7. ASSUME Placed(u.graphs, env)
      PROVE  MouseTells(x, env, place)
  <2>1. Written(x.moments["mouse"], env, traced, place)
    BY <1>4, <1>7 DEF Placed, Candidates
  <2>2. Candidates(x, place) = Candidates(u, place)
    BY <1>6 DEF Candidates
  <2>3. x.moments["mouse"].active \in BOOLEAN
    <3>1. x.moments \in MomentModels
      BY <1>6 DEF Widgets
    <3>2. x.moments["mouse"] \in MomentRecords
      BY <3>1 DEF MomentModels, MomentIds
    <3> QED
      BY <3>2 DEF MomentRecords
  <2>4. CASE ~SomeConvertible(traced, env)
    <3>1. SomeConvertible(traced, env) = FALSE
      BY <2>4 DEF SomeConvertible
    <3> QED
      BY <3>1, <1>6, <2>1, <2>2, <2>3, <2>4 DEF Written, MouseTells
  <2>5. CASE SomeConvertible(traced, env)
    <3>2. SomeConvertible(traced, env) = TRUE
      BY <2>5 DEF SomeConvertible
    <3>1. Names(x.moments["mouse"], traced, place)
      BY <2>1, <2>5 DEF Written
    <3> QED
      BY <1>6, <2>2, <2>3, <3>1, <3>2 DEF Names, MouseTells
  <2> QED
    BY <2>4, <2>5
<1> QED
  BY <1>2, <1>4, <1>5, <1>6, <1>7 DEF Redraws, Follows

LEMMA UpdateTracersDoes ==
  ASSUME IsPlot, NEW u \in Widgets, NEW env \in Environments, NEW place \in Places, u.inArea,
         NEW x, x = UpdateTracers(u, env, place)
  PROVE  Redraws(u, x, env, place)
<1>. DEFINE lock == IF u.toolLock # None THEN u.toolLock ELSE u.lock
            there == Candidates(u, place)
            target == Target(u, place)
<1>1. there \in SUBSET Sessions /\ target \in there \cup {None}
  BY TargetIsCandidate
<1>2. lock \in Someone /\ None \in Someone /\ target \in Someone
  <2>1. u.toolLock \in Someone /\ u.lock \in Someone
    BY DEF Widgets
  <2> QED
    BY <1>1, <2>1 DEF Someone
<1>3. x = IF lock # None THEN Trace(u, env, place, lock, there \cap {lock})
          ELSE IF "shift" \in env.keys THEN Trace(u, env, place, None, there)
          ELSE Trace(u, env, place, target, {target} \ {None})
  BY DEF UpdateTracers
<1>4. None \notin Sessions
  BY DEF IsPlot, None, Sessions
<1>. HIDE DEF lock, target
<1>5. PICK hovered \in Someone, traced \in SUBSET Sessions :
        /\ traced \subseteq there /\ (hovered # None => traced \subseteq {hovered})
        /\ x = Trace(u, env, place, hovered, traced)
  <2>1. CASE lock # None
    <3>1. there \cap {lock} \in SUBSET Sessions
      BY <1>1
    <3> QED
      BY <1>2, <1>3, <2>1, <3>1
  <2>2. CASE lock = None /\ "shift" \in env.keys
    BY <1>1, <1>2, <1>3, <2>2
  <2>3. CASE lock = None /\ "shift" \notin env.keys
    <3>1. {target} \ {None} \in SUBSET Sessions /\ {target} \ {None} \subseteq there
      BY <1>1
    <3> QED
      BY <1>2, <1>3, <2>3, <3>1
  <2> QED
    BY <2>1, <2>2, <2>3
<1>. HIDE DEF there
<1>6. traced \subseteq Candidates(u, place)
  BY <1>5 DEF there
<1> QED
  BY <1>5, <1>6, TraceDoes

\* The pointer is outside.
LEMMA LeftDoes ==
  ASSUME NEW u \in Widgets, NEW x, x = Left(u)
  PROVE  Follows(u, x) /\ x.over = FALSE /\ x.moments = u.moments
<1>1. x = [u EXCEPT !.traced = {}, !.cursor = None, !.over = FALSE, !.hovered = None]
  BY DEF Left, HideTracers, Widgets
<1>2. x \in Widgets /\ x.over = FALSE /\ x.inArea = u.inArea
  BY <1>1 DEF Widgets, Someone, Positions
<1>3. /\ x.tool = u.tool /\ x.measuring = u.measuring /\ x.multi = u.multi /\ x.session = u.session
      /\ x.measured = u.measured /\ x.toolLock = u.toolLock
      /\ x.graphs = u.graphs /\ x.full = u.full /\ x.rebuildDue = u.rebuildDue /\ x.missed = u.missed
      /\ x.momentDue = u.momentDue /\ x.legendDue = u.legendDue /\ x.legend = u.legend /\ x.blank = u.blank
      /\ x.moments = u.moments
  BY <1>1 DEF Widgets
<1> QED
  BY <1>2, <1>3, BesideOfFields DEF Follows

LEMMA UpdateIfOverDoes ==
  ASSUME IsPlot, NEW u \in Widgets, NEW env \in Environments, OverIsInside(u),
         NEW x, x = UpdateIfOverPlotArea(u, env)
  PROVE  /\ Follows(u, x)
         /\ x.over = (u.over /\ InPlot(env))
         /\ ~u.over => x = u
         /\ x.over /\ Placed(u.graphs, env) => MouseTells(x, env, env.pointer)
<1>0. u.over \in BOOLEAN /\ InPlot(env) \in BOOLEAN
  BY DEF Widgets, InPlot
<1>1. CASE ~u.over
  <2>1. x = u
    BY <1>1 DEF UpdateIfOverPlotArea
  <2> QED
    BY <1>0, <1>1, <2>1, BesideIsReflexive DEF Follows
<1>2. CASE u.over /\ ~InPlot(env)
  <2>1. x = Left(u)
    BY <1>2 DEF UpdateIfOverPlotArea, HandleMouseMove, InPlot
  <2> QED
    BY <1>2, <2>1, LeftDoes
<1>3. CASE u.over /\ InPlot(env)
  <2>1. x = UpdateTracers(u, env, env.pointer) /\ env.pointer \in Places /\ u.inArea
    BY <1>3 DEF UpdateIfOverPlotArea, InPlot, OverIsInside
  <2>2. PICK place \in Places : place = env.pointer
    BY <2>1
  <2>3. Redraws(u, x, env, place)
    BY <2>1, <2>2, UpdateTracersDoes
  <2> QED
    BY <1>0, <1>3, <2>2, <2>3 DEF Redraws
<1> QED
  BY <1>0, <1>1, <1>2, <1>3
------------------------------------------------------------------------------
(* What the parts of the invariant depend on                                 *)

All(u, env) == Drawn(u, env) /\ MeasureIsWhole(u) /\ LegendHears(u, env)

\* What can be converted and placed is as it was.
SameAxis(env, en2) == en2.referenced = env.referenced /\ en2.xVar = env.xVar /\ en2.relative = env.relative

LEMMA AxisIsKept ==
  ASSUME NEW env, NEW en2, SameAxis(env, en2)
  PROVE  /\ \A s : /\ Convertible(en2, s) = Convertible(env, s) /\ HasOffset(en2, s) = HasOffset(env, s)
                  /\ OnAxis(en2, s) = OnAxis(env, s) /\ HasX(en2, s) = HasX(env, s)
         /\ \A S : SomeConvertible(S, en2) = SomeConvertible(S, env)
  BY DEF SameAxis, Convertible, HasOffset, OnAxis, HasX, SomeConvertible

\* The sessions are as they were.
SameSessions(env, en2) ==
  /\ en2.status = env.status /\ en2.available = env.available
  /\ en2.enabled = env.enabled /\ SameAxis(env, en2)

\* So is the drawing.
SameDrawing(u, x) ==
  /\ x \in Widgets
  /\ x.over = u.over /\ x.inArea = u.inArea /\ x.hovered = u.hovered /\ x.traced = u.traced
  /\ x.cursor = u.cursor /\ x.graphs = u.graphs /\ x.missed = u.missed /\ x.full = u.full
  /\ x.rebuildDue = u.rebuildDue /\ x.momentDue = u.momentDue /\ x.moments = u.moments

\* The legend is told of what it shows.
LegendGoesOn(u, x) ==
  /\ x.measured = u.measured /\ x.legend = u.legend /\ x.blank = u.blank
  /\ u.legendDue => x.legendDue
  /\ x.moments = u.moments \/ x.legendDue

SameTool(u, x) ==
  x.tool = u.tool /\ x.measuring = u.measuring /\ x.multi = u.multi /\ x.session = u.session /\ x.toolLock = u.toolLock

LEMMA SessionsAreKept ==
  ASSUME NEW env, NEW en2, SameSessions(env, en2)
  PROVE  /\ Shown(en2) = Shown(env) /\ Loaded(en2) = Loaded(env) /\ Drawable(en2) = Drawable(env)
         /\ \A S : Placed(S, en2) = Placed(S, env)
<1>1. Shown(en2) = Shown(env) /\ Loaded(en2) = Loaded(env)
  BY DEF SameSessions, Shown, Loaded
<1>2. Drawable(en2) = Drawable(env)
  BY <1>1, AxisIsKept DEF SameSessions, Drawable
<1> QED
  BY <1>1, <1>2, AxisIsKept DEF SameSessions, Placed

LEMMA DrawableArePlaced ==
  ASSUME NEW env \in Environments
  PROVE  Drawable(env) \in SUBSET Sessions /\ Placed(Drawable(env), env)
<1>1. Shown(env) \subseteq Loaded(env)
  BY DEF Shown, Loaded
<1> QED
  BY <1>1 DEF Drawable, Placed, Shown

LEMMA GraphsArePlaced ==
  ASSUME NEW u \in Widgets, NEW env \in Environments, GraphsAreDrawable(u, env), ~u.rebuildDue
  PROVE  Placed(u.graphs, env)
<1>1. CASE u.graphs = {}
  BY <1>1 DEF Placed
<1>2. CASE u.graphs = Drawable(env)
  BY <1>2, DrawableArePlaced
<1> QED
  BY <1>1, <1>2 DEF GraphsAreDrawable

LEMMA ToolsAreWhole ==
  ASSUME NEW u, NEW x, LegendGoesOn(u, x)
  PROVE  /\ MeasureIsWhole(u) /\ SameTool(u, x) => MeasureIsWhole(x)
         /\ \A env, en2 : LegendHears(u, env) /\ Shown(en2) = Shown(env) /\ en2.enabled = env.enabled =>
              LegendHears(x, en2)
<1>1. MeasureIsWhole(u) /\ SameTool(u, x) => MeasureIsWhole(x)
  BY DEF LegendGoesOn, SameTool, MeasureIsWhole
<1>2. x.moments = u.moments => EffectiveMoment(x) = EffectiveMoment(u)
  BY DEF EffectiveMoment
<1>3. ASSUME NEW env, NEW en2, LegendHears(u, env), Shown(en2) = Shown(env), en2.enabled = env.enabled
      PROVE  LegendHears(x, en2)
  <2>1. CASE x.legendDue
    BY <2>1 DEF LegendHears
  <2>2. CASE ~x.legendDue
    <3>1. x.moments = u.moments /\ ~u.legendDue
      BY <2>2 DEF LegendGoesOn
    <3> QED
      BY <1>2, <1>3, <3>1 DEF LegendGoesOn, LegendHears
  <2> QED
    BY <2>1, <2>2
<1> QED
  BY <1>1, <1>3

LEMMA BesideIsWhole ==
  ASSUME NEW u, NEW x, Beside(u, x), MeasureIsWhole(u)
  PROVE  /\ MeasureIsWhole(x)
         /\ \A env, en2 : LegendHears(u, env) /\ SameSessions(env, en2) => LegendHears(x, en2)
<1>1. LegendGoesOn(u, x) /\ SameTool(u, x)
  BY DEF Beside, LegendGoesOn, SameTool
<1> QED
  BY <1>1, ToolsAreWhole, SessionsAreKept DEF SameSessions

\* What the cursor of the moments is depends on them, on what is drawn, on the
\* axis, and of a session that is drawn on whether it is loaded.
LEMMA CursorIsSame ==
  ASSUME NEW u \in Widgets, NEW x \in Widgets, NEW env \in Environments, NEW en2 \in Environments,
         x.moments = u.moments, x.graphs = u.graphs,
         Shown(en2) = Shown(env), SameAxis(env, en2),
         \A s \in u.graphs : s \in Loaded(en2) <=> s \in Loaded(env)
  PROVE  SameCursor(CursorOf(x, en2), CursorOf(u, env))
<1>. DEFINE id == EffectiveMoment(u)
            moment == u.moments[id]
            s == CHOOSE t \in moment.targets : TRUE
            one == Cardinality(moment.targets) = 1
<1>1. EffectiveMoment(x) = id
  BY DEF EffectiveMoment
<1>2. \A S, place : SameCursor(External(x, S, place), External(u, S, place))
  BY DEF External, Candidates, SameCursor, Widgets
<1>3. SameCursor(HideTracers(x), HideTracers(u))
  BY DEF HideTracers, SameCursor, Widgets
<1>4. CASE id = None
  <2>1. CursorOf(x, en2) = HideTracers(x) /\ CursorOf(u, env) = HideTracers(u)
    BY <1>1, <1>4 DEF CursorOf
  <2> QED
    BY <1>3, <2>1
<1>5. CASE id # None /\ id # "mouse"
  <2>1. { t \in Shown(en2) : OnAxis(en2, t) } = { t \in Shown(env) : OnAxis(env, t) }
    BY AxisIsKept
  <2>2. /\ CursorOf(x, en2) = External(x, { t \in Shown(env) : OnAxis(env, t) }, moment.position)
        /\ CursorOf(u, env) = External(u, { t \in Shown(env) : OnAxis(env, t) }, moment.position)
    BY <1>1, <1>5, <2>1 DEF CursorOf
  <2> QED
    BY <1>2, <2>2
<1>6. CASE id = "mouse"
  <2>0. id # None
    BY <1>6 DEF None
  <2>1. /\ CursorOf(x, en2) = IF one /\ s \in Loaded(en2) /\ OnAxis(env, s)
                              THEN External(x, {s}, At(moment, s)) ELSE HideTracers(x)
        /\ CursorOf(u, env) = IF one /\ s \in Loaded(env) /\ OnAxis(env, s)
                              THEN External(u, {s}, At(moment, s)) ELSE HideTracers(u)
    BY <1>1, <1>6, <2>0, AxisIsKept DEF CursorOf
  <2>. HIDE DEF s, moment, id, one
  <2>2. CASE s \in u.graphs
    <3>1. s \in Loaded(en2) <=> s \in Loaded(env)
      BY <2>2
    <3> QED
      BY <1>2, <1>3, <2>1, <3>1
  <2>3. CASE s \notin u.graphs
    <3>1. \A y \in Widgets : \A place : y.graphs = u.graphs =>
            External(y, {s}, place).traced = {} /\ External(y, {s}, place).cursor = None
      BY <2>3 DEF External, Candidates, Widgets
    <3>2. \A y \in Widgets : HideTracers(y).traced = {} /\ HideTracers(y).cursor = None
      BY DEF HideTracers, Widgets
    <3>3. CursorOf(x, en2).traced = {} /\ CursorOf(x, en2).cursor = None
      BY <2>1, <3>1, <3>2
    <3>4. CursorOf(u, env).traced = {} /\ CursorOf(u, env).cursor = None
      BY <2>1, <3>1, <3>2
    <3> QED
      BY <3>3, <3>4 DEF SameCursor
  <2> QED
    BY <2>2, <2>3
<1> QED
  BY <1>4, <1>5, <1>6

LEMMA CursorOfDoes ==
  ASSUME NEW u \in Widgets, NEW env \in Environments, NEW x, x = CursorOf(u, env)
  PROVE  Follows(u, x) /\ x.over = u.over /\ x.moments = u.moments
<1>. DEFINE Moves(y) == \E S \in SUBSET Sessions, c \in Positions : y = [u EXCEPT !.traced = S, !.cursor = c]
<1>0. None \in Positions
  BY DEF Positions
<1>1. Moves(HideTracers(u))
  BY <1>0 DEF HideTracers
<1>2. ASSUME NEW S, NEW place \in Positions
      PROVE  Moves(External(u, S, place))
  <2>1. S \cap Candidates(u, place) \in SUBSET Sessions
    BY DEF Candidates, Widgets
  <2> QED
    BY <1>0, <2>1 DEF External
<1>3. u.moments["mouse"] \in MomentRecords /\ u.moments["video"] \in MomentRecords
  <2>1. u.moments \in MomentModels
    BY DEF Widgets
  <2> QED
    BY <2>1 DEF MomentModels, MomentIds
<1>4. u.moments["video"].position \in Positions
  BY <1>3 DEF MomentRecords
<1>5. \A s : At(u.moments["mouse"], s) \in Positions
  BY <1>3, AtIsPosition
<1>. HIDE DEF Moves
<1>6. Moves(x)
  <2>1. EffectiveMoment(u) \in {"mouse", "video", None}
    BY DEF EffectiveMoment
  <2>2. CASE EffectiveMoment(u) = None
    BY <1>1, <2>2 DEF CursorOf
  <2>3. CASE EffectiveMoment(u) = "mouse"
    <3>1. "mouse" # None
      BY DEF None
    <3>2. \/ x = HideTracers(u)
          \/ \E s : x = External(u, {s}, At(u.moments["mouse"], s))
      BY <2>3, <3>1 DEF CursorOf
    <3> QED
      BY <1>1, <1>2, <1>5, <3>2
  <2>4. CASE EffectiveMoment(u) = "video"
    <3>1. "video" # None /\ "video" # "mouse"
      BY DEF None
    <3>2. \E S : x = External(u, S, u.moments["video"].position)
      BY <2>4, <3>1 DEF CursorOf
    <3> QED
      BY <1>2, <1>4, <3>2
  <2> QED
    BY <2>1, <2>2, <2>3, <2>4
<1>7. PICK S \in SUBSET Sessions, c \in Positions : x = [u EXCEPT !.traced = S, !.cursor = c]
  BY <1>6 DEF Moves
<1>8. x \in Widgets
  BY <1>7 DEF Widgets
<1>9. x.over = u.over /\ x.inArea = u.inArea
  BY <1>7 DEF Widgets
<1>10. /\ x.tool = u.tool /\ x.measuring = u.measuring /\ x.multi = u.multi /\ x.session = u.session
      /\ x.measured = u.measured /\ x.toolLock = u.toolLock
      /\ x.graphs = u.graphs /\ x.full = u.full /\ x.rebuildDue = u.rebuildDue /\ x.missed = u.missed
      /\ x.momentDue = u.momentDue /\ x.legendDue = u.legendDue /\ x.legend = u.legend /\ x.blank = u.blank
      /\ x.moments = u.moments
  BY <1>7 DEF Widgets
<1> QED
  BY <1>8, <1>9, <1>10, BesideOfFields DEF Follows

LEMMA DrawnIsKept ==
  ASSUME NEW u \in Widgets, NEW x \in Widgets, NEW env \in Environments, NEW en2 \in Environments,
         Drawn(u, env), SameDrawing(u, x), SameSessions(env, en2),
         en2.unseen \/ (en2.pointer = env.pointer /\ en2.unseen = env.unseen)
  PROVE  Drawn(x, en2)
<1>1. MomentsHavePlaces(x) /\ OverIsInside(x) /\ FullIsDue(x)
  BY DEF Drawn, SameDrawing, MomentsHavePlaces, OverIsInside, FullIsDue
<1>2. PointerIsKnown(x, en2)
  BY DEF Drawn, SameDrawing, PointerIsKnown, InPlot
<1>3. GraphsAreDrawable(x, en2)
  BY SessionsAreKept DEF Drawn, SameDrawing, GraphsAreDrawable
<1>4. TracedIsUnder(x, en2)
  BY AxisIsKept DEF Drawn, SameDrawing, SameSessions, TracedIsUnder, InPlot, MouseTells, Candidates
<1>5. CursorKept(x, en2)
  <2>1. SameCursor(CursorOf(x, en2), CursorOf(u, env))
    BY SessionsAreKept, CursorIsSame DEF SameDrawing, SameSessions
  <2> QED
    BY <2>1 DEF Drawn, SameDrawing, CursorKept, SameCursor
<1> QED
  BY <1>1, <1>2, <1>3, <1>4, <1>5 DEF Drawn
------------------------------------------------------------------------------
(* The actions: the pointer, the keyboard and the measure tool               *)

LEMMA EnvironmentIsTyped ==
  ASSUME NEW env \in Environments, NEW p \in Places \cup {"axis", "away"}, NEW b \in BOOLEAN,
         NEW keys \in SUBSET Keys,
         NEW en2, en2 = [env EXCEPT !.pointer = p, !.unseen = b, !.keys = keys]
  PROVE  /\ en2 \in Environments /\ SameSessions(env, en2)
         /\ en2.pointer = p /\ en2.unseen = b /\ en2.keys = keys
  BY DEF Environments, SameSessions, SameAxis

LEMMA OnlyPointerMoves ==
  ASSUME NEW u \in Widgets, NEW env \in Environments, All(u, env),
         NEW en2 \in Environments, SameSessions(env, en2),
         en2.unseen \/ (en2.pointer = env.pointer /\ en2.unseen = env.unseen)
  PROVE  All(u, en2)
<1>1. SameDrawing(u, u) /\ LegendGoesOn(u, u)
  BY DEF SameDrawing, LegendGoesOn
<1>2. Drawn(u, en2)
  BY <1>1, DrawnIsKept DEF All
<1>3. LegendHears(u, en2)
  BY <1>1, SessionsAreKept, ToolsAreWhole DEF All, SameSessions
<1> QED
  BY <1>2, <1>3 DEF All

LEMMA MousePressIsGood ==
  ASSUME NEW u \in Widgets, NEW env \in Environments, All(u, env), u.tool = "measure", ~u.measuring,
         NEW x, x = IF "shift" \in env.keys THEN [u EXCEPT !.measuring = TRUE, !.multi = TRUE, !.session = None]
                    ELSE [u EXCEPT !.measuring = TRUE, !.multi = FALSE, !.session = u.hovered, !.toolLock = u.hovered]
  PROVE  x \in Widgets /\ All(x, env)
<1>1. x \in Widgets
  BY DEF Widgets, Someone
<1>2. SameDrawing(u, x) /\ LegendGoesOn(u, x)
  BY <1>1 DEF SameDrawing, LegendGoesOn, Widgets
<1>3. SameSessions(env, env)
  BY DEF SameSessions, SameAxis
<1>4. Drawn(x, env)
  BY <1>1, <1>2, <1>3, DrawnIsKept DEF All
<1>5. LegendHears(x, env)
  BY <1>2, ToolsAreWhole DEF All
<1>6. MeasureIsWhole(x)
  <2>1. MeasureIsWhole(u) /\ u.toolLock = None /\ u.measured = "none"
    BY DEF All, MeasureIsWhole
  <2>2. x.tool = "measure" /\ x.measured = "none" /\ x.legend = u.legend /\ x.legendDue = u.legendDue
    BY <2>1 DEF Widgets
  <2>3. x.toolLock = IF x.measuring /\ ~x.multi THEN x.session ELSE None
    BY <2>1 DEF Widgets
  <2> QED
    BY <2>1, <2>2, <2>3 DEF MeasureIsWhole
<1> QED
  BY <1>1, <1>4, <1>5, <1>6 DEF All

\* The measure tool names what it measures; the legend is told when that changes.
OnlyMeasured(u, x) ==
  /\ SameDrawing(u, x) /\ SameTool(u, x)
  /\ x.legend = u.legend /\ x.blank = u.blank
  /\ x.legendDue \/ (x.measured = u.measured /\ ~u.legendDue)

LEMMA ClearMeasureDoes ==
  ASSUME NEW u \in Widgets, NEW x, x = ClearMeasure(u)
  PROVE  OnlyMeasured(u, x) /\ x.measured = "none"
<1>1. CASE u.measured = "none"
  <2>1. x = u
    BY <1>1 DEF ClearMeasure
  <2> QED
    BY <1>1, <2>1 DEF OnlyMeasured, SameDrawing, SameTool, Widgets
<1>2. CASE u.measured # "none"
  <2>1. x = [u EXCEPT !.measured = "none", !.legendDue = TRUE]
    BY <1>2 DEF ClearMeasure, ScheduleLegend, Widgets
  <2>2. x \in Widgets /\ x.measured = "none" /\ x.legendDue
    BY <2>1 DEF Widgets
  <2>3. SameDrawing(u, x) /\ SameTool(u, x) /\ x.legend = u.legend /\ x.blank = u.blank
    BY <2>1, <2>2 DEF Widgets, SameDrawing, SameTool
  <2> QED
    BY <2>2, <2>3 DEF OnlyMeasured
<1> QED
  BY <1>1, <1>2

LEMMA ToolMovesDoes ==
  ASSUME NEW u \in Widgets, NEW env, NEW sampled \in BOOLEAN, NEW x, x = ToolMoves(u, env, sampled)
  PROVE  OnlyMeasured(u, x) /\ (x.measured = u.measured \/ u.measuring)
<1>1. CASE x = u
  BY <1>1 DEF OnlyMeasured, SameDrawing, SameTool, Widgets
<1>2. CASE u.measuring /\ x = ClearMeasure(u)
  BY <1>2, ClearMeasureDoes
<1>3. CASE u.measuring /\ \E m \in {"single", "multi"} : x = ScheduleLegend([u EXCEPT !.measured = m])
  <2>1. PICK m \in {"single", "multi"} : x = [u EXCEPT !.measured = m, !.legendDue = TRUE]
    BY <1>3 DEF ScheduleLegend, Widgets
  <2>2. x \in Widgets /\ x.legendDue
    BY <2>1 DEF Widgets
  <2>3. SameDrawing(u, x) /\ SameTool(u, x) /\ x.legend = u.legend /\ x.blank = u.blank
    BY <2>1, <2>2 DEF Widgets, SameDrawing, SameTool
  <2> QED
    BY <1>3, <2>2, <2>3 DEF OnlyMeasured
<1>4. \/ x = u
      \/ u.measuring /\ x = ClearMeasure(u)
      \/ u.measuring /\ \E m \in {"single", "multi"} : x = ScheduleLegend([u EXCEPT !.measured = m])
  BY DEF ToolMoves, UpdateMeasurement
<1> QED
  BY <1>1, <1>2, <1>3, <1>4

LEMMA OnlyMeasuredIsGood ==
  ASSUME NEW u \in Widgets, NEW env \in Environments, Drawn(u, env), LegendHears(u, env),
         NEW x, OnlyMeasured(u, x)
  PROVE  x \in Widgets /\ Drawn(x, env) /\ LegendHears(x, env)
<1>1. x \in Widgets /\ SameDrawing(u, x) /\ SameSessions(env, env)
  BY DEF OnlyMeasured, SameDrawing, SameSessions, SameAxis
<1>2. Drawn(x, env)
  BY <1>1, DrawnIsKept
<1>3. LegendHears(x, env)
  <2>1. CASE x.legendDue
    BY <2>1 DEF LegendHears
  <2>2. CASE ~x.legendDue
    <3>1. LegendGoesOn(u, x)
      BY <2>2 DEF OnlyMeasured, LegendGoesOn, SameDrawing
    <3> QED
      BY <3>1, ToolsAreWhole
  <2> QED
    BY <2>1, <2>2
<1> QED
  BY <1>1, <1>2, <1>3

LEMMA ToolMovesIsGood ==
  ASSUME NEW u \in Widgets, NEW env \in Environments, All(u, env), NEW sampled \in BOOLEAN,
         NEW x, x = ToolMoves(u, env, sampled)
  PROVE  x \in Widgets /\ All(x, env)
<1>1. OnlyMeasured(u, x) /\ (x.measured = u.measured \/ u.measuring)
  BY ToolMovesDoes
<1>2. x \in Widgets /\ Drawn(x, env) /\ LegendHears(x, env)
  BY <1>1, OnlyMeasuredIsGood DEF All
<1>3. MeasureIsWhole(x)
  BY <1>1 DEF All, MeasureIsWhole, OnlyMeasured, SameTool
<1> QED
  BY <1>2, <1>3 DEF All

LEMMA StopIsGood ==
  ASSUME NEW u \in Widgets, NEW env \in Environments, All(u, env),
         NEW x, x = ClearMeasure(StopMeasuring(u))
  PROVE  x \in Widgets /\ All(x, env) /\ ~x.measuring
<1>. DEFINE y == StopMeasuring(u)
<1>1. y = [u EXCEPT !.measuring = FALSE, !.multi = FALSE, !.toolLock = None]
  BY DEF StopMeasuring
<1>2. y \in Widgets /\ ~y.measuring /\ ~y.multi /\ y.toolLock = None
  BY <1>1 DEF Widgets, Someone
<1>3. SameDrawing(u, y) /\ LegendGoesOn(u, y) /\ y.legendDue = u.legendDue
  BY <1>1, <1>2 DEF Widgets, SameDrawing, LegendGoesOn
<1>4. SameSessions(env, env)
  BY DEF SameSessions, SameAxis
<1>. HIDE DEF y
<1>5. Drawn(y, env) /\ LegendHears(y, env)
  BY <1>2, <1>3, <1>4, DrawnIsKept, ToolsAreWhole DEF All
<1>6. OnlyMeasured(y, x) /\ x.measured = "none"
  BY <1>2, ClearMeasureDoes DEF y
<1>7. x \in Widgets /\ Drawn(x, env) /\ LegendHears(x, env)
  BY <1>2, <1>5, <1>6, OnlyMeasuredIsGood
<1>8. ~x.measuring /\ x.toolLock = None
  BY <1>2, <1>6 DEF OnlyMeasured, SameTool
<1>9. ~x.legendDue => (x.legend.mode \in {"single", "multi"}) = (x.measured # "none")
  BY <1>3, <1>6 DEF All, MeasureIsWhole, OnlyMeasured, LegendGoesOn
<1>10. MeasureIsWhole(x)
  BY <1>6, <1>8, <1>9 DEF MeasureIsWhole
<1> QED
  BY <1>7, <1>8, <1>10 DEF All

LEMMA SetToolIsGood ==
  ASSUME NEW u \in Widgets, NEW env \in Environments, All(u, env), NEW t \in {"pan", "measure"}, t # u.tool,
         NEW x, x = [IF u.tool = "measure" THEN CloseTool(u) ELSE u EXCEPT !.tool = t]
  PROVE  x \in Widgets /\ All(x, env)
<1>. DEFINE y == IF u.tool = "measure" THEN CloseTool(u) ELSE u
<1>1. y \in Widgets /\ All(y, env) /\ ~y.measuring
  <2>1. CASE u.measuring
    <3>1. u.tool = "measure"
      BY <2>1 DEF All, MeasureIsWhole
    <3>2. y = ClearMeasure(StopMeasuring(u))
      BY <2>1, <3>1 DEF CloseTool
    <3> QED
      BY <3>2, StopIsGood
  <2>2. CASE ~u.measuring
    <3>1. u.measured = "none"
      BY <2>2 DEF All, MeasureIsWhole
    <3>2. y = u
      BY <2>2, <3>1 DEF CloseTool, ClearMeasure
    <3> QED
      BY <2>2, <3>2
  <2> QED
    BY <2>1, <2>2
<1>2. x = [y EXCEPT !.tool = t]
  OBVIOUS
<1>. HIDE DEF y
<1>3. x \in Widgets /\ x.toolLock = y.toolLock /\ x.measuring = y.measuring /\ x.legendDue = y.legendDue
  BY <1>1, <1>2 DEF Widgets
<1>4. SameDrawing(y, x) /\ LegendGoesOn(y, x)
  BY <1>1, <1>2, <1>3 DEF Widgets, SameDrawing, LegendGoesOn
<1>5. SameSessions(env, env)
  BY DEF SameSessions, SameAxis
<1>6. Drawn(x, env) /\ LegendHears(x, env)
  BY <1>1, <1>3, <1>4, <1>5, DrawnIsKept, ToolsAreWhole DEF All
<1>7. MeasureIsWhole(x)
  BY <1>1, <1>3, <1>4 DEF All, MeasureIsWhole, LegendGoesOn
<1> QED
  BY <1>3, <1>6, <1>7 DEF All
------------------------------------------------------------------------------
(* The actions: the other views                                              *)

LEMMA MomentsMayMove ==
  ASSUME NEW u \in Widgets, NEW env \in Environments, All(u, env), NEW ms \in MomentModels,
         ms["mouse"] = u.moments["mouse"] \/ (~env.unseen /\ ~InPlot(env)),
         ms["mouse"].active => ms["mouse"].position \in Places,
         ms["video"].active => ms["video"].position \in Places,
         NEW x, x = MomentsTo(u, ms)
  PROVE  x \in Widgets /\ All(x, env)
<1>1. Beside(u, x) /\ OnlyMoments(u, x) /\ x.moments = ms
  BY MomentsToDoes
<1>2. x \in Widgets /\ SameSessions(env, env)
  BY <1>1 DEF Beside, SameSessions, SameAxis
<1>3. MeasureIsWhole(x) /\ LegendHears(x, env)
  BY <1>1, <1>2, BesideIsWhole DEF All
<1>4. CASE ms = u.moments
  <2>1. x = u
    BY <1>4 DEF MomentsTo
  <2> QED
    BY <1>2, <2>1
<1>5. CASE ms # u.moments
  <2>1. x.momentDue \/ x.missed
    BY <1>1, <1>5 DEF Beside
  <2>2. CursorKept(x, env)
    BY <2>1 DEF CursorKept
  <2>3. MomentsHavePlaces(x) /\ OverIsInside(x) /\ FullIsDue(x) /\ PointerIsKnown(x, env) /\ GraphsAreDrawable(x, env)
    BY <1>1 DEF All, Drawn, Beside, OnlyMoments, MomentsHavePlaces, OverIsInside, FullIsDue, PointerIsKnown,
                GraphsAreDrawable
  <2>4. TracedIsUnder(x, env)
    BY <1>1 DEF All, Drawn, Beside, OnlyMoments, TracedIsUnder, MouseTells, Candidates
  <2> QED
    BY <1>2, <1>3, <2>2, <2>3, <2>4 DEF All, Drawn
<1> QED
  BY <1>4, <1>5

LEMMA HoveredMayChange ==
  ASSUME NEW u \in Widgets, NEW env \in Environments, All(u, env), ~env.unseen, ~InPlot(env),
         NEW s \in Someone, NEW x, x = [u EXCEPT !.hovered = s]
  PROVE  x \in Widgets /\ All(x, env)
<1>1. x \in Widgets
  BY DEF Widgets
<1>2. /\ x.over = u.over /\ x.inArea = u.inArea /\ x.traced = u.traced
      /\ x.cursor = u.cursor /\ x.graphs = u.graphs /\ x.missed = u.missed /\ x.full = u.full
      /\ x.rebuildDue = u.rebuildDue /\ x.momentDue = u.momentDue /\ x.moments = u.moments
      /\ x.legendDue = u.legendDue
  BY DEF Widgets
<1>3. LegendGoesOn(u, x) /\ SameTool(u, x)
  BY <1>2 DEF LegendGoesOn, SameTool, Widgets
<1>4. MeasureIsWhole(x) /\ LegendHears(x, env)
  BY <1>3, ToolsAreWhole DEF All
<1>5. SameCursor(CursorOf(x, env), CursorOf(u, env))
  <2>1. SameAxis(env, env)
    BY DEF SameAxis
  <2> QED
    BY <1>1, <1>2, <2>1, CursorIsSame
<1>6. CursorKept(x, env)
  BY <1>2, <1>5 DEF All, Drawn, CursorKept, SameCursor
<1>7. MomentsHavePlaces(x) /\ OverIsInside(x) /\ FullIsDue(x) /\ PointerIsKnown(x, env) /\ GraphsAreDrawable(x, env)
  BY <1>2 DEF All, Drawn, MomentsHavePlaces, OverIsInside, FullIsDue, PointerIsKnown, GraphsAreDrawable
<1>8. TracedIsUnder(x, env)
  BY DEF TracedIsUnder
<1> QED
  BY <1>1, <1>4, <1>6, <1>7, <1>8 DEF All, Drawn

LEMMA MapHoverIsGood ==
  ASSUME NEW u \in Widgets, NEW env \in Environments, All(u, env), env.pointer = "away", "away" \notin Places, ~env.unseen,
         NEW s \in Sessions, NEW place \in Places,
         NEW x, x = [MomentsTo(u, SetMomentPosition(u.moments, "mouse", place, {s}, TRUE)) EXCEPT !.hovered = s]
  PROVE  x \in Widgets /\ All(x, env)
<1>. DEFINE ms == SetMomentPosition(u.moments, "mouse", place, {s}, TRUE)
            y == MomentsTo(u, ms)
<1>1. u.moments \in MomentModels /\ MomentsHavePlaces(u)
  BY DEF Widgets, All, Drawn
<1>2. MouseSet(u.moments, ms) /\ On(ms["mouse"], place)
  <2>1. {s} \in SUBSET Sessions
    OBVIOUS
  <2> QED
    BY <1>1, <2>1, MouseIsPlaced
<1>. HIDE DEF ms
<1>3. ms \in MomentModels /\ (ms["mouse"].active => ms["mouse"].position \in Places)
      /\ (ms["video"].active => ms["video"].position \in Places)
  BY <1>1, <1>2 DEF MouseSet, On, MomentsHavePlaces
<1>4. ~InPlot(env)
  BY DEF InPlot
<1>5. y \in Widgets /\ All(y, env)
  BY <1>3, <1>4, MomentsMayMove
<1>6. x = [y EXCEPT !.hovered = s] /\ s \in Someone
  BY DEF ms, Someone
<1>. HIDE DEF y
<1> QED
  BY <1>4, <1>5, <1>6, HoveredMayChange

LEMMA ClearMapHoverIsGood ==
  ASSUME NEW u \in Widgets, NEW env \in Environments, All(u, env), env.pointer = "away", "away" \notin Places, ~env.unseen,
         NEW x, x = [MomentsTo(u, SetMomentPosition(u.moments, "mouse", NoTime, {}, FALSE)) EXCEPT !.hovered = None]
  PROVE  x \in Widgets /\ All(x, env)
<1>. DEFINE ms == SetMomentPosition(u.moments, "mouse", NoTime, {}, FALSE)
            y == MomentsTo(u, ms)
<1>1. u.moments \in MomentModels /\ MomentsHavePlaces(u)
  BY DEF Widgets, All, Drawn
<1>2. MouseSet(u.moments, ms) /\ ~ms["mouse"].active
  BY <1>1, MouseIsCleared
<1>. HIDE DEF ms
<1>3. ms \in MomentModels /\ (ms["mouse"].active => ms["mouse"].position \in Places)
      /\ (ms["video"].active => ms["video"].position \in Places)
  BY <1>1, <1>2 DEF MouseSet, MomentsHavePlaces
<1>4. ~InPlot(env)
  BY DEF InPlot
<1>5. y \in Widgets /\ All(y, env)
  BY <1>3, <1>4, MomentsMayMove
<1>6. x = [y EXCEPT !.hovered = None] /\ None \in Someone
  BY DEF ms, Someone
<1>. HIDE DEF y
<1> QED
  BY <1>4, <1>5, <1>6, HoveredMayChange

LEMMA VideoMoveIsGood ==
  ASSUME NEW u \in Widgets, NEW env \in Environments, All(u, env), NEW place \in Places \cup {None},
         NEW x, x = MomentsTo(u, IF place = None THEN SetMomentActive(u.moments, "video", FALSE)
                                 ELSE SetMomentPosition(u.moments, "video", place, {}, TRUE))
  PROVE  x \in Widgets /\ All(x, env)
<1>. DEFINE on == SetMomentPosition(u.moments, "video", place, {}, TRUE)
            off == SetMomentActive(u.moments, "video", FALSE)
<1>1. u.moments \in MomentModels /\ MomentsHavePlaces(u)
  BY DEF Widgets, All, Drawn
<1>2. VideoSet(u.moments, off) /\ ~off["video"].active
  BY <1>1, VideoIsCleared
<1>3. place # None => VideoSet(u.moments, on) /\ On(on["video"], place) /\ place \in Places
  BY <1>1, VideoIsPlaced
<1>4. PICK ms : x = MomentsTo(u, ms) /\ ms = IF place = None THEN off ELSE on
  OBVIOUS
<1>. HIDE DEF on, off
<1>5. VideoSet(u.moments, ms) /\ (ms["video"].active => ms["video"].position \in Places)
  BY <1>2, <1>3, <1>4 DEF On
<1>6. ms \in MomentModels /\ ms["mouse"] = u.moments["mouse"] /\ (ms["mouse"].active => ms["mouse"].position \in Places)
  BY <1>1, <1>5 DEF VideoSet, MomentsHavePlaces
<1> QED
  BY <1>4, <1>5, <1>6, MomentsMayMove
------------------------------------------------------------------------------
(* The actions: the sessions and the settings                                *)

\* A redraw is scheduled, and the legend is told unless it need not be.
LEMMA RebuildIsGood ==
  ASSUME NEW u \in Widgets, NEW env \in Environments, All(u, env),
         NEW en2 \in Environments, en2.pointer = env.pointer, en2.unseen = env.unseen,
         NEW x \in Widgets, x.rebuildDue, x.over = u.over, x.inArea = u.inArea, x.moments = u.moments,
         LegendGoesOn(u, x), SameTool(u, x),
         x.legendDue \/ (Shown(en2) = Shown(env) /\ en2.enabled = env.enabled)
  PROVE  All(x, en2)
<1>1. MeasureIsWhole(x)
  BY ToolsAreWhole DEF All
<1>2. LegendHears(x, en2)
  <2>1. CASE x.legendDue
    BY <2>1 DEF LegendHears
  <2>2. CASE ~x.legendDue
    BY <2>2, ToolsAreWhole DEF All
  <2> QED
    BY <2>1, <2>2
<1>3. MomentsHavePlaces(x) /\ OverIsInside(x) /\ FullIsDue(x) /\ PointerIsKnown(x, en2)
  BY DEF All, Drawn, MomentsHavePlaces, OverIsInside, FullIsDue, PointerIsKnown, InPlot
<1>4. GraphsAreDrawable(x, en2) /\ TracedIsUnder(x, en2) /\ CursorKept(x, en2)
  BY DEF GraphsAreDrawable, TracedIsUnder, CursorKept
<1> QED
  BY <1>1, <1>2, <1>3, <1>4 DEF All, Drawn

LEMMA ModelChangedIsGood ==
  ASSUME NEW u \in Widgets, NEW env \in Environments, All(u, env),
         NEW en2 \in Environments, en2.pointer = env.pointer, en2.unseen = env.unseen,
         NEW x, x = ScheduleLegend(SchedulePlotRebuild(u))
  PROVE  x \in Widgets /\ All(x, en2)
<1>1. x = [u EXCEPT !.full = TRUE, !.rebuildDue = TRUE, !.legendDue = TRUE]
  BY DEF ScheduleLegend, SchedulePlotRebuild, Widgets
<1>2. x \in Widgets /\ x.rebuildDue /\ x.legendDue
  BY <1>1 DEF Widgets
<1>3. x.over = u.over /\ x.inArea = u.inArea /\ x.moments = u.moments /\ LegendGoesOn(u, x) /\ SameTool(u, x)
  BY <1>1, <1>2 DEF Widgets, LegendGoesOn, SameTool
<1> QED
  BY <1>2, <1>3, RebuildIsGood

\* The moment model is told: the cursor and the legend will be looked at again.
Told(u) == ScheduleMomentUpdate(ScheduleLegend(u))

LEMMA ToldDoes ==
  ASSUME NEW u \in Widgets, NEW x, x = Told(u)
  PROVE  /\ x \in Widgets /\ x.legendDue /\ (x.momentDue \/ x.missed)
         /\ x.over = u.over /\ x.inArea = u.inArea /\ x.moments = u.moments
         /\ x.hovered = u.hovered /\ x.traced = u.traced /\ x.graphs = u.graphs
         /\ x.full = u.full /\ x.rebuildDue = u.rebuildDue
         /\ LegendGoesOn(u, x) /\ SameTool(u, x)
<1>. DEFINE y == ScheduleLegend(u)
<1>1. /\ y \in Widgets /\ y.legendDue /\ y.over = u.over /\ y.inArea = u.inArea /\ y.moments = u.moments
      /\ y.hovered = u.hovered /\ y.traced = u.traced /\ y.graphs = u.graphs
      /\ y.full = u.full /\ y.rebuildDue = u.rebuildDue
  BY DEF ScheduleLegend, Widgets
<1>2. LegendGoesOn(u, y) /\ SameTool(u, y)
  BY <1>1 DEF ScheduleLegend, Widgets, LegendGoesOn, SameTool
<1>3. x = ScheduleMomentUpdate(y)
  BY DEF Told
<1>. HIDE DEF y
<1>4. /\ Beside(y, x) /\ OnlyMoments(y, x) /\ x.moments = y.moments /\ (x.momentDue \/ x.missed)
      /\ x.legendDue = y.legendDue
  BY <1>1, <1>3, MomentUpdateIsScheduled
<1> QED
  BY <1>1, <1>2, <1>4 DEF Beside, OnlyMoments, LegendGoesOn, SameTool

\* On an axis that is not relative to the reference nothing is drawn again.
LEMMA ToldIsGood ==
  ASSUME NEW u \in Widgets, NEW env \in Environments, All(u, env),
         NEW en2 \in Environments, en2.pointer = env.pointer, en2.unseen = env.unseen,
         Drawable(en2) = Drawable(env), en2.xVar = env.xVar,
         NEW x, x = Told(u)
  PROVE  x \in Widgets /\ All(x, en2)
<1>1. /\ x \in Widgets /\ x.legendDue /\ (x.momentDue \/ x.missed)
      /\ x.over = u.over /\ x.inArea = u.inArea /\ x.moments = u.moments
      /\ x.hovered = u.hovered /\ x.traced = u.traced /\ x.graphs = u.graphs
      /\ x.full = u.full /\ x.rebuildDue = u.rebuildDue
      /\ LegendGoesOn(u, x) /\ SameTool(u, x)
  BY ToldDoes
<1>2. MeasureIsWhole(x) /\ LegendHears(x, en2)
  BY <1>1, ToolsAreWhole DEF All, LegendHears
<1>3. MomentsHavePlaces(x) /\ OverIsInside(x) /\ FullIsDue(x) /\ PointerIsKnown(x, en2)
  BY <1>1 DEF All, Drawn, MomentsHavePlaces, OverIsInside, FullIsDue, PointerIsKnown, InPlot
<1>4. GraphsAreDrawable(x, en2) /\ CursorKept(x, en2)
  BY <1>1 DEF All, Drawn, GraphsAreDrawable, CursorKept
<1>5. TracedIsUnder(x, en2)
  BY <1>1 DEF All, Drawn, TracedIsUnder, InPlot, MouseTells, Candidates, SomeConvertible, Convertible
<1> QED
  BY <1>1, <1>2, <1>3, <1>4, <1>5 DEF All, Drawn

LEMMA ReferenceIsGood ==
  ASSUME NEW u \in Widgets, NEW env \in Environments, All(u, env), NEW s \in Sessions,
         NEW en2, en2 = [env EXCEPT !.referenced[s] = ~@],
         NEW x, x = IF env.relative THEN SchedulePlotRebuild(Told(u)) ELSE Told(u)
  PROVE  en2 \in Environments /\ x \in Widgets /\ All(x, en2)
<1>. DEFINE z == Told(u)
<1>1. /\ en2 \in Environments /\ en2.pointer = env.pointer /\ en2.unseen = env.unseen
      /\ en2.status = env.status /\ en2.available = env.available /\ en2.enabled = env.enabled
      /\ en2.xVar = env.xVar /\ en2.relative = env.relative
  BY DEF Environments
<1>2. CASE ~env.relative
  <2>1. Drawable(en2) = Drawable(env)
    BY <1>1, <1>2 DEF Drawable, Shown, HasOffset, HasX
  <2> QED
    BY <1>1, <1>2, <2>1, ToldIsGood
<1>3. CASE env.relative
  <2>1. /\ z \in Widgets /\ z.legendDue
        /\ z.over = u.over /\ z.inArea = u.inArea /\ z.moments = u.moments
        /\ LegendGoesOn(u, z) /\ SameTool(u, z)
    BY ToldDoes
  <2>2. x = [z EXCEPT !.full = TRUE, !.rebuildDue = TRUE]
    BY <1>3 DEF SchedulePlotRebuild
  <2>. HIDE DEF z
  <2>3. /\ x \in Widgets /\ x.rebuildDue = TRUE /\ x.legendDue = z.legendDue
        /\ x.over = z.over /\ x.inArea = z.inArea /\ x.moments = z.moments
        /\ x.measured = z.measured /\ x.legend = z.legend /\ x.blank = z.blank
    BY <2>1, <2>2 DEF Widgets
  <2>4. SameTool(z, x)
    BY <2>1, <2>2 DEF Widgets, SameTool
  <2>5. LegendGoesOn(u, x) /\ SameTool(u, x)
    BY <2>1, <2>3, <2>4 DEF LegendGoesOn, SameTool
  <2> QED
    BY <1>1, <2>1, <2>3, <2>5, RebuildIsGood
<1> QED
  BY <1>2, <1>3

\* Nobody is told, and nothing that is drawn depends on it.
LEMMA UnnoticedIsGood ==
  ASSUME NEW u \in Widgets, NEW env \in Environments, All(u, env),
         NEW en2 \in Environments, en2.pointer = env.pointer, en2.unseen = env.unseen,
         Shown(en2) = Shown(env), SameAxis(env, en2), en2.enabled = env.enabled,
         ~u.rebuildDue => /\ u.graphs \in {Drawable(en2), {}}
                          /\ \A s \in u.graphs : s \in Loaded(en2) <=> s \in Loaded(env)
  PROVE  All(u, en2)
<1>1. LegendGoesOn(u, u)
  BY DEF LegendGoesOn
<1>2. LegendHears(u, en2)
  BY <1>1, ToolsAreWhole DEF All
<1>3. PointerIsKnown(u, en2) /\ GraphsAreDrawable(u, en2) /\ TracedIsUnder(u, en2)
  BY AxisIsKept DEF All, Drawn, PointerIsKnown, GraphsAreDrawable, TracedIsUnder, MouseTells, InPlot
<1>4. CursorKept(u, en2)
  <2>1. ~u.rebuildDue => SameCursor(CursorOf(u, en2), CursorOf(u, env))
    BY CursorIsSame
  <2> QED
    BY <2>1 DEF All, Drawn, CursorKept, SameCursor
<1> QED
  BY <1>2, <1>3, <1>4 DEF All, Drawn

LEMMA EvictIsGood ==
  ASSUME NEW u \in Widgets, NEW env \in Environments, All(u, env), NEW s \in Sessions, env.status[s] = "hidden",
         NEW en2, en2 = [env EXCEPT !.status[s] = "stub"]
  PROVE  en2 \in Environments /\ All(u, en2)
<1>1. en2 \in Environments
  BY DEF Environments
<1>2. /\ en2.pointer = env.pointer /\ en2.unseen = env.unseen /\ SameAxis(env, en2)
      /\ en2.enabled = env.enabled /\ en2.available = env.available
      /\ en2.status = [env.status EXCEPT ![s] = "stub"]
  BY DEF Environments, SameAxis
<1>3. env.status \in [Sessions -> {"shown", "hidden", "stub"}]
  BY DEF Environments
<1>4. Shown(en2) = Shown(env)
  BY <1>2, <1>3 DEF Shown
<1>5. \A t \in Shown(env) : t \in Loaded(en2) <=> t \in Loaded(env)
  BY <1>2, <1>3 DEF Shown, Loaded
<1>6. Drawable(en2) = Drawable(env) /\ Drawable(env) \subseteq Shown(env)
  <2>1. \A t : HasOffset(en2, t) = HasOffset(env, t) /\ HasX(en2, t) = HasX(env, t)
    BY <1>2, AxisIsKept
  <2> QED
    BY <1>2, <1>4, <2>1 DEF Drawable
<1>7. ~u.rebuildDue => /\ u.graphs \in {Drawable(en2), {}}
                       /\ \A t \in u.graphs : t \in Loaded(en2) <=> t \in Loaded(env)
  BY <1>5, <1>6 DEF All, Drawn, GraphsAreDrawable
<1> QED
  BY <1>1, <1>2, <1>4, <1>7, UnnoticedIsGood

LEMMA EditInputIsGood ==
  ASSUME NEW u \in Widgets, NEW env \in Environments, All(u, env), NEW s \in Sessions,
         NEW en2, en2 = [env EXCEPT !.available[s] = ~@], NEW x, x = OnDependencyChanged(u, env)
  PROVE  en2 \in Environments /\ x \in Widgets /\ All(x, en2)
<1>1. en2 \in Environments
  BY DEF Environments
<1>2. /\ en2.pointer = env.pointer /\ en2.unseen = env.unseen /\ SameAxis(env, en2)
      /\ en2.enabled = env.enabled /\ en2.status = env.status
  BY DEF Environments, SameAxis
<1>3. Shown(en2) = Shown(env) /\ Loaded(en2) = Loaded(env)
  BY <1>2 DEF Shown, Loaded
<1>4. CASE u.graphs = {}
  <2>1. x = u
    BY <1>4 DEF OnDependencyChanged
  <2> QED
    BY <1>1, <1>2, <1>3, <1>4, <2>1, UnnoticedIsGood
<1>5. CASE u.graphs # {}
  <2>1. x = [u EXCEPT !.full = TRUE, !.rebuildDue = TRUE]
    BY <1>5 DEF OnDependencyChanged, SchedulePlotRebuild
  <2>2. x \in Widgets /\ x.rebuildDue
    BY <2>1 DEF Widgets
  <2>3. x.over = u.over /\ x.inArea = u.inArea /\ x.moments = u.moments /\ LegendGoesOn(u, x) /\ SameTool(u, x)
    BY <2>1, <2>2 DEF Widgets, LegendGoesOn, SameTool
  <2> QED
    BY <1>1, <1>2, <1>3, <2>2, <2>3, RebuildIsGood
<1> QED
  BY <1>4, <1>5
------------------------------------------------------------------------------
(* The actions: drawing                                                      *)

\* A redraw draws what can be drawn, and with it the crosshair.
LEMMA UpdatePlotDoes ==
  ASSUME IsPlot, NEW u \in Widgets, NEW env \in Environments, MomentsHavePlaces(u), OverIsInside(u),
         PointerIsKnown(u, env), MeasureIsWhole(u), NEW x, x = UpdatePlot(u, env)
  PROVE  x \in Widgets /\ Drawn(x, env) /\ MeasureIsWhole(x) /\ (LegendHears(u, env) => LegendHears(x, env))
<1>. DEFINE y == [u EXCEPT !.full = FALSE, !.graphs = Drawable(env), !.missed = TRUE]
<1>1. Drawable(env) \in SUBSET Sessions /\ Placed(Drawable(env), env)
  BY DrawableArePlaced
<1>2. y \in Widgets /\ ~y.full /\ y.graphs = Drawable(env) /\ y.missed
  BY <1>1 DEF Widgets
<1>3. y.over = u.over /\ y.inArea = u.inArea /\ y.moments = u.moments /\ LegendGoesOn(u, y) /\ SameTool(u, y)
  BY <1>2 DEF Widgets, LegendGoesOn, SameTool
<1>4. x = UpdateIfOverPlotArea(y, env)
  BY DEF UpdatePlot, RangeChanged
<1>. HIDE DEF y
<1>5. MomentsHavePlaces(y) /\ OverIsInside(y) /\ MeasureIsWhole(y)
  BY <1>3, ToolsAreWhole DEF MomentsHavePlaces, OverIsInside
<1>6. /\ Follows(y, x) /\ x.over = (y.over /\ InPlot(env))
      /\ x.over /\ Placed(y.graphs, env) => MouseTells(x, env, env.pointer)
  BY <1>2, <1>4, <1>5, UpdateIfOverDoes
<1>7. /\ Beside(y, x) /\ x.inArea = u.inArea /\ x.over = (u.over /\ InPlot(env)) /\ MomentsHavePlaces(x)
      /\ x.graphs = Drawable(env) /\ x.missed /\ ~x.full /\ x \in Widgets
  BY <1>2, <1>3, <1>5, <1>6 DEF Follows, Beside
<1>8. x.over => MouseTells(x, env, env.pointer)
  BY <1>1, <1>2, <1>6
<1>9. OverIsInside(x) /\ FullIsDue(x) /\ PointerIsKnown(x, env)
  <2>1. u.over \in BOOLEAN /\ u.inArea \in BOOLEAN /\ InPlot(env) \in BOOLEAN
    BY DEF Widgets, InPlot
  <2> QED
    BY <1>7, <2>1 DEF OverIsInside, FullIsDue, PointerIsKnown
<1>10. GraphsAreDrawable(x, env) /\ CursorKept(x, env)
  BY <1>7 DEF GraphsAreDrawable, CursorKept
<1>11. TracedIsUnder(x, env)
  BY <1>7, <1>8 DEF PointerIsKnown, TracedIsUnder
<1>12. MeasureIsWhole(x) /\ (LegendHears(y, env) => LegendHears(x, env))
  <2>1. SameSessions(env, env)
    BY DEF SameSessions, SameAxis
  <2> QED
    BY <1>5, <1>7, <2>1, BesideIsWhole
<1>13. LegendHears(u, env) => LegendHears(y, env)
  BY <1>3, ToolsAreWhole
<1> QED
  BY <1>7, <1>9, <1>10, <1>11, <1>12, <1>13 DEF Drawn

\* A redraw with other settings, of which the legend is told.
LEMMA RedrawIsGood ==
  ASSUME IsPlot, NEW u \in Widgets, NEW env \in Environments, All(u, env),
         NEW en2 \in Environments, InPlot(en2) = InPlot(env), en2.unseen = env.unseen,
         NEW x, x = ScheduleLegend(UpdatePlot(u, en2))
  PROVE  x \in Widgets /\ All(x, en2)
<1>. DEFINE y == UpdatePlot(u, en2)
<1>1. MomentsHavePlaces(u) /\ OverIsInside(u) /\ PointerIsKnown(u, en2) /\ MeasureIsWhole(u)
  BY DEF All, Drawn, PointerIsKnown
<1>2. y \in Widgets /\ Drawn(y, en2) /\ MeasureIsWhole(y)
  BY <1>1, UpdatePlotDoes
<1>. HIDE DEF y
<1>3. x = [y EXCEPT !.legendDue = TRUE]
  BY DEF ScheduleLegend, y
<1>4. x \in Widgets /\ x.legendDue
  BY <1>2, <1>3 DEF Widgets
<1>5. SameDrawing(y, x) /\ LegendGoesOn(y, x) /\ SameTool(y, x)
  BY <1>2, <1>3, <1>4 DEF Widgets, SameDrawing, LegendGoesOn, SameTool
<1>6. SameSessions(en2, en2)
  BY DEF SameSessions, SameAxis
<1>7. Drawn(x, en2) /\ MeasureIsWhole(x)
  BY <1>2, <1>4, <1>5, <1>6, DrawnIsKept, ToolsAreWhole
<1>8. LegendHears(x, en2)
  BY <1>4 DEF LegendHears
<1> QED
  BY <1>4, <1>7, <1>8 DEF All

LEMMA TogglePlotIsGood ==
  ASSUME IsPlot, NEW u \in Widgets, NEW env \in Environments, All(u, env),
         NEW en2, en2 = [env EXCEPT !.enabled = ~@], NEW x, x = ScheduleLegend(UpdatePlot(u, en2))
  PROVE  en2 \in Environments /\ x \in Widgets /\ All(x, en2)
<1>1. en2 \in Environments /\ en2.pointer = env.pointer /\ en2.unseen = env.unseen
  BY DEF Environments
<1> QED
  BY <1>1, RedrawIsGood DEF InPlot

\* With another axis another place may be under the pointer, but it stays in
\* the plot or out of it.
LEMMA OtherAxisDoes ==
  ASSUME NEW env \in Environments, NEW place \in Places, NEW en2, en2 = OtherAxis(env, place)
  PROVE  en2 \in Environments /\ InPlot(en2) = InPlot(env) /\ en2.unseen = env.unseen
<1>1. CASE InPlot(env)
  <2>1. en2 = [env EXCEPT !.pointer = place]
    BY <1>1 DEF OtherAxis
  <2>2. en2 \in Environments /\ en2.pointer = place /\ en2.unseen = env.unseen
    BY <2>1 DEF Environments
  <2> QED
    BY <1>1, <2>2 DEF InPlot
<1>2. CASE ~InPlot(env)
  BY <1>2 DEF OtherAxis
<1> QED
  BY <1>1, <1>2

LEMMA SetXVariableIsGood ==
  ASSUME IsPlot, NEW u \in Widgets, NEW env \in Environments, All(u, env), NEW place \in Places,
         NEW en2, en2 = OtherAxis([env EXCEPT !.xVar = IF @ = "utc" THEN "system" ELSE "utc"], place),
         NEW x, x = ScheduleLegend(UpdatePlot(u, en2))
  PROVE  en2 \in Environments /\ x \in Widgets /\ All(x, en2)
<1>1. PICK other : other = [env EXCEPT !.xVar = IF @ = "utc" THEN "system" ELSE "utc"]
  OBVIOUS
<1>2. other \in Environments /\ other.pointer = env.pointer /\ other.unseen = env.unseen
  BY <1>1 DEF Environments
<1>3. en2 \in Environments /\ InPlot(en2) = InPlot(other) /\ en2.unseen = other.unseen
  BY <1>1, <1>2, OtherAxisDoes
<1> QED
  BY <1>2, <1>3, RedrawIsGood DEF InPlot

LEMMA SetReferenceMarkerKeyIsGood ==
  ASSUME IsPlot, NEW u \in Widgets, NEW env \in Environments, All(u, env), NEW place \in Places,
         NEW en2, en2 = OtherAxis([env EXCEPT !.relative = ~@], place),
         NEW x, x = ScheduleMomentUpdate(ScheduleLegend(UpdatePlot(u, en2)))
  PROVE  en2 \in Environments /\ x \in Widgets /\ All(x, en2)
<1>1. PICK other : other = [env EXCEPT !.relative = ~@]
  OBVIOUS
<1>2. other \in Environments /\ other.pointer = env.pointer /\ other.unseen = env.unseen
  BY <1>1 DEF Environments
<1>3. en2 \in Environments /\ InPlot(en2) = InPlot(other) /\ en2.unseen = other.unseen
  BY <1>1, <1>2, OtherAxisDoes
<1>4. PICK y : y = ScheduleLegend(UpdatePlot(u, en2))
  OBVIOUS
<1>5. y \in Widgets /\ All(y, en2)
  BY <1>2, <1>3, <1>4, RedrawIsGood DEF InPlot
<1>6. x = ScheduleMomentUpdate(y)
  BY <1>4
<1>7. /\ Beside(y, x) /\ OnlyMoments(y, x) /\ x.moments = y.moments /\ (x.momentDue \/ x.missed)
      /\ x.legendDue = y.legendDue
  BY <1>5, <1>6, MomentUpdateIsScheduled
<1>8. x \in Widgets /\ SameSessions(en2, en2)
  BY <1>7 DEF Beside, SameSessions, SameAxis
<1>9. MeasureIsWhole(x) /\ LegendHears(x, en2)
  BY <1>5, <1>7, <1>8, BesideIsWhole DEF All
<1>10. CursorKept(x, en2)
  BY <1>7 DEF CursorKept
<1>11. MomentsHavePlaces(x) /\ OverIsInside(x) /\ FullIsDue(x) /\ PointerIsKnown(x, en2) /\ GraphsAreDrawable(x, en2)
  BY <1>5, <1>7 DEF All, Drawn, Beside, OnlyMoments, MomentsHavePlaces, OverIsInside, FullIsDue, PointerIsKnown,
                    GraphsAreDrawable
<1>12. TracedIsUnder(x, en2)
  BY <1>5, <1>7 DEF All, Drawn, Beside, OnlyMoments, TracedIsUnder, MouseTells, Candidates
<1> QED
  BY <1>3, <1>8, <1>9, <1>10, <1>11, <1>12 DEF All, Drawn

LEMMA RebuildTimeoutIsGood ==
  ASSUME IsPlot, NEW u \in Widgets, NEW env \in Environments, All(u, env),
         NEW x, x = UpdatePlot([u EXCEPT !.rebuildDue = FALSE], env)
  PROVE  x \in Widgets /\ All(x, env)
<1>. DEFINE y == [u EXCEPT !.rebuildDue = FALSE]
<1>1. y \in Widgets
  BY DEF Widgets
<1>2. y.over = u.over /\ y.inArea = u.inArea /\ y.moments = u.moments /\ LegendGoesOn(u, y) /\ SameTool(u, y)
  BY <1>1 DEF Widgets, LegendGoesOn, SameTool
<1>3. x = UpdatePlot(y, env)
  OBVIOUS
<1>. HIDE DEF y
<1>4. MomentsHavePlaces(y) /\ OverIsInside(y) /\ PointerIsKnown(y, env)
  BY <1>2 DEF All, Drawn, MomentsHavePlaces, OverIsInside, PointerIsKnown
<1>5. MeasureIsWhole(y) /\ LegendHears(y, env)
  BY <1>2, ToolsAreWhole DEF All
<1>6. x \in Widgets /\ Drawn(x, env) /\ MeasureIsWhole(x) /\ (LegendHears(y, env) => LegendHears(x, env))
  BY <1>1, <1>3, <1>4, <1>5, UpdatePlotDoes
<1> QED
  BY <1>5, <1>6 DEF All

LEMMA OnMomentsChangedIsGood ==
  ASSUME NEW u \in Widgets, NEW env \in Environments, All(u, env),
         NEW x, x = [UpdateCrosshairFromMoments(u, env) EXCEPT !.momentDue = FALSE, !.missed = u.inArea /\ @]
  PROVE  x \in Widgets /\ All(x, env)
<1>. DEFINE y == UpdateCrosshairFromMoments(u, env)
<1>1. Follows(u, y) /\ y.over = u.over /\ y.moments = u.moments
  <2>1. CASE u.inArea
    BY <2>1, BesideIsReflexive DEF UpdateCrosshairFromMoments, Follows
  <2>2. CASE ~u.inArea
    BY <2>2, CursorOfDoes DEF UpdateCrosshairFromMoments
  <2> QED
    BY <2>1, <2>2
<1>2. y \in Widgets /\ Beside(u, y) /\ y.inArea = u.inArea /\ u.inArea \in BOOLEAN
  BY <1>1 DEF Follows, Beside, Widgets
<1>3. u.inArea => y = u
  BY DEF UpdateCrosshairFromMoments
<1>4. ~u.inArea => y = CursorOf(u, env)
  BY DEF UpdateCrosshairFromMoments
<1>5. x = [y EXCEPT !.momentDue = FALSE, !.missed = u.inArea /\ @]
  OBVIOUS
<1>. HIDE DEF y
<1>6. x \in Widgets /\ ~x.momentDue /\ (~u.inArea => ~x.missed)
  BY <1>2, <1>5 DEF Widgets
<1>7. /\ x.over = y.over /\ x.inArea = y.inArea /\ x.graphs = y.graphs /\ x.full = y.full
      /\ x.rebuildDue = y.rebuildDue /\ x.moments = y.moments
      /\ x.traced = y.traced /\ x.cursor = y.cursor /\ x.hovered = y.hovered
      /\ x.legendDue = y.legendDue
  BY <1>2, <1>5 DEF Widgets
<1>8. LegendGoesOn(y, x) /\ SameTool(y, x)
  BY <1>2, <1>5, <1>7 DEF Widgets, LegendGoesOn, SameTool
<1>9. MeasureIsWhole(x) /\ LegendHears(x, env)
  <2>1. SameSessions(env, env)
    BY DEF SameSessions, SameAxis
  <2>2. MeasureIsWhole(y) /\ LegendHears(y, env)
    BY <1>2, <2>1, BesideIsWhole DEF All
  <2> QED
    BY <1>8, <2>2, ToolsAreWhole
<1>10. /\ x.over = u.over /\ x.inArea = u.inArea /\ x.graphs = u.graphs /\ x.full = u.full
       /\ x.rebuildDue = u.rebuildDue /\ x.moments = u.moments
  BY <1>1, <1>2, <1>7 DEF Beside
<1>11. MomentsHavePlaces(x) /\ OverIsInside(x) /\ FullIsDue(x) /\ PointerIsKnown(x, env) /\ GraphsAreDrawable(x, env)
  BY <1>10 DEF All, Drawn, MomentsHavePlaces, OverIsInside, FullIsDue, PointerIsKnown, GraphsAreDrawable
<1>12. TracedIsUnder(x, env)
  <2>1. CASE u.inArea
    BY <1>3, <1>7, <2>1 DEF All, Drawn, TracedIsUnder, MouseTells, Candidates
  <2>2. CASE ~u.inArea
    BY <2>2 DEF All, Drawn, PointerIsKnown, TracedIsUnder
  <2> QED
    BY <2>1, <2>2
<1>13. CursorKept(x, env)
  <2>1. CASE u.inArea
    BY <1>10, <2>1 DEF CursorKept
  <2>2. CASE ~u.inArea
    <3>1. SameAxis(env, env)
      BY DEF SameAxis
    <3>2. SameCursor(CursorOf(x, env), CursorOf(u, env))
      BY <1>6, <1>10, <3>1, CursorIsSame
    <3> QED
      BY <1>4, <1>7, <2>2, <3>2 DEF CursorKept, SameCursor
  <2> QED
    BY <2>1, <2>2
<1> QED
  BY <1>6, <1>9, <1>11, <1>12, <1>13 DEF All, Drawn
------------------------------------------------------------------------------
(* The actions: the widget hears of the pointer                              *)

LEMMA InsideIsGood ==
  ASSUME NEW u \in Widgets, NEW env \in Environments, All(u, env), NEW en2 \in Environments, SameSessions(env, en2),
         NEW x, Beside(u, x), x.inArea, PointerIsKnown(x, en2), MomentsHavePlaces(x),
         Placed(u.graphs, env) /\ ~en2.unseen /\ InPlot(en2) => MouseTells(x, env, en2.pointer)
  PROVE  x \in Widgets /\ All(x, en2)
<1>1. x \in Widgets /\ x.graphs = u.graphs /\ x.full = u.full /\ x.rebuildDue = u.rebuildDue
  BY DEF Beside
<1>2. OverIsInside(x) /\ FullIsDue(x) /\ CursorKept(x, en2)
  BY <1>1 DEF All, Drawn, OverIsInside, FullIsDue, CursorKept
<1>3. GraphsAreDrawable(x, en2)
  BY <1>1, SessionsAreKept DEF All, Drawn, GraphsAreDrawable
<1>4. TracedIsUnder(x, en2)
  BY <1>1, GraphsArePlaced, AxisIsKept DEF All, Drawn, SameSessions, TracedIsUnder, MouseTells
<1>5. MeasureIsWhole(x) /\ LegendHears(x, en2)
  BY BesideIsWhole DEF All
<1> QED
  BY <1>1, <1>2, <1>3, <1>4, <1>5 DEF All, Drawn

LEMMA OutsideIsGood ==
  ASSUME NEW u \in Widgets, NEW env \in Environments, All(u, env), NEW en2 \in Environments, SameSessions(env, en2),
         ~InPlot(en2), NEW x, Beside(u, x), ~x.over, ~x.inArea, MomentsHavePlaces(x),
         x.momentDue \/ x.missed \/ CursorKept(x, en2)
  PROVE  x \in Widgets /\ All(x, en2)
<1>1. x \in Widgets /\ x.graphs = u.graphs /\ x.full = u.full /\ x.rebuildDue = u.rebuildDue
  BY DEF Beside
<1>2. x.over = FALSE /\ x.inArea = FALSE /\ InPlot(en2) = FALSE
  BY <1>1 DEF Widgets, InPlot
<1>3. OverIsInside(x) /\ FullIsDue(x) /\ PointerIsKnown(x, en2) /\ TracedIsUnder(x, en2) /\ CursorKept(x, en2)
  BY <1>1, <1>2 DEF All, Drawn, OverIsInside, FullIsDue, CursorKept, PointerIsKnown, TracedIsUnder
<1>4. GraphsAreDrawable(x, en2)
  BY <1>1, SessionsAreKept DEF All, Drawn, GraphsAreDrawable
<1>5. MeasureIsWhole(x) /\ LegendHears(x, en2)
  BY BesideIsWhole DEF All
<1> QED
  BY <1>1, <1>3, <1>4, <1>5 DEF All, Drawn

LEMMA CtrlSeenDoes ==
  ASSUME NEW u \in Widgets, NEW env, NEW x, x = CtrlSeen(u, env)
  PROVE  Follows(u, x) /\ x.over = u.over
<1>1. PICK s \in Someone : x = [u EXCEPT !.lock = s]
  <2>1. u.hovered \in Someone /\ u.lock \in Someone /\ None \in Someone /\ u = [u EXCEPT !.lock = u.lock]
    BY DEF Widgets, Someone
  <2> QED
    BY <2>1 DEF CtrlSeen
<1>2. x \in Widgets /\ x.over = u.over /\ x.inArea = u.inArea
  BY <1>1 DEF Widgets
<1>3. /\ x.tool = u.tool /\ x.measuring = u.measuring /\ x.multi = u.multi /\ x.session = u.session
      /\ x.measured = u.measured /\ x.toolLock = u.toolLock
      /\ x.graphs = u.graphs /\ x.full = u.full /\ x.rebuildDue = u.rebuildDue /\ x.missed = u.missed
      /\ x.momentDue = u.momentDue /\ x.legendDue = u.legendDue /\ x.legend = u.legend /\ x.blank = u.blank
      /\ x.moments = u.moments
  BY <1>1 DEF Widgets
<1> QED
  BY <1>2, <1>3, BesideOfFields DEF Follows

LEMMA FollowersAreTyped ==
  ASSUME NEW u, NEW x, Follows(u, x)
  PROVE  x \in Widgets
  BY DEF Follows, Beside

\* The keys that were held are remembered.
Remembers(u, x) ==
  Follows(u, x) /\ x.over = u.over /\ \A env, place : MouseTells(u, env, place) => MouseTells(x, env, place)

LEMMA KeysAreRemembered ==
  ASSUME NEW u \in Widgets, NEW keys \in SUBSET Keys, NEW x, x = [u EXCEPT !.lastKeys = keys]
  PROVE  Remembers(u, x)
<1>1. x \in Widgets /\ x.over = u.over /\ x.inArea = u.inArea
  BY DEF Widgets
<1>2. /\ x.tool = u.tool /\ x.measuring = u.measuring /\ x.multi = u.multi /\ x.session = u.session
      /\ x.measured = u.measured /\ x.toolLock = u.toolLock
      /\ x.graphs = u.graphs /\ x.full = u.full /\ x.rebuildDue = u.rebuildDue /\ x.missed = u.missed
      /\ x.momentDue = u.momentDue /\ x.legendDue = u.legendDue /\ x.legend = u.legend /\ x.blank = u.blank
      /\ x.moments = u.moments
  BY DEF Widgets
<1>3. x.traced = u.traced /\ x.hovered = u.hovered
  BY DEF Widgets
<1>4. \A env, place : MouseTells(u, env, place) => MouseTells(x, env, place)
  BY <1>2, <1>3 DEF MouseTells, Candidates
<1> QED
  BY <1>1, <1>2, <1>4, BesideOfFields DEF Follows, Remembers

LEMMA CheckModifiersIsGood ==
  ASSUME IsPlot, NEW u \in Widgets, NEW env \in Environments, All(u, env), u.over,
         NEW x, x = UpdateIfOverPlotArea([CtrlSeen(u, env) EXCEPT !.lastKeys = env.keys], env)
  PROVE  x \in Widgets /\ All(x, env)
<1>. DEFINE y == CtrlSeen(u, env)
            z == [y EXCEPT !.lastKeys = env.keys]
<1>1. Follows(u, y) /\ y.over = u.over /\ y \in Widgets
  <2>1. Follows(u, y) /\ y.over = u.over
    BY CtrlSeenDoes
  <2> QED
    BY <2>1, FollowersAreTyped
<1>2. x = UpdateIfOverPlotArea(z, env)
  OBVIOUS
<1>. HIDE DEF y
<1>3. Follows(y, z) /\ z.over = y.over /\ z \in Widgets
  <2>1. PICK keys \in SUBSET Keys : keys = env.keys
    BY DEF Environments
  <2>2. Remembers(y, z)
    BY <1>1, <2>1, KeysAreRemembered
  <2> QED
    BY <2>2, FollowersAreTyped DEF Remembers
<1>. HIDE DEF z
<1>4. u.inArea /\ MomentsHavePlaces(u) /\ PointerIsKnown(u, env)
  BY DEF All, Drawn, OverIsInside
<1>5. Beside(u, z) /\ z.inArea /\ MomentsHavePlaces(z)
  BY <1>1, <1>3, <1>4, BesideIsTransitive DEF Follows
<1>6. /\ Follows(z, x) /\ x.over = (z.over /\ InPlot(env))
      /\ x.over /\ Placed(z.graphs, env) => MouseTells(x, env, env.pointer)
  BY <1>2, <1>3, <1>5, UpdateIfOverDoes DEF OverIsInside
<1>7. Beside(u, x) /\ x.inArea /\ MomentsHavePlaces(x) /\ z.graphs = u.graphs
  BY <1>5, <1>6, BesideIsTransitive DEF Follows, Beside
<1>8. InPlot(env) => x.over
  BY <1>1, <1>3, <1>6
<1>9. PointerIsKnown(x, env)
  BY <1>1, <1>3, <1>4, <1>6, <1>7, <1>8 DEF PointerIsKnown, Follows
<1>10. SameSessions(env, env)
  BY DEF SameSessions, SameAxis
<1> QED
  BY <1>6, <1>7, <1>8, <1>9, <1>10, InsideIsGood
LEMMA WrittenTells ==
  ASSUME NEW x \in Widgets, NEW env, NEW place, x.traced \subseteq Candidates(x, place),
         x.hovered # None => x.traced \subseteq {x.hovered},
         Written(x.moments["mouse"], env, x.traced, place)
  PROVE  MouseTells(x, env, place)
<1>1. x.moments["mouse"].active \in BOOLEAN
  <2>1. x.moments \in MomentModels
    BY DEF Widgets
  <2>2. x.moments["mouse"] \in MomentRecords
    BY <2>1 DEF MomentModels, MomentIds
  <2> QED
    BY <2>2 DEF MomentRecords
<1>2. CASE ~SomeConvertible(x.traced, env)
  <2>1. SomeConvertible(x.traced, env) = FALSE
    BY <1>2 DEF SomeConvertible
  <2> QED
    BY <1>1, <2>1 DEF Written, MouseTells
<1>3. CASE SomeConvertible(x.traced, env)
  <2>1. SomeConvertible(x.traced, env) = TRUE
    BY <1>3 DEF SomeConvertible
  <2> QED
    BY <1>1, <2>1 DEF Written, Names, MouseTells
<1> QED
  BY <1>2, <1>3

\* The widget learns where the pointer is.
Learns(u, x, in, over) ==
  /\ Beside(u, x) /\ x.inArea = in /\ x.over = over
  /\ MomentsHavePlaces(u) => MomentsHavePlaces(x)

LEMMA PointerIsLearned ==
  ASSUME NEW u \in Widgets, NEW in \in BOOLEAN, NEW over \in BOOLEAN,
         NEW x, x = [u EXCEPT !.inArea = in, !.over = over]
  PROVE  Learns(u, x, in, over)
<1>1. x \in Widgets /\ x.inArea = in /\ x.over = over
  BY DEF Widgets
<1>2. /\ x.tool = u.tool /\ x.measuring = u.measuring /\ x.multi = u.multi /\ x.session = u.session
      /\ x.measured = u.measured /\ x.toolLock = u.toolLock
      /\ x.graphs = u.graphs /\ x.full = u.full /\ x.rebuildDue = u.rebuildDue /\ x.missed = u.missed
      /\ x.momentDue = u.momentDue /\ x.legendDue = u.legendDue /\ x.legend = u.legend /\ x.blank = u.blank
      /\ x.moments = u.moments
  BY DEF Widgets
<1> QED
  BY <1>1, <1>2, BesideOfFields DEF Learns

LEMMA MoveInsideIsGood ==
  ASSUME IsPlot, NEW u \in Widgets, NEW env \in Environments, All(u, env),
         NEW en2 \in Environments, SameSessions(env, en2), NEW place \in Places, en2.pointer = place,
         NEW z, z = [UpdateTracers(CtrlSeen([u EXCEPT !.inArea = TRUE, !.over = TRUE], env), env, place)
                       EXCEPT !.lastKeys = env.keys],
         NEW x, x = WriteMouseMoment(z, env, place, z.traced)
  PROVE  x \in Widgets /\ All(x, en2)
<1>. DEFINE a == [u EXCEPT !.inArea = TRUE, !.over = TRUE]
            b == CtrlSeen(a, env)
            c == UpdateTracers(b, env, place)
<1>1. MomentsHavePlaces(u)
  BY DEF All, Drawn
<1>2. Beside(u, a) /\ MomentsHavePlaces(a) /\ a.inArea = TRUE /\ a.over = TRUE
  <2>1. a = [u EXCEPT !.inArea = TRUE, !.over = TRUE]
    OBVIOUS
  <2>2. Learns(u, a, TRUE, TRUE)
    BY <2>1, PointerIsLearned
  <2> QED
    BY <1>1, <2>2 DEF Learns
<1>3. z = [c EXCEPT !.lastKeys = env.keys]
  OBVIOUS
<1>. HIDE DEF a
<1>4. a \in Widgets
  BY <1>2 DEF Beside
<1>5. Follows(a, b) /\ b.over = a.over
  BY <1>4, CtrlSeenDoes
<1>. HIDE DEF b
<1>6. b \in Widgets /\ b.inArea
  BY <1>2, <1>5, FollowersAreTyped DEF Follows
<1>7. Redraws(b, c, env, place)
  BY <1>6, UpdateTracersDoes
<1>. HIDE DEF c
<1>8. Follows(b, c) /\ c.over = b.over /\ (Placed(b.graphs, env) => MouseTells(c, env, place)) /\ c \in Widgets
  BY <1>7, FollowersAreTyped DEF Redraws
<1>9. Follows(c, z) /\ z.over = c.over /\ (MouseTells(c, env, place) => MouseTells(z, env, place)) /\ z \in Widgets
  <2>1. PICK keys \in SUBSET Keys : keys = env.keys
    BY DEF Environments
  <2>2. Remembers(c, z)
    BY <1>3, <1>8, <2>1, KeysAreRemembered
  <2> QED
    BY <2>2, FollowersAreTyped DEF Remembers
<1>10. Beside(u, z) /\ MomentsHavePlaces(z) /\ z.inArea = TRUE /\ z.over = TRUE
  BY <1>2, <1>5, <1>8, <1>9, BesideIsTransitive DEF Follows
<1>11. z.graphs = u.graphs /\ b.graphs = u.graphs
  BY <1>2, <1>5, <1>10 DEF Follows, Beside
<1>12. z.traced \in SUBSET Sessions
  BY <1>9 DEF Widgets
<1>13. /\ Beside(z, x) /\ OnlyMoments(z, x) /\ MomentsHavePlaces(x)
       /\ place \in Places /\ Placed(z.traced, env) => Written(x.moments["mouse"], env, z.traced, place)
  BY <1>9, <1>10, <1>12, MouseMomentIsWritten
<1>14. Beside(u, x) /\ x \in Widgets /\ x.graphs = u.graphs
  <2>1. Beside(u, x)
    BY <1>10, <1>13, BesideIsTransitive
  <2> QED
    BY <2>1 DEF Beside
<1>15. x.inArea = TRUE /\ x.over = TRUE /\ x.traced = z.traced /\ x.hovered = z.hovered
  BY <1>10, <1>13 DEF OnlyMoments
<1>16. ASSUME Placed(u.graphs, env)
       PROVE  MouseTells(x, env, place)
  <2>1. MouseTells(z, env, place)
    BY <1>8, <1>9, <1>11, <1>16
  <2>2. z.traced \subseteq Candidates(z, place) /\ (z.hovered # None => z.traced \subseteq {z.hovered})
    BY <2>1 DEF MouseTells
  <2>3. Candidates(x, place) = Candidates(z, place) /\ Candidates(z, place) \subseteq u.graphs
    BY <1>11, <1>14 DEF Candidates
  <2>4. Placed(z.traced, env)
    BY <1>16, <2>2, <2>3 DEF Placed
  <2> QED
    BY <1>13, <1>14, <1>15, <2>2, <2>3, <2>4, WrittenTells
<1>17. PointerIsKnown(x, en2)
  BY <1>15 DEF PointerIsKnown, InPlot
<1> QED
  BY <1>13, <1>14, <1>15, <1>16, <1>17, InsideIsGood

\* The crosshair leaves, if it was in the plot.
Moved(u, env, place) ==
  LET a == [u EXCEPT !.inArea = FALSE]
      z == IF a.over THEN Left(a) ELSE a
      y == WriteMouseMoment(z, env, place, z.traced)
  IN IF u.inArea THEN ScheduleMomentUpdate(y) ELSE y

LEMMA MoveOutsideIsGood ==
  ASSUME NEW u \in Widgets, NEW env \in Environments, All(u, env),
         NEW en2 \in Environments, SameSessions(env, en2), ~InPlot(en2), NEW place,
         NEW x, x = Moved(u, env, place)
  PROVE  x \in Widgets /\ All(x, en2)
<1>a. PICK a : a = [u EXCEPT !.inArea = FALSE]
  OBVIOUS
<1>z. PICK z : z = IF a.over THEN Left(a) ELSE a
  OBVIOUS
<1>y. PICK y : y = WriteMouseMoment(z, env, place, z.traced)
  OBVIOUS
<1>0. /\ a = [u EXCEPT !.inArea = FALSE] /\ z = (IF a.over THEN Left(a) ELSE a)
      /\ y = WriteMouseMoment(z, env, place, z.traced)
      /\ x = IF u.inArea THEN ScheduleMomentUpdate(y) ELSE y
  BY <1>a, <1>z, <1>y DEF Moved
<1>1. MomentsHavePlaces(u) /\ (u.over => u.inArea)
  BY DEF All, Drawn, OverIsInside
<1>2. a = [u EXCEPT !.inArea = FALSE, !.over = u.over] /\ u.over \in BOOLEAN
  BY <1>0 DEF Widgets
<1>3. Beside(u, a) /\ MomentsHavePlaces(a) /\ a.inArea = FALSE /\ a.over = u.over
  <2>1. Learns(u, a, FALSE, u.over)
    BY <1>2, PointerIsLearned
  <2> QED
    BY <1>1, <2>1 DEF Learns
<1>4. a \in Widgets
  BY <1>3 DEF Beside
<1>5. Follows(a, z) /\ ~z.over
  <2>1. CASE a.over
    BY <1>0, <1>4, <2>1, LeftDoes
  <2>2. CASE ~a.over
    BY <1>0, <1>4, <2>2, BesideIsReflexive DEF Follows
  <2> QED
    BY <2>1, <2>2
<1>6. Beside(u, z) /\ MomentsHavePlaces(z) /\ z.inArea = FALSE /\ z \in Widgets
  BY <1>3, <1>5, BesideIsTransitive, FollowersAreTyped DEF Follows
<1>7. z.traced \in SUBSET Sessions
  BY <1>6 DEF Widgets
<1>8. Beside(z, y) /\ OnlyMoments(z, y) /\ MomentsHavePlaces(y) /\ NothingElse(z, y)
  <2>1. PICK traced \in SUBSET Sessions : traced = z.traced
    BY <1>7
  <2>2. y = WriteMouseMoment(z, env, place, traced)
    BY <1>0, <2>1
  <2>3. /\ Beside(z, y) /\ OnlyMoments(z, y)
        /\ MomentsHavePlaces(z) => MomentsHavePlaces(y)
        /\ NothingElse(z, y)
    BY <1>6, <2>2, MouseMomentIsWritten
  <2> QED
    BY <1>6, <2>3
<1>9. Beside(u, y) /\ ~y.over /\ y.inArea = FALSE /\ y \in Widgets
  <2>1. Beside(u, y)
    BY <1>6, <1>8, BesideIsTransitive
  <2> QED
    BY <1>5, <1>6, <1>8, <2>1 DEF OnlyMoments, Beside
<1>10. CASE u.inArea
  <2>1. Beside(y, x) /\ OnlyMoments(y, x) /\ x.moments = y.moments /\ (x.momentDue \/ x.missed)
    BY <1>0, <1>9, <1>10, MomentUpdateIsScheduled
  <2>2. Beside(u, x)
    BY <1>9, <2>1, BesideIsTransitive
  <2>3. ~x.over /\ ~x.inArea /\ MomentsHavePlaces(x)
    BY <1>8, <1>9, <2>1 DEF OnlyMoments, MomentsHavePlaces
  <2> QED
    BY <2>1, <2>2, <2>3, OutsideIsGood
<1>11. CASE ~u.inArea
  <2>1. x = y
    BY <1>0, <1>11
  <2>2. z = u
    <3>1. ~u.over /\ u.inArea = FALSE
      BY <1>1, <1>11 DEF Widgets
    <3>2. a = u
      BY <1>0, <3>1 DEF Widgets
    <3> QED
      BY <1>0, <1>3, <3>1, <3>2
  <2>3. x.momentDue \/ x.missed \/ CursorKept(x, en2)
    <3>1. CASE y.moments = u.moments
      <4>1. x = u
        BY <1>8, <2>1, <2>2, <3>1 DEF NothingElse
      <4>2. SameCursor(CursorOf(u, en2), CursorOf(u, env))
        BY SessionsAreKept, CursorIsSame DEF SameSessions
      <4>3. CursorKept(u, env)
        BY DEF All, Drawn
      <4> QED
        BY <4>1, <4>2, <4>3 DEF CursorKept, SameCursor
    <3>2. CASE y.moments # u.moments
      BY <1>9, <2>1, <3>2 DEF Beside
    <3> QED
      BY <3>1, <3>2
  <2> QED
    BY <1>8, <1>9, <2>1, <2>3, OutsideIsGood
<1> QED
  BY <1>10, <1>11

LEMMA MouseMoveIsGood ==
  ASSUME IsPlot, NEW u \in Widgets, NEW env \in Environments, All(u, env),
         NEW en2 \in Environments, SameSessions(env, en2), en2.pointer = env.pointer,
         NEW a, a = [u EXCEPT !.inArea = InPlot(env)],
         NEW z, z = HandleMouseMove(a, env, env.pointer),
         NEW y, y = WriteMouseMoment(z, env, env.pointer, z.traced),
         NEW v, v = IF u.inArea /\ ~InPlot(env) THEN ScheduleMomentUpdate(y) ELSE y
  PROVE  v \in Widgets /\ All(v, en2)
<1>1. CASE InPlot(env)
  <2>1. PICK place \in Places : place = env.pointer
    BY <1>1 DEF InPlot
  <2>2. [a EXCEPT !.over = TRUE] = [u EXCEPT !.inArea = TRUE, !.over = TRUE]
    BY <1>1
  <2>3. z = [UpdateTracers(CtrlSeen([u EXCEPT !.inArea = TRUE, !.over = TRUE], env), env, place)
               EXCEPT !.lastKeys = env.keys]
    BY <2>1, <2>2 DEF HandleMouseMove
  <2>4. v = WriteMouseMoment(z, env, place, z.traced)
    BY <1>1, <2>1
  <2> QED
    BY <2>1, <2>3, <2>4, MoveInsideIsGood
<1>2. CASE ~InPlot(env)
  <2>1. InPlot(env) = FALSE /\ ~InPlot(en2)
    BY <1>2 DEF InPlot
  <2>2. v = Moved(u, env, env.pointer)
    <3>1. a = [u EXCEPT !.inArea = FALSE]
      BY <2>1
    <3>2. z = IF a.over THEN Left(a) ELSE a
      BY <2>1 DEF HandleMouseMove, InPlot
    <3>3. v = IF u.inArea THEN ScheduleMomentUpdate(y) ELSE y
      BY <2>1
    <3> QED
      BY <3>1, <3>2, <3>3, Zenon DEF Moved
  <2>3. PICK place : place = env.pointer
    OBVIOUS
  <2> QED
    BY <2>1, <2>2, <2>3, MoveOutsideIsGood
<1> QED
  BY <1>1, <1>2

LEMMA LeaveIsGood ==
  ASSUME NEW u \in Widgets, NEW env \in Environments, All(u, env),
         NEW en2 \in Environments, SameSessions(env, en2), ~InPlot(en2),
         NEW z, z = HandleMouseLeave([u EXCEPT !.inArea = FALSE]),
         NEW y, y = MomentsTo(z, SetMomentPosition(z.moments, "mouse", NoTime, {}, FALSE)),
         NEW x, x = ScheduleMomentUpdate(y)
  PROVE  x \in Widgets /\ All(x, en2)
<1>. DEFINE a == [u EXCEPT !.inArea = FALSE]
            l == Left(a)
            ms == SetMomentPosition(z.moments, "mouse", NoTime, {}, FALSE)
<1>1. MomentsHavePlaces(u)
  BY DEF All, Drawn
<1>2. Beside(u, a) /\ MomentsHavePlaces(a) /\ a.inArea = FALSE /\ a \in Widgets
  <2>1. a = [u EXCEPT !.inArea = FALSE, !.over = u.over] /\ u.over \in BOOLEAN
    BY DEF Widgets
  <2>2. Learns(u, a, FALSE, u.over)
    BY <2>1, PointerIsLearned
  <2> QED
    BY <1>1, <2>2 DEF Learns, Beside
<1>3. z = IF a.over THEN [l EXCEPT !.lastKeys = @ \ {"shift"}] ELSE a
  BY DEF HandleMouseLeave
<1>. HIDE DEF a
<1>4. Follows(a, z) /\ ~z.over
  <2>1. CASE a.over
    <3>1. Follows(a, l) /\ l.over = FALSE
      BY <1>2, LeftDoes
    <3>. HIDE DEF l
    <3>2. l \in Widgets
      BY <3>1, FollowersAreTyped
    <3>3. PICK keys \in SUBSET Keys : keys = l.lastKeys \ {"shift"}
      BY <3>2 DEF Widgets
    <3>4. z = [l EXCEPT !.lastKeys = keys]
      BY <1>3, <2>1, <3>3
    <3>5. Remembers(l, z)
      BY <3>2, <3>3, <3>4, KeysAreRemembered
    <3> QED
      BY <3>1, <3>5, BesideIsTransitive DEF Follows, Remembers
  <2>2. CASE ~a.over
    BY <1>2, <1>3, <2>2, BesideIsReflexive DEF Follows
  <2> QED
    BY <2>1, <2>2
<1>5. Beside(u, z) /\ MomentsHavePlaces(z) /\ z.inArea = FALSE /\ z \in Widgets
  BY <1>2, <1>4, BesideIsTransitive, FollowersAreTyped DEF Follows
<1>6. z.moments \in MomentModels
  BY <1>5 DEF Widgets
<1>7. MouseSet(z.moments, ms) /\ ~ms["mouse"].active
  BY <1>6, MouseIsCleared
<1>8. y = MomentsTo(z, ms)
  OBVIOUS
<1>. HIDE DEF ms
<1>9. Beside(z, y) /\ OnlyMoments(z, y) /\ y.moments = ms /\ y \in Widgets
  <2>1. Beside(z, y) /\ OnlyMoments(z, y) /\ y.moments = ms
    BY <1>5, <1>7, <1>8, MomentsToDoes DEF MouseSet
  <2> QED
    BY <2>1 DEF Beside
<1>10. MomentsHavePlaces(y)
  BY <1>5, <1>7, <1>9 DEF MouseSet, MomentsHavePlaces
<1>11. Beside(y, x) /\ OnlyMoments(y, x) /\ x.moments = y.moments /\ (x.momentDue \/ x.missed)
  BY <1>9, MomentUpdateIsScheduled
<1>12. Beside(u, x)
  BY <1>5, <1>9, <1>11, BesideIsTransitive
<1>13. ~x.over /\ ~x.inArea /\ MomentsHavePlaces(x)
  BY <1>4, <1>5, <1>9, <1>10, <1>11 DEF OnlyMoments, MomentsHavePlaces
<1> QED
  BY <1>11, <1>12, <1>13, OutsideIsGood
------------------------------------------------------------------------------
(* The legend                                                                *)

LEMMA LegendSessionsAreShown ==
  ASSUME NEW u \in Widgets, NEW env
  PROVE  LegendSessions(u, env) \in SUBSET Sessions
<1>. DEFINE moment == u.moments[EffectiveMoment(u)]
            targets == IF moment.targets # {} THEN moment.targets \cap Shown(env)
                       ELSE { s \in Shown(env) : HasValue(env, moment, s) }
            tells == IF Cardinality(targets) = 1 THEN \A s \in targets : OnAxis(env, s)
                     ELSE \E s \in targets : HasValue(env, moment, s)
<1>1. targets \in SUBSET Sessions
  BY DEF Shown
<1>2. LegendSessions(u, env) = IF tells THEN targets ELSE {}
  BY DEF LegendSessions
<1>. HIDE DEF targets, tells
<1> QED
  BY <1>1, <1>2

LEMMA SessionsAreFinite ==
  ASSUME IsPlot
  PROVE  IsFiniteSet(Sessions)
<1>1. Rows \in Seq(ToSet(Rows)) /\ DOMAIN Rows = 1..Len(Rows) /\ Len(Rows) \in Nat
  BY LenProperties DEF IsPlot
<1>2. Rows \in [1..Len(Rows) -> Sessions] /\ \A s \in Sessions : \E i \in 1..Len(Rows) : Rows[i] = s
  BY <1>1 DEF Sessions, ToSet
<1>3. Rows \in Surjection(1..Len(Rows), Sessions)
  BY <1>2 DEF Surjection
<1>4. IsFiniteSet(1..Len(Rows))
  BY <1>1, FS_Interval
<1> QED
  BY <1>3, <1>4, FS_Surjection

\* Of the mouse moment, the legend shows what is shown, if one has data.
LEMMA LegendOfMouse ==
  ASSUME IsPlot, NEW u \in Widgets, NEW env, EffectiveMoment(u) = "mouse", ~NoneHasData(u.moments["mouse"], env)
  PROVE  LegendSessions(u, env) = u.moments["mouse"].targets \cap Shown(env)
<1>. DEFINE mouse == u.moments["mouse"]
            targets == mouse.targets \cap Shown(env)
            tells == IF Cardinality(targets) = 1 THEN \A t \in targets : OnAxis(env, t)
                     ELSE \E t \in targets : HasValue(env, mouse, t)
<1>1. mouse.active /\ mouse.targets # {}
  BY DEF EffectiveMoment, None
<1>2. PICK s \in targets : HasValue(env, mouse, s)
  BY <1>1 DEF NoneHasData
<1>3. LegendSessions(u, env) = IF tells THEN targets ELSE {}
  BY <1>1 DEF LegendSessions
<1>4. Cardinality(targets) = 1 => targets = {s}
  <2>. HAVE Cardinality(targets) = 1
  <2>1. targets \subseteq Sessions
    BY DEF Shown
  <2>. HIDE DEF targets
  <2>2. IsFiniteSet(targets)
    BY <2>1, SessionsAreFinite, FS_Subset
  <2> QED
    BY <1>2, <2>2, FS_Singleton
<1>. HIDE DEF targets, mouse
<1>5. tells
  BY <1>2, <1>4 DEF HasValue
<1> QED
  BY <1>3, <1>5 DEF targets, mouse

\* Only the legend is made again.
Shows(u, x, blank, legend) ==
  /\ x \in Widgets /\ x.legendDue = FALSE /\ x.blank = blank /\ x.legend = legend
  /\ SameDrawing(u, x) /\ SameTool(u, x) /\ x.measured = u.measured

LEMMA LegendIsMade ==
  ASSUME NEW u \in Widgets, NEW blank \in BOOLEAN, NEW legend \in Legends,
         NEW x, x = [u EXCEPT !.legendDue = FALSE, !.blank = blank, !.legend = legend]
  PROVE  Shows(u, x, blank, legend)
<1>1. x \in Widgets /\ x.legendDue = FALSE /\ x.blank = blank /\ x.legend = legend
  BY DEF Widgets
<1>2. SameDrawing(u, x) /\ SameTool(u, x) /\ x.measured = u.measured
  BY <1>1 DEF Widgets, SameDrawing, SameTool
<1> QED
  BY <1>1, <1>2 DEF Shows

NewLegend(u, env) ==
  IF u.measured # "none" THEN [mode |-> u.measured, sessions |-> {}]
  ELSE IF ~env.enabled \/ EffectiveMoment(u) = None THEN [mode |-> "clear", sessions |-> {}]
  ELSE LET sessions == LegendSessions(u, env) IN
       [mode |-> IF sessions = {} THEN "clear" ELSE "point", sessions |-> sessions]

LEMMA RecomputeLegendIsGood ==
  ASSUME IsPlot, NEW u \in Widgets, NEW env \in Environments, All(u, env),
         NEW x, x = [u EXCEPT !.legendDue = FALSE, !.blank = NoneHasData(u.moments["mouse"], env),
                              !.legend = NewLegend(u, env)]
  PROVE  x \in Widgets /\ All(x, env)
<1>. DEFINE sessions == LegendSessions(u, env)
<1>b. PICK blank : blank = NoneHasData(u.moments["mouse"], env)
  OBVIOUS
<1>l. PICK legend : legend = NewLegend(u, env)
  OBVIOUS
<1>1. sessions \in SUBSET Sessions
  BY LegendSessionsAreShown
<1>2. blank \in BOOLEAN
  <2>1. u.moments \in MomentModels
    BY DEF Widgets
  <2>2. u.moments["mouse"] \in MomentRecords
    BY <2>1 DEF MomentModels, MomentIds
  <2>3. u.moments["mouse"].active \in BOOLEAN
    BY <2>2 DEF MomentRecords
  <2> QED
    BY <1>b, <2>3 DEF NoneHasData
<1>3. u.measured \in {"none", "single", "multi"}
  BY DEF Widgets
<1>. HIDE DEF sessions
<1>4. legend \in Legends /\ ((legend.mode \in {"single", "multi"}) = (u.measured # "none"))
  <2>1. CASE u.measured # "none"
    BY <1>l, <1>3, <2>1 DEF Legends, NewLegend
  <2>2. CASE u.measured = "none" /\ (~env.enabled \/ EffectiveMoment(u) = None)
    BY <1>l, <2>2 DEF Legends, NewLegend
  <2>3. CASE u.measured = "none" /\ ~(~env.enabled \/ EffectiveMoment(u) = None)
    <3>1. legend = [mode |-> IF sessions = {} THEN "clear" ELSE "point", sessions |-> sessions]
      BY <1>l, <2>3 DEF sessions, NewLegend
    <3> QED
      BY <1>1, <2>3, <3>1 DEF Legends
  <2> QED
    BY <2>1, <2>2, <2>3
<1>5. x = [u EXCEPT !.legendDue = FALSE, !.blank = blank, !.legend = legend]
  BY <1>b, <1>l
<1>6. Shows(u, x, blank, legend)
  BY <1>2, <1>4, <1>5, LegendIsMade
<1>7. /\ x \in Widgets /\ x.legendDue = FALSE /\ x.blank = blank /\ x.legend = legend
      /\ SameDrawing(u, x) /\ SameTool(u, x) /\ x.measured = u.measured
  BY <1>6 DEF Shows
<1>8. Drawn(x, env)
  <2>1. SameSessions(env, env)
    BY DEF SameSessions, SameAxis
  <2> QED
    BY <1>7, <2>1, DrawnIsKept DEF All
<1>9. MeasureIsWhole(x)
  BY <1>4, <1>7 DEF All, MeasureIsWhole, SameTool
<1>10. LegendHears(x, env)
  <2>1. SUFFICES ASSUME x.measured = "none", env.enabled, EffectiveMoment(x) = "mouse", ~x.blank
                 PROVE  x.legend.sessions = x.moments["mouse"].targets \cap Shown(env)
    BY DEF LegendHears
  <2>2. EffectiveMoment(u) = "mouse" /\ x.moments = u.moments
    BY <1>7, <2>1 DEF SameDrawing, EffectiveMoment
  <2>3. legend = [mode |-> IF sessions = {} THEN "clear" ELSE "point", sessions |-> sessions]
    BY <1>l, <1>7, <2>1, <2>2 DEF None, sessions, NewLegend
  <2>4. sessions = u.moments["mouse"].targets \cap Shown(env)
    BY <1>7, <2>1, <2>2, <1>b, LegendOfMouse DEF sessions
  <2> QED
    BY <1>7, <2>2, <2>3, <2>4
<1> QED
  BY <1>7, <1>8, <1>9, <1>10 DEF All

------------------------------------------------------------------------------
(* The invariant                                                             *)

Good == All(w, e)

LEMMA ModelStepIsGood ==
  ASSUME NEW env \in Environments, TypeOK, Good, env.pointer = e.pointer, env.unseen = e.unseen, ModelChanged(env)
  PROVE  TypeOK' /\ Good'
<1>1. w \in Widgets /\ e \in Environments /\ All(w, e) /\ e' = env
  BY DEF TypeOK, Good, ModelChanged, Environment
<1>2. PICK x : x = w' /\ x = ScheduleLegend(SchedulePlotRebuild(w))
  BY DEF ModelChanged
<1>3. x \in Widgets /\ All(x, env)
  BY <1>1, <1>2, ModelChangedIsGood
<1> QED
  BY <1>1, <1>2, <1>3 DEF TypeOK, Good
\* Steps that leave the sessions and the widget as they are.
LEMMA EnvironmentMayChange ==
  ASSUME NEW p \in Places \cup {"axis", "away"}, NEW b \in BOOLEAN, NEW keys \in SUBSET Keys,
         NEW x \in Widgets, All(x, e), e \in Environments,
         b \/ (p = e.pointer /\ b = e.unseen),
         w' = x, e' = [e EXCEPT !.pointer = p, !.unseen = b, !.keys = keys]
  PROVE  TypeOK' /\ Good'
<1>1. PICK en2 : en2 = e' /\ en2 = [e EXCEPT !.pointer = p, !.unseen = b, !.keys = keys]
  OBVIOUS
<1>2. en2 \in Environments /\ SameSessions(e, en2) /\ en2.pointer = p /\ en2.unseen = b /\ en2.keys = keys
  BY <1>1 DEF Environments, SameSessions, SameAxis
<1>3. All(x, en2)
  BY <1>2, OnlyPointerMoves
<1> QED
  BY <1>1, <1>2, <1>3 DEF TypeOK, Good

LEMMA UserIsGood ==
  ASSUME IsPlot, TypeOK, Good, User
  PROVE  TypeOK' /\ Good'
<1>1. w \in Widgets /\ e \in Environments /\ All(w, e)
  BY DEF TypeOK, Good
<1>2. e.pointer \in Places \cup {"axis", "away"} /\ e.unseen \in BOOLEAN /\ e.keys \in SUBSET Keys
  BY <1>1 DEF Environments
<1>3. ASSUME NEW p \in Places \cup {"axis", "away"}, PointerMoves(p)
      PROVE  TypeOK' /\ Good'
  <2>1. w' = w /\ e' = [e EXCEPT !.pointer = p, !.unseen = TRUE, !.keys = e.keys]
    BY <1>1, <1>3 DEF PointerMoves, Environment, Environments
  <2> QED
    BY <1>1, <1>2, <2>1, EnvironmentMayChange
<1>4. ASSUME NEW keys \in KeySets, KeysChange(keys)
      PROVE  TypeOK' /\ Good'
  <2>1. w' = w /\ e' = [e EXCEPT !.pointer = e.pointer, !.unseen = e.unseen, !.keys = keys]
    BY <1>1, <1>4 DEF KeysChange, Environment, Environments
  <2>2. keys \in SUBSET Keys
    BY DEF Keys
  <2> QED
    BY <1>1, <1>2, <2>1, <2>2, EnvironmentMayChange
<1>5. CASE MousePress
  <2>1. w.tool = "measure" /\ ~w.measuring /\ e' = e
    BY <1>5 DEF MousePress
  <2>2. PICK x : /\ x = w'
                 /\ x = IF "shift" \in e.keys THEN [w EXCEPT !.measuring = TRUE, !.multi = TRUE, !.session = None]
                        ELSE [w EXCEPT !.measuring = TRUE, !.multi = FALSE, !.session = w.hovered, !.toolLock = w.hovered]
    BY <1>5 DEF MousePress
  <2>3. x \in Widgets /\ All(x, e)
    BY <1>1, <2>1, <2>2, MousePressIsGood
  <2> QED
    BY <1>1, <2>1, <2>2, <2>3 DEF TypeOK, Good
<1>6. CASE MouseRelease
  <2>1. PICK x : x = w' /\ x = ClearMeasure(StopMeasuring(w))
    BY <1>6 DEF MouseRelease
  <2>2. x \in Widgets /\ All(x, e)
    BY <1>1, <2>1, StopIsGood
  <2>3. PICK b : b = (e.unseen \/ e.pointer = "away")
    OBVIOUS
  <2>4. e' = [e EXCEPT !.pointer = e.pointer, !.unseen = b, !.keys = e.keys]
    BY <1>1, <1>6, <2>3 DEF MouseRelease, Environment, Environments
  <2>5. b \in BOOLEAN /\ (b \/ b = e.unseen)
    BY <1>2, <2>3
  <2> QED
    BY <1>1, <1>2, <2>1, <2>2, <2>4, <2>5, EnvironmentMayChange
<1>7. ASSUME NEW t \in {"pan", "measure"}, SetCurrentTool(t)
      PROVE  TypeOK' /\ Good'
  <2>1. PICK x : x = w' /\ x = [IF w.tool = "measure" THEN CloseTool(w) ELSE w EXCEPT !.tool = t]
    BY <1>7 DEF SetCurrentTool
  <2>2. t # w.tool
    BY <1>7 DEF SetCurrentTool
  <2>3. x \in Widgets /\ All(x, e)
    BY <1>1, <2>1, <2>2, SetToolIsGood
  <2>4. PICK b : b = (e.unseen \/ e.pointer = "away")
    OBVIOUS
  <2>5. e' = [e EXCEPT !.pointer = e.pointer, !.unseen = b, !.keys = e.keys]
    BY <1>1, <1>7, <2>4 DEF SetCurrentTool, Environment, Environments
  <2>6. b \in BOOLEAN /\ (b \/ b = e.unseen)
    BY <1>2, <2>4
  <2> QED
    BY <1>1, <1>2, <2>1, <2>3, <2>5, <2>6, EnvironmentMayChange
<1> QED
  BY <1>3, <1>4, <1>5, <1>6, <1>7 DEF User

LEMMA ViewsAreGood ==
  ASSUME IsPlot, TypeOK, Good, Views
  PROVE  TypeOK' /\ Good'
<1>1. w \in Widgets /\ e \in Environments /\ All(w, e) /\ "away" \notin Places
  BY DEF TypeOK, Good, IsPlot
<1>2. ASSUME NEW s \in Sessions, NEW place \in Places, SetMapHover(s, place)
      PROVE  TypeOK' /\ Good'
  <2>1. e.pointer = "away" /\ ~e.unseen /\ e' = e
    BY <1>2 DEF SetMapHover
  <2>2. PICK x : /\ x = w'
                 /\ x = [MomentsTo(w, SetMomentPosition(w.moments, "mouse", place, {s}, TRUE)) EXCEPT !.hovered = s]
    BY <1>2 DEF SetMapHover
  <2>3. x \in Widgets /\ All(x, e)
    BY <1>1, <2>1, <2>2, MapHoverIsGood
  <2> QED
    BY <1>1, <2>1, <2>2, <2>3 DEF TypeOK, Good
<1>3. CASE ClearMapHover
  <2>1. e.pointer = "away" /\ ~e.unseen /\ e' = e
    BY <1>3 DEF ClearMapHover
  <2>2. PICK x : /\ x = w'
                 /\ x = [MomentsTo(w, SetMomentPosition(w.moments, "mouse", NoTime, {}, FALSE)) EXCEPT !.hovered = None]
    BY <1>3 DEF ClearMapHover
  <2>3. x \in Widgets /\ All(x, e)
    BY <1>1, <2>1, <2>2, ClearMapHoverIsGood
  <2> QED
    BY <1>1, <2>1, <2>2, <2>3 DEF TypeOK, Good
<1>4. ASSUME NEW place \in Places \cup {None}, VideoMoves(place)
      PROVE  TypeOK' /\ Good'
  <2>1. PICK x : /\ x = w'
                 /\ x = MomentsTo(w, IF place = None THEN SetMomentActive(w.moments, "video", FALSE)
                                     ELSE SetMomentPosition(w.moments, "video", place, {}, TRUE))
    BY <1>4 DEF VideoMoves
  <2>2. x \in Widgets /\ All(x, e)
    BY <1>1, <2>1, VideoMoveIsGood
  <2>3. e' = e
    BY <1>4 DEF VideoMoves
  <2> QED
    BY <1>1, <2>1, <2>2, <2>3 DEF TypeOK, Good
<1> QED
  BY <1>2, <1>3, <1>4 DEF Views

LEMMA ModelIsGood ==
  ASSUME IsPlot, TypeOK, Good, Model
  PROVE  TypeOK' /\ Good'
<1>1. w \in Widgets /\ e \in Environments /\ All(w, e) /\ Changing \subseteq Sessions
  BY DEF TypeOK, Good, IsPlot, Sessions
<1>2. ASSUME NEW shown \in SUBSET Sessions, ShowSessions(shown)
      PROVE  TypeOK' /\ Good'
  <2>1. PICK status : status = [s \in Sessions |-> IF s \in shown THEN "shown"
                                                    ELSE IF e.status[s] = "shown" THEN "hidden" ELSE e.status[s]]
    OBVIOUS
  <2>2. e.status \in [Sessions -> {"shown", "hidden", "stub"}]
    BY <1>1 DEF Environments
  <2>3. status \in [Sessions -> {"shown", "hidden", "stub"}]
    BY <2>1, <2>2
  <2>4. PICK env : env = [e EXCEPT !.status = status]
    OBVIOUS
  <2>5. env \in Environments /\ env.pointer = e.pointer /\ env.unseen = e.unseen
    BY <1>1, <2>3, <2>4 DEF Environments
  <2>6. ModelChanged(env)
    BY <1>2, <2>1, <2>4 DEF ShowSessions
  <2> QED
    BY <2>5, <2>6, ModelStepIsGood
<1>3. ASSUME NEW s \in Sessions, Evict(s)
      PROVE  TypeOK' /\ Good'
  <2>1. PICK en2 : en2 = e' /\ en2 = [e EXCEPT !.status[s] = "stub"]
    BY <1>3 DEF Evict, Environment
  <2>2. e.status[s] = "hidden" /\ w' = w
    BY <1>3 DEF Evict
  <2>3. en2 \in Environments /\ All(w, en2)
    BY <1>1, <2>1, <2>2, EvictIsGood
  <2> QED
    BY <1>1, <2>1, <2>2, <2>3 DEF TypeOK, Good
<1>4. ASSUME NEW s \in Changing, Calculated(s)
      PROVE  TypeOK' /\ Good'
  <2>1. PICK env : env = [e EXCEPT !.available[s] = ~@]
    OBVIOUS
  <2>2. env \in Environments /\ env.pointer = e.pointer /\ env.unseen = e.unseen
    BY <1>1, <2>1 DEF Environments
  <2>3. ModelChanged(env)
    BY <1>4, <2>1 DEF Calculated
  <2> QED
    BY <2>2, <2>3, ModelStepIsGood
<1>5. ASSUME NEW s \in Changing, EditInput(s)
      PROVE  TypeOK' /\ Good'
  <2>1. PICK en2 : en2 = e' /\ en2 = [e EXCEPT !.available[s] = ~@]
    BY <1>5 DEF EditInput, Environment
  <2>2. PICK x : x = w' /\ x = OnDependencyChanged(w, e)
    BY <1>5 DEF EditInput
  <2>3. en2 \in Environments /\ x \in Widgets /\ All(x, en2)
    BY <1>1, <2>1, <2>2, EditInputIsGood
  <2> QED
    BY <2>1, <2>2, <2>3 DEF TypeOK, Good
<1>6. ASSUME NEW s \in Changing, EditReference(s)
      PROVE  TypeOK' /\ Good'
  <2>1. PICK en2 : en2 = e' /\ en2 = [e EXCEPT !.referenced[s] = ~@]
    BY <1>6 DEF EditReference, Environment
  <2>2. PICK x : x = w' /\ x = IF e.relative THEN SchedulePlotRebuild(Told(w)) ELSE Told(w)
    BY <1>6 DEF EditReference, Told
  <2>3. s \in Sessions
    BY <1>1
  <2>4. en2 \in Environments /\ x \in Widgets /\ All(x, en2)
    BY <1>1, <2>1, <2>2, <2>3, ReferenceIsGood
  <2> QED
    BY <2>1, <2>2, <2>4 DEF TypeOK, Good
<1>7. CASE TogglePlot
  <2>1. PICK en2 : en2 = e' /\ en2 = [e EXCEPT !.enabled = ~@]
    BY <1>7 DEF TogglePlot, Environment
  <2>2. PICK x : x = w' /\ x = ScheduleLegend(UpdatePlot(w, en2))
    BY <1>7, <2>1 DEF TogglePlot
  <2>3. en2 \in Environments /\ x \in Widgets /\ All(x, en2)
    BY <1>1, <2>1, <2>2, TogglePlotIsGood
  <2> QED
    BY <2>1, <2>2, <2>3 DEF TypeOK, Good
<1>8. ASSUME NEW place \in Places, SetXVariable(place)
      PROVE  TypeOK' /\ Good'
  <2>1. PICK en2 : en2 = e' /\ en2 = OtherAxis([e EXCEPT !.xVar = IF @ = "utc" THEN "system" ELSE "utc"], place)
    BY <1>8 DEF SetXVariable, Environment
  <2>2. PICK x : x = w' /\ x = ScheduleLegend(UpdatePlot(w, en2))
    BY <1>8, <2>1 DEF SetXVariable
  <2>3. en2 \in Environments /\ x \in Widgets /\ All(x, en2)
    BY <1>1, <2>1, <2>2, SetXVariableIsGood
  <2> QED
    BY <2>1, <2>2, <2>3 DEF TypeOK, Good
<1>9. ASSUME NEW place \in Places, SetReferenceMarkerKey(place)
      PROVE  TypeOK' /\ Good'
  <2>1. PICK en2 : en2 = e' /\ en2 = OtherAxis([e EXCEPT !.relative = ~@], place)
    BY <1>9 DEF SetReferenceMarkerKey, Environment
  <2>2. PICK x : x = w' /\ x = ScheduleMomentUpdate(ScheduleLegend(UpdatePlot(w, en2)))
    BY <1>9, <2>1 DEF SetReferenceMarkerKey
  <2>3. en2 \in Environments /\ x \in Widgets /\ All(x, en2)
    BY <1>1, <2>1, <2>2, SetReferenceMarkerKeyIsGood
  <2> QED
    BY <2>1, <2>2, <2>3 DEF TypeOK, Good
<1> QED
  BY <1>2, <1>3, <1>4, <1>5, <1>6, <1>7, <1>8, <1>9 DEF Model
LEMMA EventLoopIsGood ==
  ASSUME IsPlot, TypeOK, Good, EventLoop
  PROVE  TypeOK' /\ Good'
<1>1. w \in Widgets /\ e \in Environments /\ All(w, e) /\ "away" \notin Places
  BY DEF TypeOK, Good, IsPlot
<1>2. PICK en2 : en2 = [e EXCEPT !.unseen = FALSE]
  OBVIOUS
<1>3. en2 \in Environments /\ SameSessions(e, en2) /\ en2.pointer = e.pointer
  BY <1>1, <1>2 DEF Environments, SameSessions, SameAxis
<1>4. CASE MouseMove
  <2>1. PICK a : a = [w EXCEPT !.inArea = InPlot(e)]
    OBVIOUS
  <2>2. PICK z : z = HandleMouseMove(a, e, e.pointer)
    OBVIOUS
  <2>3. PICK y : y = WriteMouseMoment(z, e, e.pointer, z.traced)
    OBVIOUS
  <2>4. PICK v : v = IF w.inArea /\ ~InPlot(e) THEN ScheduleMomentUpdate(y) ELSE y
    OBVIOUS
  <2>5. v \in Widgets /\ All(v, en2)
    BY <1>1, <1>3, <2>1, <2>2, <2>3, <2>4, MouseMoveIsGood
  <2>6. PICK sampled \in BOOLEAN : e' = en2 /\ w' = ToolMoves(v, e, sampled)
    BY <1>2, <1>4, <2>1, <2>2, <2>3, <2>4 DEF MouseMove, Environment
  <2>7. ToolMoves(v, e, sampled) = ToolMoves(v, en2, sampled)
    <3>1. Loaded(en2) = Loaded(e) /\ en2.enabled = e.enabled
      BY <1>3, SessionsAreKept DEF SameSessions
    <3> QED
      BY <3>1 DEF ToolMoves, UpdateMeasurement
  <2>8. PICK x : x = w' /\ x = ToolMoves(v, en2, sampled)
    BY <2>6, <2>7
  <2>9. x \in Widgets /\ All(x, en2)
    BY <1>3, <2>5, <2>8, ToolMovesIsGood
  <2> QED
    BY <1>3, <2>6, <2>8, <2>9 DEF TypeOK, Good
<1>5. CASE Leave
  <2>1. PICK z : z = HandleMouseLeave([w EXCEPT !.inArea = FALSE])
    OBVIOUS
  <2>2. PICK y : y = MomentsTo(z, SetMomentPosition(z.moments, "mouse", NoTime, {}, FALSE))
    OBVIOUS
  <2>3. PICK x : x = ScheduleMomentUpdate(y)
    OBVIOUS
  <2>4. e' = en2 /\ w' = x /\ e.pointer = "away"
    BY <1>2, <1>5, <2>1, <2>2, <2>3 DEF Leave, Environment
  <2>5. ~InPlot(en2)
    BY <1>1, <1>3, <2>4 DEF InPlot
  <2>6. x \in Widgets /\ All(x, en2)
    BY <1>1, <1>3, <2>1, <2>2, <2>3, <2>5, LeaveIsGood
  <2> QED
    BY <1>3, <2>4, <2>6 DEF TypeOK, Good
<1>6. CASE RebuildTimeout
  <2>1. PICK x : x = w' /\ x = UpdatePlot([w EXCEPT !.rebuildDue = FALSE], e)
    BY <1>6 DEF RebuildTimeout
  <2>2. x \in Widgets /\ All(x, e) /\ e' = e
    BY <1>1, <1>6, <2>1, RebuildTimeoutIsGood DEF RebuildTimeout
  <2> QED
    BY <1>1, <2>1, <2>2 DEF TypeOK, Good
<1>7. CASE OnMomentsChanged
  <2>1. PICK x : /\ x = w'
                 /\ x = [UpdateCrosshairFromMoments(w, e) EXCEPT !.momentDue = FALSE, !.missed = w.inArea /\ @]
    BY <1>7 DEF OnMomentsChanged
  <2>2. x \in Widgets /\ All(x, e)
    BY <1>1, <2>1, OnMomentsChangedIsGood
  <2>3. e' = e
    BY <1>7 DEF OnMomentsChanged
  <2> QED
    BY <1>1, <2>1, <2>2, <2>3 DEF TypeOK, Good
<1>8. CASE RecomputeLegend
  <2>1. PICK x : /\ x = w'
                 /\ x = [w EXCEPT !.legendDue = FALSE, !.blank = NoneHasData(w.moments["mouse"], e),
                                  !.legend = NewLegend(w, e)]
    BY <1>8 DEF RecomputeLegend, NewLegend
  <2>2. x \in Widgets /\ All(x, e)
    BY <1>1, <2>1, RecomputeLegendIsGood
  <2>3. e' = e
    BY <1>8 DEF RecomputeLegend
  <2> QED
    BY <1>1, <2>1, <2>2, <2>3 DEF TypeOK, Good
<1>9. CASE CheckModifiers
  <2>1. PICK x : x = w' /\ x = UpdateIfOverPlotArea([CtrlSeen(w, e) EXCEPT !.lastKeys = e.keys], e)
    BY <1>9 DEF CheckModifiers
  <2>2. w.over /\ e' = e
    BY <1>9 DEF CheckModifiers
  <2>3. x \in Widgets /\ All(x, e)
    BY <1>1, <2>1, <2>2, CheckModifiersIsGood
  <2> QED
    BY <1>1, <2>1, <2>2, <2>3 DEF TypeOK, Good
<1> QED
  BY <1>4, <1>5, <1>6, <1>7, <1>8, <1>9 DEF EventLoop

LEMMA InitIsGood ==
  ASSUME IsPlot, Init
  PROVE  TypeOK /\ Good
<1>. DEFINE none == NewMoment("")
            ms == RegisterMoments(<<>>, {"mouse", "video"}, "")
<1>1. none \in MomentRecords /\ ~none.active
  BY DEF NewMoment, Moment, MomentRecords, Positions, PositionsOfSome
<1>2. ms = [id \in MomentIds |-> none]
  BY DEF RegisterMoments, MomentIds
<1>. HIDE DEF none
<1>3. ms \in MomentModels /\ ~ms["mouse"].active /\ ~ms["video"].active
  BY <1>1, <1>2 DEF MomentModels, MomentIds
<1>4. PICK moments \in MomentModels : moments = ms
  BY <1>3
<1>. HIDE DEF ms
<1>5. w = [tool |-> "pan", measuring |-> FALSE, multi |-> FALSE, session |-> None, measured |-> "none",
           toolLock |-> None, lock |-> None, lastKeys |-> {}, over |-> FALSE, inArea |-> FALSE,
           hovered |-> None, traced |-> {}, cursor |-> None, graphs |-> {}, missed |-> FALSE,
           full |-> TRUE, rebuildDue |-> TRUE, momentDue |-> FALSE,
           legendDue |-> TRUE, legend |-> [mode |-> "clear", sessions |-> {}], blank |-> FALSE,
           moments |-> moments]
  BY <1>4 DEF Init, ms
<1>6. w \in Widgets
  BY <1>5 DEF Widgets, Someone, Positions, Legends
<1>7. e \in Environments
  BY DEF Init, Environments
<1>8. ~InPlot(e)
  BY DEF Init, InPlot, IsPlot
<1>9. Drawn(w, e)
  <2>1. w.rebuildDue /\ w.over = FALSE /\ w.inArea = FALSE /\ w.moments = moments
    BY <1>5
  <2>2. InPlot(e) = FALSE
    BY <1>8 DEF InPlot
  <2>3. MomentsHavePlaces(w)
    BY <1>3, <1>4, <2>1 DEF MomentsHavePlaces
  <2>4. OverIsInside(w) /\ FullIsDue(w) /\ PointerIsKnown(w, e)
    BY <2>1, <2>2 DEF OverIsInside, FullIsDue, PointerIsKnown
  <2>5. GraphsAreDrawable(w, e) /\ TracedIsUnder(w, e) /\ CursorKept(w, e)
    BY <2>1 DEF GraphsAreDrawable, TracedIsUnder, CursorKept
  <2> QED
    BY <2>3, <2>4, <2>5 DEF Drawn
<1>10. MeasureIsWhole(w) /\ LegendHears(w, e)
  BY <1>5 DEF MeasureIsWhole, LegendHears
<1> QED
  BY <1>6, <1>7, <1>9, <1>10 DEF TypeOK, Good, All

\* Whatever the sessions, the places, the keys and the length of the run, the
\* types are right and what is drawn agrees with the moments (PlotWidget.cpp).
THEOREM PlotInvariant == IsPlot => (Spec => []IInv)
<1>. SUFFICES ASSUME IsPlot
              PROVE  Spec => []IInv
  OBVIOUS
<1>1. Init => TypeOK /\ Good
  BY InitIsGood
<1>2. TypeOK /\ Good /\ [Next]_vars => (TypeOK /\ Good)'
  <2>. SUFFICES ASSUME TypeOK, Good, [Next]_vars
                PROVE  TypeOK' /\ Good'
    OBVIOUS
  <2>1. CASE UNCHANGED vars
    BY <2>1 DEF vars, TypeOK, Good
  <2>2. CASE Next
    BY <2>2, EventLoopIsGood, UserIsGood, ViewsAreGood, ModelIsGood DEF Next
  <2> QED
    BY <2>1, <2>2
<1>3. TypeOK /\ Good => IInv
  BY DEF Good, All, IInv
<1> QED
  BY <1>1, <1>2, <1>3, PTL DEF Spec
\* Whatever the sessions and places, the crosshair is true: with the pointer
\* in the plot the mouse moment names what is traced there, and elsewhere the
\* cursor is the one of the moment in effect, unless a redraw swallowed it
\* (CrosshairManager::updateTracers, PlotWidget::updateCrosshairFromMoments).
THEOREM CrosshairAlwaysTrue == IsPlot => (Spec => []CrosshairIsTrue)
<1>. SUFFICES ASSUME IsPlot
              PROVE  Spec => []CrosshairIsTrue
  OBVIOUS
<1>1. IInv => CrosshairIsTrue
  <2>. SUFFICES ASSUME IInv
                PROVE  CrosshairIsTrue
    OBVIOUS
  <2>1. w \in Widgets /\ InPlot(e) \in BOOLEAN /\ w.over \in BOOLEAN /\ w.inArea \in BOOLEAN
    BY DEF IInv, TypeOK, Widgets, InPlot
  <2>2. Redrawn => w.graphs \in {Drawable(e), {}}
    BY DEF IInv, Drawn, GraphsAreDrawable, Redrawn
  <2>3. AtRest => w.over = InPlot(e) /\ w.inArea = InPlot(e)
    BY DEF IInv, Drawn, PointerIsKnown, AtRest
  <2>4. AtRest /\ InPlot(e) => MouseTells(w, e, e.pointer)
    BY DEF IInv, Drawn, TracedIsUnder, AtRest, Redrawn
  <2>5. CrosshairTells
    BY <2>1, <2>2, <2>3, <2>4 DEF CrosshairTells, MouseTells, SomeConvertible
  <2>6. AtRest /\ ~InPlot(e) /\ ~w.missed => SameCursor(w, CursorOf(w, e))
    BY <2>1, <2>3 DEF IInv, Drawn, CursorKept, AtRest, Redrawn
  <2>7. CursorFollows
    BY <2>6 DEF CursorFollows, SameCursor
  <2> QED
    BY <2>5, <2>7 DEF CrosshairIsTrue
<1> QED
  BY <1>1, PlotInvariant, PTL

\* Whatever the sessions and places, the crosshair is locked by the measure
\* tool exactly while it measures one session, a measurement is one of the
\* measure tool, and the legend shows it or else what is traced
\* (MeasureTool::closeTool, LegendPresenter::recompute).
THEOREM MeasureAlwaysEnds == IsPlot => (Spec => []MeasureEnds)
<1>. SUFFICES ASSUME IsPlot
              PROVE  Spec => []MeasureEnds
  OBVIOUS
<1>1. IInv => MeasureEnds
  <2>. SUFFICES ASSUME IInv
                PROVE  MeasureEnds
    OBVIOUS
  <2>1. MeasureIsWhole(w)
    BY DEF IInv
  <2>2. ASSUME AtRest, InPlot(e), ~w.legendDue, w.measured = "none", ~w.blank,
               \E s \in w.traced : Convertible(e, s)
        PROVE  w.legend.sessions = w.traced
    <3>1. MouseTells(w, e, e.pointer)
      BY <2>2 DEF IInv, Drawn, TracedIsUnder, AtRest, Redrawn
    <3>2. w.moments["mouse"].active /\ w.moments["mouse"].targets = w.traced /\ w.traced \subseteq w.graphs
      BY <2>2, <3>1 DEF MouseTells, SomeConvertible, Candidates
    <3>3. EffectiveMoment(w) = "mouse"
      BY <2>2, <3>2 DEF EffectiveMoment
    <3>4. w.graphs = Drawable(e) /\ w.graphs # {}
      BY <2>2, <3>2 DEF IInv, Drawn, GraphsAreDrawable, AtRest, Redrawn
    <3>5. e.enabled /\ w.graphs \subseteq Shown(e)
      BY <3>4 DEF Drawable
    <3>6. w.legend.sessions = w.moments["mouse"].targets \cap Shown(e)
      BY <2>2, <3>3, <3>5 DEF IInv, LegendHears
    <3> QED
      BY <3>2, <3>5, <3>6
  <2> QED
    BY <2>1, <2>2 DEF MeasureIsWhole, MeasureEnds
<1> QED
  BY <1>1, PlotInvariant, PTL
=============================================================================
