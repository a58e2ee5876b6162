-------------------------------- MODULE Video --------------------------------
(* VideoWidget: scrubbing through a video that moves to a position late, on  *)
(* a frame nearby or not visibly at all, and the video moment that follows   *)
(* it on the plots and the map once the user tied a frame to a session's     *)
(* sync time. One seek is in flight at a time: a later one waits and the     *)
(* last one asked for is carried out when a frame or the watchdog ends the   *)
(* one before.                                                               *)
EXTENDS Moments, SequencesExt, Integers

CONSTANTS
  Rows,             \* the sessions in the order of their rows
  Views,            \* the sets of sessions that may be shown
  SyncTimes,        \* for each session, the sync times it may have
  HasSink,          \* whether the player shows its frames through a sink
  Duration,         \* the length of the video, in steps
  KeyFrame          \* for each position, the frame the player may show for it

\* A video has a length, what is shown are sessions, their sync times are times.
IsVideo ==
  /\ Duration \in Nat
  /\ Rows \in Seq(ToSet(Rows))
  /\ Views \subseteq SUBSET ToSet(Rows)
  /\ \A s \in ToSet(Rows) : SyncTimes[s] \subseteq Int

VARIABLES
  v,                \* the widget with its player, and the moments
  visible,          \* the sessions that are loaded and shown
  sync              \* the sync time of each session, or NoTime

vars == <<v, visible, sync>>

Nowhere == -1       \* no position
Positions == 0..Duration
Bounded(p, low, high) == IF p < low THEN low ELSE IF p > high THEN high ELSE p

-----------------------------------------------------------------------------
(* The moment                                                                *)

SyncedUtc(w, times) == IF w.selected = "" THEN NoTime ELSE times[w.selected]
IsSynced(w, times) == w.anchor # Nowhere /\ SyncedUtc(w, times) # NoTime

\* The targets of the moment are kept.
CursorTo(w, times, p) ==
  IF ~IsSynced(w, times) THEN w
  ELSE [w EXCEPT !.moments = SetMomentPosition(@, "video", SyncedUtc(w, times) + p - w.anchor,
                                               @["video"].targets, TRUE)]

SyncState(w, times) ==
  IF IsSynced(w, times) THEN CursorTo([w EXCEPT !.moments = SetMomentActive(@, "video", TRUE)], times, w.position)
  ELSE [w EXCEPT !.moments = SetMomentActive(@, "video", FALSE)]

-----------------------------------------------------------------------------
(* The slider and the seeks                                                  *)

SliderTo(w, p) == IF w.down THEN w ELSE [w EXCEPT !.slider = Bounded(p, 0, w.duration)]

\* onPositionChanged: while seeks are gated, and while the position asked for
\* is shown, the position of the player is not.
PositionChanged(w, times) ==
  IF w.connected \/ w.target # Nowhere THEN w
  ELSE CursorTo(SliderTo([w EXCEPT !.shown = FALSE], w.position), times, w.position)

CancelPendingSeek(w) == [w EXCEPT !.inFlight = FALSE, !.pending = Nowhere, !.connected = FALSE]

SetPosition(w, p) == [w EXCEPT !.goal = p]

\* A plausible slip: what is asked for while a seek is in flight is dropped.
SeekDropping(w, times, p) ==
  LET shown == SliderTo(CursorTo([w EXCEPT !.target = p, !.asked = p, !.shown = TRUE], times, p), p) IN
  IF ~HasSink THEN SetPosition(shown, p)
  ELSE IF w.inFlight THEN [shown EXCEPT !.connected = TRUE]
  ELSE SetPosition([shown EXCEPT !.connected = TRUE, !.inFlight = TRUE, !.pending = Nowhere], p)

Seek(w, times, p) ==
  LET shown == SliderTo(CursorTo([w EXCEPT !.target = p, !.asked = p, !.shown = TRUE], times, p), p) IN
  IF ~HasSink THEN SetPosition(shown, p)
  ELSE IF w.inFlight THEN [shown EXCEPT !.connected = TRUE, !.pending = p]
  ELSE SetPosition([shown EXCEPT !.connected = TRUE, !.inFlight = TRUE, !.pending = Nowhere], p)

\* A plausible slip: the waiting seek is asked for before the one that ended
\* is marked as ended.
SeekEndedLate(w, times) ==
  IF w.pending # Nowhere THEN Seek([w EXCEPT !.pending = Nowhere], times, w.pending)
  ELSE LET free == [CancelPendingSeek(w) EXCEPT !.target = Nowhere, !.shown = FALSE] IN
       CursorTo(SliderTo(free, w.position), times, w.position)

\* A frame or the watchdog: the seek that waited, or the true position.
SeekEnded(w, times) ==
  IF w.pending # Nowhere THEN Seek([w EXCEPT !.inFlight = FALSE, !.pending = Nowhere], times, w.pending)
  ELSE LET free == [CancelPendingSeek(w) EXCEPT !.target = Nowhere, !.shown = FALSE] IN
       CursorTo(SliderTo(free, w.position), times, w.position)

CurrentPosition(w) == IF w.target # Nowhere THEN w.target ELSE w.position

-----------------------------------------------------------------------------
(* The session selector                                                      *)

\* rebuildSessionSelector keeps the selection when it can; the combo box says
\* nothing of the change, the labels are brought up to date at the end.
FirstShown(shown) ==
  Rows[CHOOSE i \in DOMAIN Rows : Rows[i] \in shown /\ \A k \in 1..(i - 1) : Rows[k] \notin shown]

Rebuilt(w, shown, times) ==
  SyncState([w EXCEPT !.selected = IF shown = {} THEN "" ELSE IF @ \in shown THEN @ ELSE FirstShown(shown)],
            times)

-----------------------------------------------------------------------------
(* Actions: the user                                                         *)

\* One mouse: the buttons cannot be pressed while the slider is held.
Become(w) == v' = w /\ UNCHANGED <<visible, sync>>
Playing == v.state = "playing"

LoadVideo ==
  LET stopped == [CancelPendingSeek(SyncState([v EXCEPT !.anchor = Nowhere], sync)) EXCEPT
                    !.target = Nowhere, !.state = "stopped", !.position = 0, !.goal = Nowhere, !.asked = Nowhere, !.shown = FALSE]
  IN Become([PositionChanged(stopped, sync) EXCEPT !.loaded = TRUE, !.duration = 0, !.slider = IF v.down THEN @ ELSE 0])

PlayPause ==
  /\ v.loaded /\ ~v.down
  /\ Become(IF Playing THEN [v EXCEPT !.state = "paused"]
            ELSE [CancelPendingSeek(v) EXCEPT !.target = Nowhere, !.state = "playing", !.asked = Nowhere])

StepBackward ==
  v.loaded /\ Become(Seek([v EXCEPT !.state = "paused"], sync, Bounded(CurrentPosition(v) - 1, 0, Duration)))
StepForward ==
  LET next == CurrentPosition(v) + 1 IN
  /\ v.loaded /\ next \in Positions
  /\ Become(Seek([v EXCEPT !.state = "paused"], sync, IF v.duration > 0 THEN Bounded(next, 0, v.duration) ELSE next))

Wheel(step) ==
  LET current == CurrentPosition(v) IN
  /\ v.loaded
  /\ Become(Seek([v EXCEPT !.state = "paused"], sync,
                 Bounded(current + step, 0, IF v.duration > 0 THEN v.duration ELSE current)))

SliderPressed ==
  v.loaded /\ ~v.down /\ Become([v EXCEPT !.down = TRUE, !.resume = Playing, !.state = IF Playing THEN "paused" ELSE @])
SliderMoved(p) == v.down /\ p <= v.duration /\ Become(Seek([v EXCEPT !.slider = p], sync, p))
SliderReleased ==
  /\ v.down
  /\ LET freed == [CancelPendingSeek(v) EXCEPT !.target = Nowhere, !.down = FALSE, !.resume = FALSE,
                     !.asked = IF v.resume THEN Nowhere ELSE v.slider, !.shown = TRUE,
                     !.state = IF v.resume THEN "playing" ELSE @]
     IN Become(CursorTo(SetPosition(freed, v.slider), sync, v.slider))

MarkSync == v.loaded /\ ~v.down /\ Become(SyncState([v EXCEPT !.anchor = v.position], sync))
SelectSession(s) == s \in visible /\ ~v.down /\ Become(SyncState([v EXCEPT !.selected = s], sync))

-----------------------------------------------------------------------------
(* Actions: the sessions                                                     *)

ShowSessions(shown) == /\ visible' = shown
                       /\ v' = Rebuilt(v, shown, sync)
                       /\ UNCHANGED sync

\* A calculation or an edit gives a session a sync time or takes it away;
\* dependencyChanged of another session is not heard.
SyncTimeChanges(s, t) == /\ sync[s] # t
                         /\ sync' = [sync EXCEPT ![s] = t]
                         /\ v' = IF s = v.selected THEN SyncState(v, sync') ELSE v
                         /\ UNCHANGED visible

-----------------------------------------------------------------------------
(* Actions: the player                                                       *)

DurationKnown ==
  /\ v.loaded /\ v.duration = 0
  /\ Become(SliderTo([v EXCEPT !.duration = Duration], v.position))

\* The player reaches a position it was told, or the key frame near it, and
\* says so if it is another position than before.
Land(p) ==
  LET there == [v EXCEPT !.position = p, !.goal = Nowhere] IN
  /\ v.goal # Nowhere /\ p \in {v.goal, KeyFrame[v.goal]}
  /\ Become(IF p = v.position THEN there ELSE PositionChanged(there, sync))

Advance ==
  /\ Playing /\ v.goal = Nowhere /\ v.position < Duration
  /\ Become(PositionChanged([v EXCEPT !.position = @ + 1], sync))
EndOfMedia == Playing /\ v.position = Duration /\ Become([v EXCEPT !.state = "stopped"])

\* videoFrameChanged comes while a seek is in flight, whichever frame it is.
FrameArrives == v.inFlight /\ v.connected /\ Become(SeekEnded(v, sync))
Watchdog == v.inFlight /\ Become(SeekEnded(v, sync))

-----------------------------------------------------------------------------
Init ==
  /\ v = [loaded |-> FALSE, state |-> "stopped", position |-> 0, goal |-> Nowhere, duration |-> 0,
          slider |-> 0, down |-> FALSE, resume |-> FALSE, target |-> Nowhere, asked |-> Nowhere, shown |-> FALSE,
          inFlight |-> FALSE, pending |-> Nowhere, connected |-> FALSE, anchor |-> Nowhere, selected |-> "",
          moments |-> RegisterMoments(<<>>, {"mouse", "video"}, "")]
  /\ visible = {}
  /\ sync = [s \in ToSet(Rows) |-> NoTime]

UserSeeks == \/ LoadVideo \/ PlayPause \/ StepBackward \/ StepForward \/ SliderPressed \/ SliderReleased
             \/ \E step \in {-1, 1} : Wheel(step)
             \/ \E p \in Positions : SliderMoved(p)
Others == \/ MarkSync \/ \E s \in visible : SelectSession(s)
          \/ \E shown \in Views : ShowSessions(shown)
          \/ \E s \in ToSet(Rows) : \E t \in SyncTimes[s] \cup {NoTime} : SyncTimeChanges(s, t)
Player == \/ DurationKnown \/ \E p \in Positions : Land(p)
          \/ Advance \/ EndOfMedia \/ FrameArrives \/ Watchdog
Next == UserSeeks \/ Others \/ Player
Spec == Init /\ [][Next]_vars
\* The watchdog is a running timer of the event loop.
FairSpec == Spec /\ WF_vars(Watchdog)

-----------------------------------------------------------------------------
(* Properties                                                                *)

\* v.asked is the position the user asked for last, and v.shown says that what
\* is shown was asked for and not yet confirmed; the program keeps neither.
Settled == v.state # "playing" /\ HasSink /\ ~v.inFlight /\ v.goal = Nowhere /\ ~v.down /\ v.duration > 0

\* The moment is active exactly while a frame is tied to a session that has a
\* sync time. Once nothing moves any more, the player is where the user last
\* asked it to be, and the slider and the cursor tell where that is: no seek
\* is lost behind another and no position is held back for ever (seekVideo,
\* onVideoFrameChanged, onPositionChanged, updateSyncLabels). A drag and a Play
\* end without a frame: they show what was asked until the player reports.
CursorTellsTheFrame ==
  LET moment == v.moments["video"] IN
  /\ moment.active = IsSynced(v, sync)
  /\ Settled => /\ v.target = Nowhere
                /\ v.asked # Nowhere => v.position \in {v.asked, KeyFrame[v.asked]}
  /\ Settled /\ ~v.shown =>
       /\ v.slider = v.position
       /\ moment.active => moment.position = SyncedUtc(v, sync) + v.position - v.anchor

\* When the user leaves the video alone, the last seek ends, also if the
\* player never shows a frame for it ("don't let gating get stuck",
\* VideoWidget.cpp:242).
SeeksEnd == <>[][~UserSeeks]_vars => <>[](~v.inFlight)
=============================================================================
