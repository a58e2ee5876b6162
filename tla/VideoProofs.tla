----------------------------- MODULE VideoProofs -----------------------------
(* Proofs about Video for every length of the video, wherever its key frames *)
(* are, and for any number of sessions.                                      *)
EXTENDS Video, TLAPS, SequenceTheorems, WellFoundedInduction

------------------------------------------------------------------------------
(* The inductive invariant                                                   *)

Places == Nat \cup {Nowhere}
MomentRecords == [enabled : {TRUE}, group : {""}, position : Int \cup {NoTime}, active : BOOLEAN,
                  targets : {{}}, sessionPositions : {<<>>}]
MomentModels == [{"mouse", "video"} -> MomentRecords]
SyncModels == [ToSet(Rows) -> Int \cup {NoTime}]
Selections == {""} \cup ToSet(Rows)

Widgets ==
  [loaded : BOOLEAN, state : {"stopped", "paused", "playing"}, position : Positions, goal : Places,
   duration : {0, Duration}, slider : Nat, down : BOOLEAN, resume : BOOLEAN, target : Places,
   asked : Places, shown : BOOLEAN, inFlight : BOOLEAN, pending : Places, connected : BOOLEAN,
   anchor : Places, selected : Selections, moments : MomentModels]

TypeOK == v \in Widgets /\ sync \in SyncModels /\ visible \in SUBSET ToSet(Rows)

\* The moment is active exactly while a frame is tied to a session.
Told(w, times) == w.moments["video"].active = IsSynced(w, times)

\* What a seek in flight leaves behind goes with it, and while there is one
\* what is shown is what was asked for.
SeekIsWhole(w) ==
  /\ w.connected = w.inFlight
  /\ w.target # Nowhere => w.inFlight
  /\ w.pending # Nowhere => w.inFlight
  /\ w.inFlight => w.shown
  /\ w.inFlight \/ w.down => w.state # "playing"

\* What was asked for waits, is on its way, or is there.
AskedIsKept(w) ==
  /\ w.state = "playing" => w.asked = Nowhere
  /\ w.asked # Nowhere =>
       \/ w.pending = w.asked
       \/ w.pending = Nowhere /\ w.goal = w.asked
       \/ w.pending = Nowhere /\ w.goal = Nowhere /\ w.position \in {w.asked, KeyFrame[w.asked]}

\* Where the cursor is for a position.
CursorAt(w, times, p) == SyncedUtc(w, times) + p - w.anchor

\* What is shown and was not asked for is the position of the player.
ShownIsPosition(w, times) ==
  ~w.shown =>
    /\ ~w.down /\ w.duration > 0 => w.slider = w.position
    /\ IsSynced(w, times) => w.moments["video"].position = CursorAt(w, times, w.position)

Good(w, times) ==
  /\ w \in Widgets
  /\ Told(w, times)
  /\ HasSink => SeekIsWhole(w) /\ AskedIsKept(w) /\ ShownIsPosition(w, times)

IInv == TypeOK /\ Good(v, sync)

\* Rows that come before others.
Earlier == {r \in Nat \X Nat : r[1] < r[2]}

------------------------------------------------------------------------------
(* What the operators do                                                     *)

LEMMA EarlierIsWellFounded == IsWellFoundedOn(Earlier, Nat)
<1>1. Earlier = OpToRel(<, Nat)
  BY DEF Earlier, OpToRel
<1> QED
  BY <1>1, NatLessThanWellFounded, Zenon

\* All but the slider and the moments is as it was.
Keeps(x, w) ==
  /\ x \in Widgets
  /\ x.loaded = w.loaded /\ x.state = w.state /\ x.position = w.position /\ x.goal = w.goal
  /\ x.duration = w.duration /\ x.down = w.down /\ x.resume = w.resume /\ x.target = w.target
  /\ x.asked = w.asked /\ x.shown = w.shown /\ x.inFlight = w.inFlight /\ x.pending = w.pending
  /\ x.connected = w.connected /\ x.anchor = w.anchor /\ x.selected = w.selected

CursorMoves(x, w, times, p) ==
  /\ Keeps(x, w) /\ x.slider = w.slider
  /\ IsSynced(w, times) => /\ x.moments["video"].active = TRUE
                           /\ x.moments["video"].position = CursorAt(w, times, p)
  /\ ~IsSynced(w, times) => x = w

SliderMoves(x, w, p) ==
  /\ Keeps(x, w) /\ x.moments = w.moments
  /\ ~w.down /\ p <= w.duration => x.slider = p

StateIsSynced(x, w, times) ==
  /\ Keeps(x, w) /\ x.slider = w.slider
  /\ Told(x, times)
  /\ IsSynced(w, times) => x.moments["video"].position = CursorAt(w, times, w.position)

LEMMA NumbersAreBounded ==
  ASSUME NEW w \in Widgets, IsVideo
  PROVE  /\ Duration \in Nat /\ w.duration \in Nat /\ w.slider \in Nat
         /\ w.position \in Nat /\ w.position <= Duration
<1>1. Duration \in Nat
  BY DEF IsVideo
<1>2. w.duration \in {0, Duration} /\ w.slider \in Nat /\ w.position \in Positions
  BY DEF Widgets
<1> QED
  BY <1>1, <1>2 DEF Positions

LEMMA MomentsAreReplaced ==
  ASSUME NEW w \in Widgets, NEW ms \in MomentModels, NEW x, x = [w EXCEPT !.moments = ms]
  PROVE  Keeps(x, w) /\ x.slider = w.slider /\ x.moments = ms
  BY DEF Keeps, Widgets

LEMMA SyncedIsTime ==
  ASSUME NEW w \in Widgets, NEW times \in SyncModels, IsSynced(w, times)
  PROVE  SyncedUtc(w, times) \in Int /\ w.anchor \in Nat
<1>1. w.selected \in Selections /\ w.anchor \in Nat \cup {Nowhere}
  BY DEF Widgets, Places
<1>2. w.selected # "" => times[w.selected] \in Int \cup {NoTime}
  BY <1>1 DEF Selections, SyncModels
<1> QED
  BY <1>1, <1>2 DEF IsSynced, SyncedUtc

LEMMA SyncedIsKept ==
  ASSUME NEW w, NEW x, NEW times, Keeps(x, w)
  PROVE  /\ IsSynced(x, times) = IsSynced(w, times)
         /\ \A p : CursorAt(x, times, p) = CursorAt(w, times, p)
  BY DEF Keeps, IsSynced, SyncedUtc, CursorAt

LEMMA CursorToDoes ==
  ASSUME NEW w \in Widgets, NEW times \in SyncModels, NEW p \in Nat, NEW x, x = CursorTo(w, times, p)
  PROVE  CursorMoves(x, w, times, p)
<1>1. CASE ~IsSynced(w, times)
  <2>1. x = w
    BY <1>1 DEF CursorTo
  <2> QED
    BY <1>1, <2>1 DEF CursorMoves, Keeps
<1>2. CASE IsSynced(w, times)
  <2>. DEFINE old == w.moments["video"]
              utc == SyncedUtc(w, times) + p - w.anchor
              new == Moment(old.enabled, old.group, utc, TRUE, old.targets, <<>>)
              ms == [w.moments EXCEPT !["video"] = new]
  <2>1. utc \in Int
    BY <1>2, SyncedIsTime
  <2>2. w.moments \in MomentModels
    BY DEF Widgets
  <2>3. old \in MomentRecords /\ "video" \in DOMAIN w.moments
    BY <2>2 DEF MomentModels
  <2>4. new \in MomentRecords /\ new.active = TRUE /\ new.position = utc
    BY <2>1, <2>3 DEF Moment, MomentRecords
  <2>5. x = [w EXCEPT !.moments = ms]
    BY <1>2, <2>3 DEF CursorTo, SetMomentPosition
  <2>. HIDE DEF new
  <2>6. ms \in MomentModels /\ ms["video"] = new
    BY <2>2, <2>4 DEF MomentModels
  <2>. HIDE DEF ms
  <2>7. Keeps(x, w) /\ x.slider = w.slider /\ x.moments = ms
    BY <2>5, <2>6, MomentsAreReplaced
  <2> QED
    BY <1>2, <2>4, <2>6, <2>7 DEF CursorAt, CursorMoves
<1> QED
  BY <1>1, <1>2

LEMMA ActiveIsSet ==
  ASSUME NEW ms \in MomentModels, NEW b \in BOOLEAN, NEW mt, mt = SetMomentActive(ms, "video", b)
  PROVE  mt \in MomentModels /\ mt["video"].active = b
<1>1. DOMAIN ms = {"mouse", "video"} /\ ms["video"] \in MomentRecords
  BY DEF MomentModels
<1>. DEFINE new == [ms["video"] EXCEPT !.active = b]
<1>2. new \in MomentRecords /\ new.active = b
  BY <1>1 DEF MomentRecords
<1>3. mt = [ms EXCEPT !["video"] = new]
  BY <1>1 DEF SetMomentActive
<1>. HIDE DEF new
<1> QED
  BY <1>1, <1>2, <1>3 DEF MomentModels

LEMMA SyncStateDoes ==
  ASSUME NEW w \in Widgets, NEW times \in SyncModels, NEW x, x = SyncState(w, times), IsVideo
  PROVE  StateIsSynced(x, w, times)
<1>. DEFINE on == SetMomentActive(w.moments, "video", TRUE)
            off == SetMomentActive(w.moments, "video", FALSE)
<1>1. /\ on \in MomentModels /\ on["video"].active = TRUE
      /\ off \in MomentModels /\ off["video"].active = FALSE
  <2>1. w.moments \in MomentModels
    BY DEF Widgets
  <2> QED
    BY <2>1, ActiveIsSet
<1>2. CASE ~IsSynced(w, times)
  <2>1. x = [w EXCEPT !.moments = off]
    BY <1>2 DEF SyncState
  <2>. HIDE DEF off
  <2>2. Keeps(x, w) /\ x.slider = w.slider /\ x.moments = off
    BY <1>1, <2>1, MomentsAreReplaced
  <2>3. IsSynced(x, times) = FALSE
    BY <1>2, <2>2, SyncedIsKept DEF IsSynced
  <2> QED
    BY <1>1, <1>2, <2>2, <2>3 DEF Told, StateIsSynced
<1>3. CASE IsSynced(w, times)
  <2>. DEFINE u == [w EXCEPT !.moments = on]
  <2>1. x = CursorTo(u, times, w.position)
    BY <1>3 DEF SyncState
  <2>. HIDE DEF on
  <2>2. Keeps(u, w) /\ u.slider = w.slider
    BY <1>1, MomentsAreReplaced
  <2>. HIDE DEF u
  <2>3. u \in Widgets /\ w.position \in Nat
    BY <2>2, NumbersAreBounded DEF Keeps
  <2>4. IsSynced(u, times) /\ CursorAt(u, times, w.position) = CursorAt(w, times, w.position)
    BY <1>3, <2>2, SyncedIsKept
  <2>5. /\ Keeps(x, u) /\ x.slider = u.slider
        /\ x.moments["video"].active = TRUE
        /\ x.moments["video"].position = CursorAt(w, times, w.position)
    <3>1. CursorMoves(x, u, times, w.position)
      BY <2>1, <2>3, CursorToDoes
    <3> QED
      BY <2>4, <3>1 DEF CursorMoves
  <2>6. Keeps(x, w)
    BY <2>2, <2>5 DEF Keeps
  <2>7. IsSynced(x, times) = TRUE
    BY <1>3, <2>6, SyncedIsKept DEF IsSynced
  <2> QED
    BY <2>2, <2>5, <2>6, <2>7 DEF Told, StateIsSynced
<1> QED
  BY <1>2, <1>3

LEMMA SliderToDoes ==
  ASSUME NEW w \in Widgets, NEW p \in Nat, NEW x, x = SliderTo(w, p), IsVideo
  PROVE  SliderMoves(x, w, p)
<1>1. w.duration \in Nat
  BY NumbersAreBounded
<1>2. /\ Bounded(p, 0, w.duration) \in Nat
      /\ p <= w.duration => Bounded(p, 0, w.duration) = p
  BY <1>1 DEF Bounded
<1>3. x = IF w.down THEN w ELSE [w EXCEPT !.slider = Bounded(p, 0, w.duration)]
  BY DEF SliderTo
<1>. HIDE DEF Bounded
<1>4. CASE w.down
  <2>1. x = w
    BY <1>3, <1>4
  <2> QED
    BY <1>4, <2>1 DEF Keeps, SliderMoves
<1>5. CASE ~w.down
  <2>. DEFINE n == Bounded(p, 0, w.duration)
  <2>1. x = [w EXCEPT !.slider = n] /\ n \in Nat
    BY <1>2, <1>3, <1>5
  <2>. HIDE DEF n
  <2>2. Keeps(x, w)
    BY <2>1 DEF Keeps, Widgets
  <2>3. x.moments = w.moments /\ x.slider = n
    BY <2>1 DEF Widgets
  <2> QED
    BY <1>2, <2>2, <2>3 DEF SliderMoves, n
<1> QED
  BY <1>4, <1>5

LEMMA ToldIsKept ==
  ASSUME NEW w \in Widgets, NEW times \in SyncModels, NEW p \in Nat, NEW x, x = CursorTo(w, times, p),
         Told(w, times)
  PROVE  Told(x, times)
<1>. CursorMoves(x, w, times, p)
  BY CursorToDoes
<1>1. CASE ~IsSynced(w, times)
  BY <1>1 DEF CursorMoves
<1>2. CASE IsSynced(w, times)
  <2>1. Keeps(x, w) /\ x.moments["video"].active = TRUE
    BY <1>2 DEF CursorMoves
  <2>2. IsSynced(x, times) = TRUE
    BY <1>2, <2>1, SyncedIsKept DEF IsSynced
  <2> QED
    BY <2>1, <2>2 DEF Told
<1> QED
  BY <1>1, <1>2

\* The label and the cursor after the session, the anchor or the sync time changed.
LEMMA SyncStateIsGood ==
  ASSUME NEW w \in Widgets, NEW times \in SyncModels, NEW x, x = SyncState(w, times), IsVideo,
         HasSink => /\ SeekIsWhole(w) /\ AskedIsKept(w)
                    /\ ~w.shown /\ ~w.down /\ w.duration > 0 => w.slider = w.position
  PROVE  Good(x, times)
<1>0. StateIsSynced(x, w, times)
  BY SyncStateDoes
<1>1. /\ Keeps(x, w) /\ x.slider = w.slider /\ Told(x, times)
      /\ IsSynced(w, times) => x.moments["video"].position = CursorAt(w, times, w.position)
  BY <1>0 DEF StateIsSynced
<1>2. /\ IsSynced(x, times) = IsSynced(w, times)
      /\ CursorAt(x, times, w.position) = CursorAt(w, times, w.position)
  BY <1>1, SyncedIsKept
<1>3. x \in Widgets
  BY <1>1 DEF Keeps
<1>4. ASSUME HasSink
      PROVE  SeekIsWhole(x) /\ AskedIsKept(x) /\ ShownIsPosition(x, times)
  <2>1. SeekIsWhole(x)
    BY <1>1, <1>4 DEF SeekIsWhole, Keeps
  <2>2. AskedIsKept(x)
    BY <1>1, <1>4 DEF AskedIsKept, Keeps
  <2>3. ShownIsPosition(x, times)
    BY <1>1, <1>2, <1>4 DEF ShownIsPosition, Keeps
  <2> QED
    BY <2>1, <2>2, <2>3
<1> QED
  BY <1>1, <1>3, <1>4 DEF Good

\* The slider and the cursor follow the player unless a seek holds them back.
LEMMA PositionChangedIsGood ==
  ASSUME NEW w \in Widgets, NEW times \in SyncModels, NEW x, x = PositionChanged(w, times), IsVideo,
         Told(w, times),
         w.duration = 0 \/ w.duration = Duration,
         HasSink => SeekIsWhole(w) /\ AskedIsKept(w)
  PROVE  Good(x, times) /\ x.anchor = w.anchor
<1>1. CASE w.connected \/ w.target # Nowhere
  <2>1. x = w
    BY <1>1 DEF PositionChanged
  <2>2. ASSUME HasSink PROVE ShownIsPosition(w, times)
    BY <1>1, <2>2 DEF SeekIsWhole, ShownIsPosition
  <2> QED
    BY <2>1, <2>2 DEF Good
<1>2. CASE ~(w.connected \/ w.target # Nowhere)
  <2>. DEFINE u == [w EXCEPT !.shown = FALSE]
              s == SliderTo(u, w.position)
  <2>1. x = CursorTo(s, times, w.position)
    BY <1>2 DEF PositionChanged
  <2>2. /\ u \in Widgets
        /\ u.state = w.state /\ u.position = w.position /\ u.goal = w.goal /\ u.duration = w.duration
        /\ u.down = w.down /\ u.target = w.target /\ u.asked = w.asked /\ u.shown = FALSE
        /\ u.inFlight = w.inFlight /\ u.pending = w.pending /\ u.connected = w.connected
        /\ u.anchor = w.anchor /\ u.selected = w.selected /\ u.moments = w.moments
    BY DEF Widgets
  <2>3. w.position \in Nat /\ w.position <= Duration /\ w.duration \in Nat /\ Duration \in Nat
    BY NumbersAreBounded
  <2>. HIDE DEF u
  <2>4. /\ Keeps(s, u) /\ s.moments = w.moments
        /\ ~w.down /\ w.duration > 0 => s.slider = w.position
    <3>1. SliderMoves(s, u, w.position)
      BY <2>2, <2>3, SliderToDoes
    <3> QED
      BY <2>2, <2>3, <3>1 DEF SliderMoves
  <2>. HIDE DEF s
  <2>5. s \in Widgets
    BY <2>4 DEF Keeps
  <2>6. /\ IsSynced(s, times) = IsSynced(w, times)
        /\ CursorAt(s, times, w.position) = CursorAt(w, times, w.position)
    BY <2>2, <2>4 DEF Keeps, IsSynced, SyncedUtc, CursorAt
  <2>7. Told(s, times)
    BY <2>4, <2>6 DEF Told
  <2>8. Told(x, times)
    BY <2>1, <2>3, <2>5, <2>7, ToldIsKept
  <2>9. /\ Keeps(x, s) /\ x.slider = s.slider
        /\ IsSynced(s, times) => x.moments["video"].position = CursorAt(s, times, w.position)
    <3>1. CursorMoves(x, s, times, w.position)
      BY <2>1, <2>3, <2>5, CursorToDoes
    <3> QED
      BY <3>1 DEF CursorMoves
  <2>10. /\ x \in Widgets /\ x.state = w.state /\ x.position = w.position /\ x.goal = w.goal
         /\ x.duration = w.duration /\ x.down = w.down /\ x.target = w.target /\ x.asked = w.asked
         /\ x.shown = FALSE /\ x.inFlight = w.inFlight /\ x.pending = w.pending
         /\ x.connected = w.connected /\ x.anchor = w.anchor /\ x.selected = w.selected
    BY <2>2, <2>4, <2>9 DEF Keeps
  <2>11. ASSUME HasSink
         PROVE  SeekIsWhole(x) /\ AskedIsKept(x) /\ ShownIsPosition(x, times)
    <3>1. SeekIsWhole(x)
      BY <1>2, <2>10, <2>11 DEF SeekIsWhole
    <3>2. AskedIsKept(x)
      BY <2>10, <2>11 DEF AskedIsKept
    <3>3. /\ IsSynced(x, times) = IsSynced(w, times)
          /\ CursorAt(x, times, w.position) = CursorAt(w, times, w.position)
      BY <2>10 DEF IsSynced, SyncedUtc, CursorAt
    <3>4. ShownIsPosition(x, times)
      BY <2>4, <2>6, <2>9, <2>10, <3>3 DEF ShownIsPosition
    <3> QED
      BY <3>1, <3>2, <3>4
  <2> QED
    BY <2>8, <2>10, <2>11 DEF Good
<1> QED
  BY <1>1, <1>2

\* What is asked for is shown at once, and goes to the player or waits.
LEMMA SeekIsGood ==
  ASSUME NEW w \in Widgets, NEW times \in SyncModels, NEW p \in Nat, NEW x, x = Seek(w, times, p), IsVideo,
         Told(w, times), HasSink => w.state # "playing"
  PROVE  Good(x, times)
<1>. DEFINE u == [w EXCEPT !.target = p, !.asked = p, !.shown = TRUE]
            c == CursorTo(u, times, p)
            s == SliderTo(c, p)
<1>1. /\ u \in Widgets /\ u.state = w.state /\ u.target = p /\ u.asked = p /\ u.shown = TRUE
      /\ u.inFlight = w.inFlight /\ u.anchor = w.anchor /\ u.selected = w.selected /\ u.moments = w.moments
  BY DEF Widgets, Places
<1>2. x = IF ~HasSink THEN [s EXCEPT !.goal = p]
          ELSE IF w.inFlight THEN [s EXCEPT !.connected = TRUE, !.pending = p]
          ELSE [[s EXCEPT !.connected = TRUE, !.inFlight = TRUE, !.pending = Nowhere] EXCEPT !.goal = p]
  BY DEF Seek, SetPosition
<1>. HIDE DEF u
<1>3. Told(u, times)
  BY <1>1 DEF Told, IsSynced, SyncedUtc
<1>4. Keeps(c, u) /\ Told(c, times)
  <2>1. CursorMoves(c, u, times, p)
    BY <1>1, CursorToDoes
  <2>2. Told(c, times)
    BY <1>1, <1>3, ToldIsKept
  <2> QED
    BY <2>1, <2>2 DEF CursorMoves
<1>. HIDE DEF c
<1>5. c \in Widgets
  BY <1>4 DEF Keeps
<1>6. Keeps(s, c) /\ s.moments = c.moments
  <2>1. SliderMoves(s, c, p)
    BY <1>5, SliderToDoes
  <2> QED
    BY <2>1 DEF SliderMoves
<1>. HIDE DEF s
<1>7. Told(s, times)
  BY <1>4, <1>6, SyncedIsKept DEF Told
<1>8. /\ s \in Widgets /\ s.state = w.state /\ s.target = p /\ s.asked = p /\ s.shown = TRUE
      /\ s.inFlight = w.inFlight
  BY <1>1, <1>4, <1>6 DEF Keeps
<1>9. /\ x \in Widgets /\ x.state = w.state /\ x.target = p /\ x.asked = p /\ x.shown = TRUE
      /\ x.anchor = s.anchor /\ x.selected = s.selected /\ x.moments = s.moments
      /\ HasSink => /\ x.inFlight = TRUE /\ x.connected = TRUE
                    /\ x.pending = p \/ (x.pending = Nowhere /\ x.goal = p)
  <2>1. CASE ~HasSink
    <3>1. x = [s EXCEPT !.goal = p]
      BY <1>2, <2>1
    <3>2. s \in Widgets /\ p \in Places
      BY <1>8 DEF Places
    <3>3. /\ x \in Widgets /\ x.state = s.state /\ x.target = s.target /\ x.asked = s.asked
          /\ x.shown = s.shown /\ x.anchor = s.anchor /\ x.selected = s.selected
          /\ x.moments = s.moments
      BY <3>1, <3>2 DEF Widgets
    <3> QED
      BY <1>8, <2>1, <3>3
  <2>2. CASE HasSink /\ w.inFlight
    <3>1. x = [s EXCEPT !.connected = TRUE, !.pending = p]
      BY <1>2, <2>2
    <3>2. s \in Widgets /\ p \in Places
      BY <1>8 DEF Places
    <3>3. /\ x \in Widgets /\ x.state = s.state /\ x.target = s.target /\ x.asked = s.asked
          /\ x.shown = s.shown /\ x.anchor = s.anchor /\ x.selected = s.selected
          /\ x.moments = s.moments /\ x.inFlight = s.inFlight /\ x.connected = TRUE
          /\ x.pending = p
      BY <3>1, <3>2 DEF Widgets
    <3>4. s.inFlight = TRUE
      BY <1>8, <2>2 DEF Widgets
    <3> QED
      BY <1>8, <3>3, <3>4
  <2>3. CASE HasSink /\ ~w.inFlight
    <3>. DEFINE free == [s EXCEPT !.connected = TRUE, !.inFlight = TRUE, !.pending = Nowhere]
    <3>1. x = [free EXCEPT !.goal = p]
      BY <1>2, <2>3
    <3>2. /\ free \in Widgets /\ free.state = s.state /\ free.target = s.target /\ free.asked = s.asked
          /\ free.shown = s.shown /\ free.anchor = s.anchor /\ free.selected = s.selected
          /\ free.moments = s.moments /\ free.inFlight = TRUE /\ free.connected = TRUE
          /\ free.pending = Nowhere
      BY <1>8 DEF Widgets, Places
    <3>. HIDE DEF free
    <3>3. /\ x \in Widgets /\ x.state = free.state /\ x.target = free.target /\ x.asked = free.asked
          /\ x.shown = free.shown /\ x.anchor = free.anchor /\ x.selected = free.selected
          /\ x.moments = free.moments /\ x.inFlight = free.inFlight /\ x.connected = free.connected
          /\ x.pending = free.pending /\ x.goal = p
      <4>1. free \in Widgets /\ p \in Places
        BY <3>2 DEF Places
      <4> QED
        BY <3>1, <4>1 DEF Widgets
    <3> QED
      BY <1>8, <3>2, <3>3
  <2> QED
    BY <2>1, <2>2, <2>3
<1>10. Told(x, times)
  BY <1>7, <1>9 DEF Told, IsSynced, SyncedUtc
<1>11. ASSUME HasSink
       PROVE  SeekIsWhole(x) /\ AskedIsKept(x) /\ ShownIsPosition(x, times)
  BY <1>9, <1>11 DEF SeekIsWhole, AskedIsKept, ShownIsPosition
<1> QED
  BY <1>9, <1>10, <1>11 DEF Good

\* The seek that waited goes on; if none did, the true position is shown.
LEMMA SeekEndedIsGood ==
  ASSUME NEW w \in Widgets, NEW times \in SyncModels, NEW x, x = SeekEnded(w, times), IsVideo,
         Good(w, times), HasSink => w.state # "playing"
  PROVE  Good(x, times)
<1>1. CASE w.pending # Nowhere
  <2>. DEFINE u == [w EXCEPT !.inFlight = FALSE, !.pending = Nowhere]
  <2>1. x = Seek(u, times, w.pending)
    BY <1>1 DEF SeekEnded
  <2>2. /\ u \in Widgets /\ u.state = w.state /\ u.anchor = w.anchor /\ u.selected = w.selected
        /\ u.moments = w.moments /\ w.pending \in Nat
    BY <1>1 DEF Widgets, Places
  <2>. HIDE DEF u
  <2>3. Told(u, times)
    BY <2>2 DEF Good, Told, IsSynced, SyncedUtc
  <2> QED
    BY <2>1, <2>2, <2>3, SeekIsGood
<1>2. CASE w.pending = Nowhere
  <2>. DEFINE u == [[w EXCEPT !.inFlight = FALSE, !.pending = Nowhere, !.connected = FALSE]
                      EXCEPT !.target = Nowhere, !.shown = FALSE]
  <2>1. x = CursorTo(SliderTo(u, u.position), times, u.position)
    BY <1>2 DEF SeekEnded, CancelPendingSeek, Widgets
  <2>2. /\ u \in Widgets /\ u.state = w.state /\ u.position = w.position /\ u.goal = w.goal
        /\ u.duration = w.duration /\ u.down = w.down /\ u.target = Nowhere /\ u.asked = w.asked
        /\ u.shown = FALSE /\ u.inFlight = FALSE /\ u.pending = Nowhere /\ u.connected = FALSE
        /\ u.anchor = w.anchor /\ u.selected = w.selected /\ u.moments = w.moments
        /\ u = [u EXCEPT !.shown = FALSE]
    BY DEF Widgets, Places
  <2>. HIDE DEF u
  <2>3. x = PositionChanged(u, times)
    BY <2>1, <2>2 DEF PositionChanged
  <2>4. Told(u, times)
    BY <2>2 DEF Good, Told, IsSynced, SyncedUtc
  <2>5. ASSUME HasSink PROVE SeekIsWhole(u) /\ AskedIsKept(u)
    BY <1>2, <2>2, <2>5 DEF Good, SeekIsWhole, AskedIsKept
  <2>6. u.duration = 0 \/ u.duration = Duration
    BY <2>2 DEF Widgets
  <2> QED
    BY <2>2, <2>3, <2>4, <2>5, <2>6, PositionChangedIsGood
<1> QED
  BY <1>1, <1>2

\* The first session that is shown is a session.
LEMMA FirstShownIsSession ==
  ASSUME IsVideo, NEW shown \in SUBSET ToSet(Rows), shown # {}
  PROVE  FirstShown(shown) \in ToSet(Rows)
<1>. DEFINE S == {i \in DOMAIN Rows : Rows[i] \in shown}
<1>1. DOMAIN Rows = 1..Len(Rows) /\ Len(Rows) \in Nat
  BY DEF IsVideo
<1>2. S \subseteq Nat /\ S # {}
  BY <1>1 DEF ToSet
<1>3. PICK m \in S : \A i \in S : <<i, m>> \notin Earlier
  BY <1>2, EarlierIsWellFounded, WFMin
<1>4. \A k \in 1..(m - 1) : Rows[k] \notin shown
  <2>1. SUFFICES ASSUME NEW k \in 1..(m - 1), Rows[k] \in shown
                 PROVE  FALSE
    OBVIOUS
  <2>2. m \in DOMAIN Rows /\ k \in S /\ k < m
    BY <1>1, <2>1
  <2>3. <<k, m>> \in Nat \X Nat /\ <<k, m>>[1] < <<k, m>>[2]
    BY <1>2, <2>2
  <2> QED
    BY <1>3, <2>2, <2>3 DEF Earlier
<1>5. FirstShown(shown) = Rows[CHOOSE i \in DOMAIN Rows : Rows[i] \in shown /\ \A k \in 1..(i - 1) : Rows[k] \notin shown]
  BY DEF FirstShown
<1> QED
  BY <1>3, <1>4, <1>5 DEF ToSet

------------------------------------------------------------------------------
(* The initial states and the steps                                          *)

LEMMA InitGood ==
  ASSUME IsVideo, Init
  PROVE  IInv
<1>1. v.moments = RegisterMoments(<<>>, {"mouse", "video"}, "")
  BY DEF Init
<1>2. RegisterMoments(<<>>, {"mouse", "video"}, "") = [id \in {"mouse", "video"} |-> NewMoment("")]
  BY DEF RegisterMoments
<1>3. NewMoment("") \in MomentRecords /\ NewMoment("").active = FALSE
  BY DEF NewMoment, Moment, MomentRecords
<1>4. v.moments \in MomentModels /\ v.moments["video"].active = FALSE
  BY <1>1, <1>2, <1>3 DEF MomentModels
<1>5. 0 \in Positions
  BY NumbersAreBounded DEF Positions, IsVideo
<1>6. v \in Widgets
  BY <1>4, <1>5 DEF Init, Widgets, Places, Selections
<1>7. sync \in SyncModels /\ visible \in SUBSET ToSet(Rows)
  BY DEF Init, SyncModels
<1>8. Told(v, sync) /\ ~IsSynced(v, sync)
  BY <1>4 DEF Init, Told, IsSynced
<1>9. SeekIsWhole(v) /\ AskedIsKept(v)
  BY DEF Init, SeekIsWhole, AskedIsKept
<1>10. ShownIsPosition(v, sync)
  BY <1>8 DEF Init, ShownIsPosition
<1> QED
  BY <1>6, <1>7, <1>8, <1>9, <1>10 DEF IInv, TypeOK, Good

\* Most actions change the widget alone.
LEMMA BecomesGood ==
  ASSUME IInv, NEW w, Good(w, sync), Become(w)
  PROVE  IInv'
<1>1. v' = w /\ visible' = visible /\ sync' = sync
  BY DEF Become
<1>2. Good(v', sync')
  BY <1>1
<1>3. TypeOK'
  BY <1>1, <1>2 DEF IInv, TypeOK, Good
<1> QED
  BY <1>2, <1>3 DEF IInv

LEMMA LoadVideoGood ==
  ASSUME IsVideo, IInv, LoadVideo
  PROVE  IInv'
<1>. DEFINE a == [v EXCEPT !.anchor = Nowhere]
            u == SyncState(a, sync)
            c == CancelPendingSeek(u)
            s == [c EXCEPT !.target = Nowhere, !.state = "stopped", !.position = 0, !.goal = Nowhere,
                           !.asked = Nowhere, !.shown = FALSE]
            y == PositionChanged(s, sync)
            x == [y EXCEPT !.loaded = TRUE, !.duration = 0, !.slider = IF v.down THEN @ ELSE 0]
<1>1. v \in Widgets /\ sync \in SyncModels
  BY DEF IInv, TypeOK
<1>2. Become(x)
  BY DEF LoadVideo
<1>3. a \in Widgets /\ a.anchor = Nowhere
  BY <1>1 DEF Widgets, Places
<1>. HIDE DEF a
<1>4. StateIsSynced(u, a, sync)
  BY <1>1, <1>3, SyncStateDoes
<1>5. /\ u \in Widgets /\ u.anchor = Nowhere
      /\ u.moments["video"].active = IsSynced(u, sync)
  BY <1>3, <1>4 DEF StateIsSynced, Keeps, Told
<1>. HIDE DEF u
<1>6. /\ c \in Widgets /\ c.anchor = Nowhere /\ c.moments = u.moments
      /\ c.inFlight = FALSE /\ c.pending = Nowhere /\ c.connected = FALSE
  <2>1. u \in Widgets /\ Nowhere \in Places
    BY <1>5 DEF Places
  <2>2. c \in Widgets
    BY <2>1 DEF CancelPendingSeek, Widgets
  <2>3. c.inFlight = FALSE /\ c.pending = Nowhere /\ c.connected = FALSE
    BY <2>1 DEF CancelPendingSeek, Widgets
  <2> QED
    BY <1>5, <2>1, <2>2, <2>3 DEF CancelPendingSeek, Widgets
<1>. HIDE DEF c
<1>7. 0 \in Positions
  BY DEF IsVideo, Positions
<1>8. /\ s \in Widgets /\ s.anchor = Nowhere /\ s.moments = u.moments
      /\ s.inFlight = FALSE /\ s.pending = Nowhere /\ s.connected = FALSE
      /\ s.target = Nowhere /\ s.state = "stopped" /\ s.asked = Nowhere
      /\ s.duration = 0 \/ s.duration = Duration
  BY <1>6, <1>7 DEF Widgets, Places
<1>. HIDE DEF s
<1>9. Told(s, sync)
  BY <1>5, <1>8 DEF Told, IsSynced
<1>10. SeekIsWhole(s) /\ AskedIsKept(s)
  BY <1>8 DEF SeekIsWhole, AskedIsKept
<1>11. Good(y, sync) /\ y.anchor = Nowhere
  BY <1>1, <1>8, <1>9, <1>10, PositionChangedIsGood
<1>. HIDE DEF y
<1>12. y \in Widgets
  BY <1>11 DEF Good
<1>13. /\ x \in Widgets /\ x.state = y.state /\ x.position = y.position /\ x.goal = y.goal
       /\ x.duration = 0 /\ x.down = y.down /\ x.target = y.target /\ x.asked = y.asked
       /\ x.shown = y.shown /\ x.inFlight = y.inFlight /\ x.pending = y.pending
       /\ x.connected = y.connected /\ x.anchor = Nowhere /\ x.moments = y.moments
  BY <1>11, <1>12 DEF Widgets
<1>. HIDE DEF x
<1>14. Told(x, sync)
  BY <1>11, <1>13 DEF Good, Told, IsSynced
<1>15. ASSUME HasSink
       PROVE  SeekIsWhole(x) /\ AskedIsKept(x) /\ ShownIsPosition(x, sync)
  <2>1. SeekIsWhole(y) /\ AskedIsKept(y)
    BY <1>11, <1>15 DEF Good
  <2>2. SeekIsWhole(x)
    BY <1>13, <2>1 DEF SeekIsWhole
  <2>3. AskedIsKept(x)
    BY <1>13, <2>1 DEF AskedIsKept
  <2>4. ShownIsPosition(x, sync)
    BY <1>13 DEF ShownIsPosition, IsSynced
  <2> QED
    BY <2>2, <2>3, <2>4
<1>16. Good(x, sync)
  BY <1>13, <1>14, <1>15 DEF Good
<1> QED
  BY <1>2, <1>16, BecomesGood

\* What an action that moves neither the position nor the moment must keep.
LEMMA StaysGood ==
  ASSUME NEW w, Good(w, sync), NEW x \in Widgets,
         x.anchor = w.anchor, x.selected = w.selected, x.moments = w.moments, x.position = w.position,
         HasSink => /\ SeekIsWhole(x) /\ AskedIsKept(x)
                    /\ ~x.shown => ~w.shown /\ (~x.down => ~w.down /\ x.slider = w.slider /\ x.duration = w.duration)
  PROVE  Good(x, sync)
<1>1. /\ IsSynced(x, sync) = IsSynced(w, sync)
      /\ CursorAt(x, sync, x.position) = CursorAt(w, sync, w.position)
  BY DEF IsSynced, SyncedUtc, CursorAt
<1>2. Told(x, sync)
  BY <1>1 DEF Good, Told
<1>3. ASSUME HasSink PROVE ShownIsPosition(x, sync)
  BY <1>1, <1>3 DEF Good, ShownIsPosition
<1> QED
  BY <1>2, <1>3 DEF Good

LEMMA PlayPauseGood ==
  ASSUME IsVideo, IInv, PlayPause
  PROVE  IInv'
<1>1. v \in Widgets /\ Good(v, sync)
  BY DEF IInv, TypeOK
<1>2. CASE Playing
  <2>. DEFINE x == [v EXCEPT !.state = "paused"]
  <2>1. Become(x) /\ ~v.down
    BY <1>2 DEF PlayPause
  <2>2. /\ x \in Widgets /\ x.state = "paused" /\ x.position = v.position /\ x.goal = v.goal
        /\ x.duration = v.duration /\ x.slider = v.slider /\ x.down = v.down /\ x.target = v.target
        /\ x.asked = v.asked /\ x.shown = v.shown /\ x.inFlight = v.inFlight /\ x.pending = v.pending
        /\ x.connected = v.connected /\ x.anchor = v.anchor /\ x.selected = v.selected /\ x.moments = v.moments
    BY <1>1 DEF Widgets
  <2>. HIDE DEF x
  <2>3. ASSUME HasSink PROVE SeekIsWhole(x) /\ AskedIsKept(x)
    BY <1>1, <1>2, <2>2, <2>3 DEF Good, SeekIsWhole, AskedIsKept, Playing
  <2>4. Good(x, sync)
    BY <1>1, <2>1, <2>2, <2>3, StaysGood
  <2> QED
    BY <2>1, <2>4, BecomesGood
<1>3. CASE ~Playing
  <2>. DEFINE c == CancelPendingSeek(v)
              x == [c EXCEPT !.target = Nowhere, !.state = "playing", !.asked = Nowhere]
  <2>1. Become(x) /\ ~v.down
    BY <1>3 DEF PlayPause
  <2>2. /\ c \in Widgets /\ c.position = v.position
        /\ c.duration = v.duration /\ c.slider = v.slider /\ c.down = v.down
        /\ c.shown = v.shown /\ c.inFlight = FALSE /\ c.pending = Nowhere
        /\ c.connected = FALSE /\ c.anchor = v.anchor /\ c.selected = v.selected /\ c.moments = v.moments
    BY <1>1 DEF CancelPendingSeek, Widgets, Places
  <2>. HIDE DEF c
  <2>3. /\ x \in Widgets /\ x.position = v.position
        /\ x.duration = v.duration /\ x.slider = v.slider /\ x.down = v.down /\ x.target = Nowhere
        /\ x.asked = Nowhere /\ x.shown = v.shown /\ x.inFlight = FALSE /\ x.pending = Nowhere
        /\ x.connected = FALSE /\ x.anchor = v.anchor /\ x.selected = v.selected /\ x.moments = v.moments
    <3>1. c \in Widgets /\ Nowhere \in Places
      BY <2>2 DEF Places
    <3>2. /\ x \in Widgets /\ x.position = c.position
          /\ x.duration = c.duration /\ x.slider = c.slider /\ x.down = c.down /\ x.target = Nowhere
          /\ x.asked = Nowhere /\ x.shown = c.shown /\ x.inFlight = c.inFlight /\ x.pending = c.pending
          /\ x.connected = c.connected /\ x.anchor = c.anchor /\ x.selected = c.selected
          /\ x.moments = c.moments
      BY <3>1 DEF Widgets
    <3>. HIDE DEF x
    <3> QED
      BY <2>2, <3>2
  <2>. HIDE DEF x
  <2>4. SeekIsWhole(x) /\ AskedIsKept(x)
    BY <2>1, <2>3 DEF SeekIsWhole, AskedIsKept
  <2>5. Good(x, sync)
    BY <1>1, <2>1, <2>3, <2>4, StaysGood
  <2> QED
    BY <2>1, <2>5, BecomesGood
<1> QED
  BY <1>2, <1>3

LEMMA BoundedIsNatural ==
  ASSUME NEW p \in Int, NEW high \in Nat
  PROVE  Bounded(p, 0, high) \in Nat
  BY DEF Bounded

LEMMA CurrentPositionIsNatural ==
  ASSUME IsVideo, NEW w \in Widgets
  PROVE  CurrentPosition(w) \in Nat
<1>1. w.position \in Nat
  BY NumbersAreBounded
<1>2. w.target \in Places
  BY DEF Widgets
<1> QED
  BY <1>1, <1>2 DEF CurrentPosition, Places

\* The buttons and the wheel pause the video and seek.
LEMMA PausedSeekGood ==
  ASSUME IsVideo, IInv, NEW p \in Nat, Become(Seek([v EXCEPT !.state = "paused"], sync, p))
  PROVE  IInv'
<1>. DEFINE u == [v EXCEPT !.state = "paused"]
<1>1. v \in Widgets /\ sync \in SyncModels /\ Told(v, sync)
  BY DEF IInv, TypeOK, Good
<1>2. /\ u \in Widgets /\ u.state = "paused" /\ u.anchor = v.anchor /\ u.selected = v.selected
      /\ u.moments = v.moments
  BY <1>1 DEF Widgets
<1>3. Become(Seek(u, sync, p))
  OBVIOUS
<1>. HIDE DEF u
<1>4. Told(u, sync)
  BY <1>1, <1>2 DEF Told, IsSynced, SyncedUtc
<1>5. u.state # "playing"
  BY <1>2
<1>6. Good(Seek(u, sync, p), sync)
  BY <1>1, <1>2, <1>4, <1>5, SeekIsGood
<1> QED
  BY <1>3, <1>6, BecomesGood

LEMMA StepsGood ==
  ASSUME IsVideo, IInv, StepBackward \/ StepForward \/ \E step \in {-1, 1} : Wheel(step)
  PROVE  IInv'
<1>1. v \in Widgets
  BY DEF IInv, TypeOK
<1>2. CurrentPosition(v) \in Nat /\ Duration \in Nat /\ v.duration \in Nat
  BY <1>1, CurrentPositionIsNatural, NumbersAreBounded
<1>3. CASE StepBackward
  <2>1. Bounded(CurrentPosition(v) - 1, 0, Duration) \in Nat
    BY <1>2 DEF Bounded
  <2> QED
    BY <1>3, <2>1, PausedSeekGood DEF StepBackward
<1>4. CASE StepForward
  <2>. DEFINE p == IF v.duration > 0 THEN Bounded(CurrentPosition(v) + 1, 0, v.duration)
                   ELSE CurrentPosition(v) + 1
  <2>1. Bounded(CurrentPosition(v) + 1, 0, v.duration) \in Nat
    BY <1>2 DEF Bounded
  <2>2. p \in Nat
    BY <1>2, <2>1
  <2>3. Become(Seek([v EXCEPT !.state = "paused"], sync, p))
    BY <1>4 DEF StepForward
  <2>. HIDE DEF p
  <2> QED
    BY <2>2, <2>3, PausedSeekGood
<1>5. ASSUME NEW step \in {-1, 1}, Wheel(step)
      PROVE  IInv'
  <2>. DEFINE high == IF v.duration > 0 THEN v.duration ELSE CurrentPosition(v)
  <2>1. high \in Nat /\ CurrentPosition(v) + step \in Int
    BY <1>2
  <2>2. Become(Seek([v EXCEPT !.state = "paused"], sync, Bounded(CurrentPosition(v) + step, 0, high)))
    BY <1>5 DEF Wheel
  <2>. HIDE DEF high
  <2>3. Bounded(CurrentPosition(v) + step, 0, high) \in Nat
    BY <2>1, BoundedIsNatural
  <2> QED
    BY <2>2, <2>3, PausedSeekGood
<1> QED
  BY <1>3, <1>4, <1>5

LEMMA SliderPressedGood ==
  ASSUME IsVideo, IInv, SliderPressed
  PROVE  IInv'
<1>. DEFINE x == [v EXCEPT !.down = TRUE, !.resume = Playing, !.state = IF Playing THEN "paused" ELSE @]
<1>1. v \in Widgets /\ Good(v, sync)
  BY DEF IInv, TypeOK
<1>2. Become(x)
  BY DEF SliderPressed
<1>3. /\ x \in Widgets /\ x.state # "playing" /\ x.position = v.position /\ x.goal = v.goal
      /\ x.down = TRUE /\ x.target = v.target /\ x.asked = v.asked /\ x.shown = v.shown
      /\ x.inFlight = v.inFlight /\ x.pending = v.pending /\ x.connected = v.connected
      /\ x.anchor = v.anchor /\ x.selected = v.selected /\ x.moments = v.moments
  BY <1>1 DEF Widgets, Playing
<1>. HIDE DEF x
<1>4. ASSUME HasSink PROVE SeekIsWhole(x) /\ AskedIsKept(x)
  BY <1>1, <1>3, <1>4 DEF Good, SeekIsWhole, AskedIsKept
<1>5. Good(x, sync)
  BY <1>1, <1>3, <1>4, StaysGood
<1> QED
  BY <1>2, <1>5, BecomesGood

LEMMA SliderMovedGood ==
  ASSUME IsVideo, IInv, NEW p \in Positions, SliderMoved(p)
  PROVE  IInv'
<1>. DEFINE u == [v EXCEPT !.slider = p]
<1>1. v \in Widgets /\ sync \in SyncModels /\ Good(v, sync) /\ p \in Nat
  BY DEF IInv, TypeOK, Positions
<1>2. /\ u \in Widgets /\ u.state = v.state /\ u.anchor = v.anchor /\ u.selected = v.selected
      /\ u.moments = v.moments
  BY <1>1 DEF Widgets
<1>3. Become(Seek(u, sync, p)) /\ v.down
  BY DEF SliderMoved
<1>. HIDE DEF u
<1>4. Told(u, sync)
  BY <1>1, <1>2 DEF Good, Told, IsSynced, SyncedUtc
<1>5. HasSink => u.state # "playing"
  BY <1>1, <1>2, <1>3 DEF Good, SeekIsWhole
<1>6. Good(Seek(u, sync, p), sync)
  BY <1>1, <1>2, <1>4, <1>5, SeekIsGood
<1> QED
  BY <1>3, <1>6, BecomesGood

LEMMA SliderReleasedGood ==
  ASSUME IsVideo, IInv, SliderReleased
  PROVE  IInv'
<1>. DEFINE c == CancelPendingSeek(v)
            f == [c EXCEPT !.target = Nowhere, !.down = FALSE, !.resume = FALSE,
                           !.asked = IF v.resume THEN Nowhere ELSE v.slider, !.shown = TRUE,
                           !.state = IF v.resume THEN "playing" ELSE @]
            g == [f EXCEPT !.goal = v.slider]
            x == CursorTo(g, sync, v.slider)
<1>1. v \in Widgets /\ sync \in SyncModels /\ Good(v, sync) /\ v.slider \in Nat
  <2>1. v \in Widgets /\ sync \in SyncModels /\ Good(v, sync)
    BY DEF IInv, TypeOK
  <2> QED
    BY <2>1, NumbersAreBounded
<1>2. Become(x) /\ v.down
  BY DEF SliderReleased, SetPosition
<1>3. /\ c \in Widgets /\ c.state = v.state /\ c.inFlight = FALSE /\ c.pending = Nowhere
      /\ c.connected = FALSE /\ c.anchor = v.anchor /\ c.selected = v.selected /\ c.moments = v.moments
  BY <1>1 DEF CancelPendingSeek, Widgets, Places
<1>. HIDE DEF c
<1>4. /\ f \in Widgets /\ f.target = Nowhere /\ f.down = FALSE /\ f.shown = TRUE
      /\ f.inFlight = FALSE /\ f.pending = Nowhere
      /\ f.connected = FALSE /\ f.anchor = v.anchor /\ f.selected = v.selected /\ f.moments = v.moments
      /\ f.asked = IF v.resume THEN Nowhere ELSE v.slider
      /\ f.state = IF v.resume THEN "playing" ELSE v.state
  <2>1. v.slider \in Places /\ Nowhere \in Places
    BY <1>1 DEF Places
  <2> QED
    BY <1>3, <2>1 DEF Widgets
<1>. HIDE DEF f
<1>5. /\ g \in Widgets /\ g.target = Nowhere /\ g.down = FALSE /\ g.shown = TRUE
      /\ g.inFlight = FALSE /\ g.pending = Nowhere /\ g.goal = v.slider
      /\ g.connected = FALSE /\ g.anchor = v.anchor /\ g.selected = v.selected /\ g.moments = v.moments
      /\ g.asked = f.asked /\ g.state = f.state
  <2>1. v.slider \in Places
    BY <1>1 DEF Places
  <2> QED
    BY <1>4, <2>1 DEF Widgets
<1>. HIDE DEF g
<1>6. Told(g, sync)
  BY <1>1, <1>5 DEF Good, Told, IsSynced, SyncedUtc
<1>7. Told(x, sync) /\ CursorMoves(x, g, sync, v.slider)
  BY <1>1, <1>5, <1>6, ToldIsKept, CursorToDoes
<1>. HIDE DEF x
<1>8. /\ x \in Widgets /\ x.target = Nowhere /\ x.down = FALSE /\ x.shown = TRUE
      /\ x.inFlight = FALSE /\ x.pending = Nowhere /\ x.goal = v.slider /\ x.connected = FALSE
      /\ x.asked = g.asked /\ x.state = g.state
  BY <1>5, <1>7 DEF CursorMoves, Keeps
<1>9. ASSUME HasSink
      PROVE  SeekIsWhole(x) /\ AskedIsKept(x) /\ ShownIsPosition(x, sync)
  <2>1. v.state # "playing"
    BY <1>1, <1>2, <1>9 DEF Good, SeekIsWhole
  <2>2. SeekIsWhole(x)
    BY <1>8 DEF SeekIsWhole
  <2>3. AskedIsKept(x)
    BY <1>4, <1>5, <1>8, <2>1 DEF AskedIsKept
  <2>4. ShownIsPosition(x, sync)
    BY <1>8 DEF ShownIsPosition
  <2> QED
    BY <2>2, <2>3, <2>4
<1>10. Good(x, sync)
  BY <1>7, <1>8, <1>9 DEF Good
<1> QED
  BY <1>2, <1>10, BecomesGood

\* The session, the anchor or the sync times change, and then the label and
\* the cursor.
LEMMA ResyncGood ==
  ASSUME IsVideo, NEW w \in Widgets, Good(w, sync), NEW times \in SyncModels, NEW u \in Widgets,
         u.state = w.state, u.position = w.position, u.goal = w.goal, u.duration = w.duration,
         u.slider = w.slider, u.down = w.down, u.target = w.target, u.asked = w.asked, u.shown = w.shown,
         u.inFlight = w.inFlight, u.pending = w.pending, u.connected = w.connected
  PROVE  Good(SyncState(u, times), times)
<1>1. ASSUME HasSink
      PROVE  /\ SeekIsWhole(u) /\ AskedIsKept(u)
             /\ ~u.shown /\ ~u.down /\ u.duration > 0 => u.slider = u.position
  <2>1. SeekIsWhole(u)
    BY <1>1 DEF Good, SeekIsWhole
  <2>2. AskedIsKept(u)
    BY <1>1 DEF Good, AskedIsKept
  <2>3. ~u.shown /\ ~u.down /\ u.duration > 0 => u.slider = u.position
    BY <1>1 DEF Good, ShownIsPosition
  <2> QED
    BY <2>1, <2>2, <2>3
<1> QED
  BY <1>1, SyncStateIsGood

LEMMA MarkSyncGood ==
  ASSUME IsVideo, IInv, MarkSync
  PROVE  IInv'
<1>. DEFINE u == [v EXCEPT !.anchor = v.position]
<1>1. v \in Widgets /\ sync \in SyncModels /\ Good(v, sync)
  BY DEF IInv, TypeOK
<1>2. Become(SyncState(u, sync))
  BY DEF MarkSync
<1>3. v.position \in Places
  BY <1>1, NumbersAreBounded DEF Places
<1>4. /\ u \in Widgets /\ u.state = v.state /\ u.position = v.position /\ u.goal = v.goal
      /\ u.duration = v.duration /\ u.slider = v.slider /\ u.down = v.down /\ u.target = v.target
      /\ u.asked = v.asked /\ u.shown = v.shown /\ u.inFlight = v.inFlight /\ u.pending = v.pending
      /\ u.connected = v.connected
  BY <1>1, <1>3 DEF Widgets
<1>. HIDE DEF u
<1>5. Good(SyncState(u, sync), sync)
  BY <1>1, <1>4, ResyncGood
<1> QED
  BY <1>2, <1>5, BecomesGood

\* Another session, or none, is selected.
LEMMA SelectionGood ==
  ASSUME IsVideo, IInv, NEW s \in Selections
  PROVE  Good(SyncState([v EXCEPT !.selected = s], sync), sync)
<1>. DEFINE u == [v EXCEPT !.selected = s]
<1>1. v \in Widgets /\ sync \in SyncModels /\ Good(v, sync)
  BY DEF IInv, TypeOK
<1>2. /\ u \in Widgets /\ u.state = v.state /\ u.position = v.position /\ u.goal = v.goal
      /\ u.duration = v.duration /\ u.slider = v.slider /\ u.down = v.down /\ u.target = v.target
      /\ u.asked = v.asked /\ u.shown = v.shown /\ u.inFlight = v.inFlight /\ u.pending = v.pending
      /\ u.connected = v.connected
  BY <1>1 DEF Widgets
<1>. HIDE DEF u
<1>3. Good(SyncState(u, sync), sync)
  BY <1>1, <1>2, ResyncGood
<1> QED
  BY <1>3 DEF u

LEMMA SelectSessionGood ==
  ASSUME IsVideo, IInv, NEW s \in visible, SelectSession(s)
  PROVE  IInv'
<1>1. s \in Selections
  BY DEF IInv, TypeOK, Selections
<1>2. Good(SyncState([v EXCEPT !.selected = s], sync), sync)
  BY <1>1, SelectionGood
<1> QED
  BY <1>2, BecomesGood DEF SelectSession

LEMMA ShowSessionsGood ==
  ASSUME IsVideo, IInv, NEW shown \in Views, ShowSessions(shown)
  PROVE  IInv'
<1>. DEFINE s == IF shown = {} THEN "" ELSE IF v.selected \in shown THEN v.selected ELSE FirstShown(shown)
<1>1. shown \in SUBSET ToSet(Rows)
  BY DEF IsVideo
<1>2. shown # {} => FirstShown(shown) \in ToSet(Rows)
  BY <1>1, FirstShownIsSession
<1>3. s \in Selections
  BY <1>1, <1>2 DEF Selections
<1>4. v' = SyncState([v EXCEPT !.selected = s], sync) /\ visible' = shown /\ sync' = sync
  BY DEF ShowSessions, Rebuilt
<1>. HIDE DEF s
<1>5. Good(SyncState([v EXCEPT !.selected = s], sync), sync)
  BY <1>3, SelectionGood
<1>6. Good(v', sync')
  BY <1>4, <1>5
<1> QED
  BY <1>1, <1>4, <1>6 DEF IInv, TypeOK, Good

LEMMA SyncTimeChangesGood ==
  ASSUME IsVideo, IInv, NEW s \in ToSet(Rows), NEW t \in SyncTimes[s] \cup {NoTime}, SyncTimeChanges(s, t)
  PROVE  IInv'
<1>1. v \in Widgets /\ sync \in SyncModels /\ Good(v, sync) /\ visible \in SUBSET ToSet(Rows)
  BY DEF IInv, TypeOK
<1>2. t \in Int \cup {NoTime}
  BY DEF IsVideo
<1>3. sync' = [sync EXCEPT ![s] = t] /\ visible' = visible
  BY DEF SyncTimeChanges
<1>4. sync' \in SyncModels
  BY <1>1, <1>2, <1>3 DEF SyncModels
<1>5. Good(v', sync')
  <2>1. CASE s = v.selected
    <3>1. v' = SyncState(v, sync')
      BY <2>1 DEF SyncTimeChanges
    <3>2. Good(SyncState(v, sync'), sync')
      BY <1>1, <1>4, ResyncGood
    <3> QED
      BY <3>1, <3>2
  <2>2. CASE s # v.selected
    <3>1. v' = v
      BY <2>2 DEF SyncTimeChanges
    <3>2. v.selected # "" => sync'[v.selected] = sync[v.selected]
      <4>1. v.selected \in Selections
        BY <1>1 DEF Widgets
      <4> QED
        BY <4>1, <1>1, <1>3, <2>2 DEF SyncModels, Selections
    <3>3. SyncedUtc(v, sync') = SyncedUtc(v, sync)
      BY <3>2 DEF SyncedUtc
    <3>4. IsSynced(v, sync') = IsSynced(v, sync) /\ CursorAt(v, sync', v.position) = CursorAt(v, sync, v.position)
      BY <3>3 DEF IsSynced, CursorAt
    <3>5. Good(v, sync')
      BY <1>1, <3>4 DEF Good, Told, ShownIsPosition
    <3> QED
      BY <3>1, <3>5
  <2> QED
    BY <2>1, <2>2
<1> QED
  BY <1>1, <1>3, <1>4, <1>5 DEF IInv, TypeOK, Good

LEMMA DurationKnownGood ==
  ASSUME IsVideo, IInv, DurationKnown
  PROVE  IInv'
<1>. DEFINE u == [v EXCEPT !.duration = Duration]
            x == SliderTo(u, v.position)
<1>1. v \in Widgets /\ sync \in SyncModels /\ Good(v, sync)
  BY DEF IInv, TypeOK
<1>2. Become(x)
  BY DEF DurationKnown
<1>3. /\ u \in Widgets /\ u.state = v.state /\ u.position = v.position /\ u.goal = v.goal
      /\ u.duration = Duration /\ u.down = v.down /\ u.target = v.target /\ u.asked = v.asked
      /\ u.shown = v.shown /\ u.inFlight = v.inFlight /\ u.pending = v.pending
      /\ u.connected = v.connected /\ u.anchor = v.anchor /\ u.selected = v.selected /\ u.moments = v.moments
  BY <1>1 DEF Widgets
<1>. HIDE DEF u
<1>4. v.position \in Nat /\ v.position <= Duration
  BY <1>1, NumbersAreBounded
<1>5. SliderMoves(x, u, v.position)
  BY <1>3, <1>4, SliderToDoes
<1>. HIDE DEF x
<1>6. Keeps(x, u) /\ x.moments = u.moments /\ (~x.down => x.slider = x.position)
  BY <1>3, <1>4, <1>5 DEF SliderMoves, Keeps
<1>7. /\ x \in Widgets /\ x.state = v.state /\ x.position = v.position /\ x.goal = v.goal
      /\ x.target = v.target /\ x.asked = v.asked
      /\ x.shown = v.shown /\ x.inFlight = v.inFlight /\ x.pending = v.pending /\ x.down = v.down
      /\ x.connected = v.connected /\ x.anchor = v.anchor /\ x.selected = v.selected /\ x.moments = v.moments
  BY <1>3, <1>6 DEF Keeps
<1>8. /\ IsSynced(x, sync) = IsSynced(v, sync)
      /\ CursorAt(x, sync, x.position) = CursorAt(v, sync, v.position)
  BY <1>7 DEF IsSynced, SyncedUtc, CursorAt
<1>9. Told(x, sync)
  BY <1>1, <1>7, <1>8 DEF Good, Told
<1>10. ASSUME HasSink
       PROVE  SeekIsWhole(x) /\ AskedIsKept(x) /\ ShownIsPosition(x, sync)
  <2>1. SeekIsWhole(x)
    BY <1>1, <1>7, <1>10 DEF Good, SeekIsWhole
  <2>2. AskedIsKept(x)
    BY <1>1, <1>7, <1>10 DEF Good, AskedIsKept
  <2>3. ShownIsPosition(x, sync)
    BY <1>1, <1>6, <1>7, <1>8, <1>10 DEF Good, ShownIsPosition
  <2> QED
    BY <2>1, <2>2, <2>3
<1>11. Good(x, sync)
  BY <1>7, <1>9, <1>10 DEF Good
<1> QED
  BY <1>2, <1>11, BecomesGood

LEMMA LandGood ==
  ASSUME IsVideo, IInv, NEW p \in Positions, Land(p)
  PROVE  IInv'
<1>. DEFINE u == [v EXCEPT !.position = p, !.goal = Nowhere]
<1>1. v \in Widgets /\ sync \in SyncModels /\ Good(v, sync)
  BY DEF IInv, TypeOK
<1>2. /\ v.goal # Nowhere /\ p \in {v.goal, KeyFrame[v.goal]}
      /\ Become(IF p = v.position THEN u ELSE PositionChanged(u, sync))
  BY DEF Land
<1>3. /\ u \in Widgets /\ u.state = v.state /\ u.position = p /\ u.goal = Nowhere
      /\ u.duration = v.duration /\ u.slider = v.slider /\ u.down = v.down /\ u.target = v.target
      /\ u.asked = v.asked /\ u.shown = v.shown /\ u.inFlight = v.inFlight /\ u.pending = v.pending
      /\ u.connected = v.connected /\ u.anchor = v.anchor /\ u.selected = v.selected /\ u.moments = v.moments
  BY <1>1 DEF Widgets, Places
<1>. HIDE DEF u
<1>4. ASSUME HasSink PROVE SeekIsWhole(u) /\ AskedIsKept(u)
  <2>1. SeekIsWhole(u)
    BY <1>1, <1>3, <1>4 DEF Good, SeekIsWhole
  <2>2. AskedIsKept(u)
    BY <1>1, <1>2, <1>3, <1>4 DEF Good, AskedIsKept
  <2> QED
    BY <2>1, <2>2
<1>5. CASE p = v.position
  <2>1. Good(u, sync)
    BY <1>1, <1>3, <1>4, <1>5, StaysGood
  <2> QED
    BY <1>2, <1>5, <2>1, BecomesGood
<1>6. CASE p # v.position
  <2>1. Told(u, sync)
    BY <1>1, <1>3 DEF Good, Told, IsSynced, SyncedUtc
  <2>2. u.duration = 0 \/ u.duration = Duration
    BY <1>3 DEF Widgets
  <2>3. Good(PositionChanged(u, sync), sync)
    BY <1>1, <1>3, <1>4, <2>1, <2>2, PositionChangedIsGood
  <2> QED
    BY <1>2, <1>6, <2>3, BecomesGood
<1> QED
  BY <1>5, <1>6

LEMMA AdvanceGood ==
  ASSUME IsVideo, IInv, Advance
  PROVE  IInv'
<1>. DEFINE u == [v EXCEPT !.position = @ + 1]
<1>1. v \in Widgets /\ sync \in SyncModels /\ Good(v, sync)
  BY DEF IInv, TypeOK
<1>2. v.state = "playing" /\ v.position < Duration /\ Become(PositionChanged(u, sync))
  BY DEF Advance, Playing
<1>3. v.position + 1 \in Positions
  BY <1>1, <1>2, NumbersAreBounded DEF Positions
<1>4. /\ u \in Widgets /\ u.state = v.state /\ u.goal = v.goal
      /\ u.duration = v.duration /\ u.down = v.down /\ u.target = v.target
      /\ u.asked = v.asked /\ u.shown = v.shown /\ u.inFlight = v.inFlight /\ u.pending = v.pending
      /\ u.connected = v.connected /\ u.anchor = v.anchor /\ u.selected = v.selected /\ u.moments = v.moments
  BY <1>1, <1>3 DEF Widgets
<1>. HIDE DEF u
<1>5. ASSUME HasSink PROVE SeekIsWhole(u) /\ AskedIsKept(u)
  <2>1. SeekIsWhole(u)
    BY <1>1, <1>4, <1>5 DEF Good, SeekIsWhole
  <2>2. AskedIsKept(u)
    BY <1>1, <1>2, <1>4, <1>5 DEF Good, AskedIsKept
  <2> QED
    BY <2>1, <2>2
<1>6. Told(u, sync)
  BY <1>1, <1>4 DEF Good, Told, IsSynced, SyncedUtc
<1>7. u.duration = 0 \/ u.duration = Duration
  BY <1>4 DEF Widgets
<1>8. Good(PositionChanged(u, sync), sync)
  BY <1>1, <1>4, <1>5, <1>6, <1>7, PositionChangedIsGood
<1> QED
  BY <1>2, <1>8, BecomesGood

LEMMA EndOfMediaGood ==
  ASSUME IsVideo, IInv, EndOfMedia
  PROVE  IInv'
<1>. DEFINE x == [v EXCEPT !.state = "stopped"]
<1>1. v \in Widgets /\ Good(v, sync)
  BY DEF IInv, TypeOK
<1>2. v.state = "playing" /\ Become(x)
  BY DEF EndOfMedia, Playing
<1>3. /\ x \in Widgets /\ x.state = "stopped" /\ x.position = v.position /\ x.goal = v.goal
      /\ x.duration = v.duration /\ x.slider = v.slider /\ x.down = v.down /\ x.target = v.target
      /\ x.asked = v.asked /\ x.shown = v.shown /\ x.inFlight = v.inFlight /\ x.pending = v.pending
      /\ x.connected = v.connected /\ x.anchor = v.anchor /\ x.selected = v.selected /\ x.moments = v.moments
  BY <1>1 DEF Widgets
<1>. HIDE DEF x
<1>4. ASSUME HasSink PROVE SeekIsWhole(x) /\ AskedIsKept(x)
  BY <1>1, <1>2, <1>3, <1>4 DEF Good, SeekIsWhole, AskedIsKept
<1>5. Good(x, sync)
  BY <1>1, <1>3, <1>4, StaysGood
<1> QED
  BY <1>2, <1>5, BecomesGood

LEMMA SeekEndsGood ==
  ASSUME IsVideo, IInv, FrameArrives \/ Watchdog
  PROVE  IInv'
<1>1. v \in Widgets /\ sync \in SyncModels /\ Good(v, sync)
  BY DEF IInv, TypeOK
<1>2. v.inFlight /\ Become(SeekEnded(v, sync))
  BY DEF FrameArrives, Watchdog
<1>3. HasSink => v.state # "playing"
  BY <1>1, <1>2 DEF Good, SeekIsWhole
<1>4. Good(SeekEnded(v, sync), sync)
  BY <1>1, <1>3, SeekEndedIsGood
<1> QED
  BY <1>2, <1>4, BecomesGood

LEMMA NextGood ==
  ASSUME IsVideo, IInv, [Next]_vars
  PROVE  IInv'
<1>1. CASE UserSeeks
  BY <1>1, LoadVideoGood, PlayPauseGood, StepsGood, SliderPressedGood, SliderMovedGood, SliderReleasedGood
     DEF UserSeeks
<1>2. CASE Others
  BY <1>2, MarkSyncGood, SelectSessionGood, ShowSessionsGood, SyncTimeChangesGood DEF Others
<1>3. CASE Player
  BY <1>3, DurationKnownGood, LandGood, AdvanceGood, EndOfMediaGood, SeekEndsGood DEF Player
<1>4. CASE UNCHANGED vars
  <2>1. v' = v /\ visible' = visible /\ sync' = sync
    BY <1>4 DEF vars
  <2> QED
    BY <2>1 DEF IInv, TypeOK, Good
<1> QED
  BY <1>1, <1>2, <1>3, <1>4 DEF Next

\* What the invariant says of a video that settled.
LEMMA GoodTells ==
  ASSUME IsVideo, IInv
  PROVE  CursorTellsTheFrame
<1>. DEFINE moment == v.moments["video"]
<1>1. v \in Widgets /\ Good(v, sync)
  BY DEF IInv, TypeOK
<1>2. moment.active = IsSynced(v, sync)
  BY <1>1 DEF Good, Told
<1>3. ASSUME Settled
      PROVE  v.target = Nowhere /\ (v.asked # Nowhere => v.position \in {v.asked, KeyFrame[v.asked]})
  BY <1>1, <1>3 DEF Settled, Good, SeekIsWhole, AskedIsKept
<1>4. ASSUME Settled, ~v.shown
      PROVE  /\ v.slider = v.position
             /\ moment.active => moment.position = SyncedUtc(v, sync) + v.position - v.anchor
  BY <1>1, <1>2, <1>4 DEF Settled, Good, ShownIsPosition, CursorAt
<1> QED
  BY <1>2, <1>3, <1>4 DEF CursorTellsTheFrame

------------------------------------------------------------------------------
\* The widget and its moment agree with the player in every state.
THEOREM VideoInvariant == ASSUME IsVideo PROVE Spec => []IInv
<1>1. Init => IInv
  BY InitGood
<1>2. IInv /\ [Next]_vars => IInv'
  BY NextGood
<1> QED
  BY <1>1, <1>2, PTL DEF Spec

\* Once the video settled, the player is where the user last asked it to be
\* and the slider and the cursor tell where that is, however long the video is,
\* however late the player moves and whichever frame it shows.
THEOREM CursorAlwaysTells == ASSUME IsVideo PROVE Spec => []CursorTellsTheFrame
<1>1. IInv => CursorTellsTheFrame
  BY GoodTells
<1> QED
  BY <1>1, VideoInvariant, PTL
==============================================================================
