----------------------------- MODULE SessionCache -----------------------------
(***************************************************************************)
(* Which sessions the session model keeps in memory: the rows that are     *)
(* shown, the row that has the focus, the hidden rows in the LRU list, the *)
(* rows a job has pinned, and the rows that wait to be loaded in the       *)
(* background (src/src/sessionmodel.cpp), with the save and load tasks of  *)
(* the idle scheduler and the plot, which draws the rows that are shown.   *)
(* What a session holds and what is written for it is modelled in Logbook. *)
(***************************************************************************)
EXTENDS Integers, Sequences, FiniteSets, SequencesExt

CONSTANTS
  Sessions,      \* numbers: the order of the rows
  Named,         \* sessions whose stub is known by the name of its file
  Unreadable,    \* sessions whose file may become unreadable
  Capacities,    \* values of the cache size preference
  SyncLoad,      \* kSyncLoadThreshold
  MaxPins,       \* bound: jobs per session
  MaxQueue,      \* bound: entries of the load queue, a row may be there twice
  DiskFills      \* whether saving may fail

\* What the proofs take of the constants: there are finitely many sessions, and
\* the preference is a number.
IsSessionCache ==
  /\ Sessions \subseteq Nat \ {0} /\ IsFiniteSet(Sessions) /\ Named \subseteq Sessions
  /\ Capacities \subseteq Nat

VARIABLES
  m,             \* the session model, a record (see Init)
  disk,          \* what the disk does: [full, unreadable]
  drawn          \* the sessions in the plot as it was last announced; rebuilding it
                 \* waits for the event loop, when it takes what is shown then

vars == <<m, disk, drawn>>

NoId == [session |-> 0, byName |-> FALSE]
Id(r, s) == [session |-> s, byName |-> s \in r.stems]
Shown(r) == {s \in r.rows : s \in r.mem /\ s \in r.vis}
SaveWork(r) == r.dirty \ r.failed
Names(r, id) == id.session \in r.rows /\ Id(r, id.session) = id

Init ==
  /\ m \in [rows : {Sessions}, stems : {Named}, vis : {{}}, mem : {{}}, ghost : {{}},
            dirty : {{}}, failed : {{}}, pins : {[s \in Sessions |-> 0]},
            lru : {{}}, newer : {{}},   \* the ids of the LRU list, and which of two is the newer
            capacity : Capacities, passQueued : {FALSE}, focus : {NoId},
            queue : {<<>>}, batch : {FALSE},
            retried : {{}},      \* history: rows whose save has failed since the last pass
            quiet : {FALSE}]     \* history: a row that waited was loaded for the focus
  /\ disk = [full |-> FALSE, unreadable |-> {}]
  /\ drawn = {}

-------------------------------------------------------------------------------
(* The LRU list *)

Ids(r, S) == {Id(r, s) : s \in S}

LruRemove(r, ids) ==
  [r EXCEPT !.lru = @ \ ids, !.newer = {x \in @ : x[1] \notin ids /\ x[2] \notin ids}]

\* the rows of S are used, one after the other
LruTouch(r, S) ==
  LET ids == Ids(r, S)
      out == LruRemove(r, ids)
      among == {x \in ids \X ids : x[1].session > x[2].session}
  IN  [out EXCEPT !.lru = @ \union ids, !.newer = @ \union (ids \X out.lru) \union among]

\* a hidden row without the focus that is used counts as recently used
Used(r, s) ==
  IF s \notin r.vis /\ Id(r, s) # r.focus THEN LruTouch(r, {s}) ELSE r

SaveRow(r, s) ==
  IF disk.full
  THEN [r EXCEPT !.failed = @ \union {s}, !.retried = @ \union {s}]
  ELSE [r EXCEPT !.dirty = @ \ {s}, !.failed = @ \ {s}]

\* what was edited in the row could not be written now
Unsaved(r, s) == disk.full /\ s \in r.dirty \ r.ghost

\* a bug: the row is given up although its save fails
StaysUnlessDirty(r, id) ==
  /\ Names(r, id) /\ id.session \in r.mem
  /\ r.pins[id.session] > 0 \/ id.session \in r.failed

\* evictSession() leaves the row in memory and in the list
Stays(r, id) ==
  /\ Names(r, id) /\ id.session \in r.mem
  /\ r.pins[id.session] > 0 \/ id.session \in r.failed \/ Unsaved(r, id.session)

\* evictSession() for the ids of the list: what was edited is saved first, a save
\* that fails is not tried again, and a placeholder is dropped as it is
EvictSessions(r, ids) ==
  LET out == {id \in ids : ~Stays(r, id)}
      met == {s \in r.rows \intersect r.mem : Id(r, s) \in ids}
      left == {s \in met : Id(r, s) \in out}
      refused == {s \in met \ r.failed : Unsaved(r, s) /\ r.pins[s] = 0}
  IN  [LruRemove(r, out) EXCEPT
         !.mem = @ \ left, !.ghost = @ \ left, !.dirty = @ \ {s \in left : s \in r.ghost \/ ~disk.full},
         !.failed = @ \union refused, !.retried = @ \union refused]

\* least recently used first, until the list has its size again; a row that must
\* stay is passed over
EvictIfNeeded(r, keep) ==
  LET leaving == {id \in r.lru \ {keep} : ~Stays(r, id)}
      met == {id \in r.lru \ {keep} :
                Cardinality({x \in leaving : <<id, x>> \in r.newer}) < Cardinality(r.lru) - r.capacity}
  IN  EvictSessions([r EXCEPT !.retried = @ \intersect r.failed], met)

-------------------------------------------------------------------------------
(* Loading *)

\* the sessions are read from their files, or placeholders stand in for them; a
\* row known by its file name gets the id the file says
Loaded(r, S) ==
  [r EXCEPT !.mem = @ \union S, !.ghost = @ \union (S \intersect disk.unreadable),
            !.stems = @ \ (S \ disk.unreadable)]

SessionRef(r, s) ==
  IF s \in r.mem THEN Used(r, s)
  ELSE LET l == Loaded(r, {s})
       IN  IF s \notin r.vis /\ Id(l, s) # r.focus
           THEN EvictIfNeeded(LruTouch(l, {s}), Id(l, s)) ELSE l

ScheduleSave(r, s) ==
  IF s \in r.ghost \/ s \in SaveWork(r) THEN r
  ELSE [r EXCEPT !.dirty = @ \union {s}, !.failed = @ \ {s}]

ToLoad(r, id) == Names(r, id) /\ id.session \in r.vis \ r.mem

RowsOf(S) == SetToSortSeq(S, LAMBDA a, b : a < b)

\* removes one occurrence of each id from the load queue
Dequeued(r, S) == FoldLeft(LAMBDA q, s : RemoveFirst(q, Id(r, s)), r.queue, RowsOf(S))

\* the rows of setRowsVisibility(), one after the other
RowsVisibility(r, shown, hidden) ==
  LET out == LruRemove(r, Ids(r, shown))
  IN  [LruTouch(out, hidden \intersect r.mem)
         EXCEPT !.vis = (@ \union shown) \ hidden, !.queue = Dequeued(r, hidden)]

\* a small batch of stubs is loaded at once, with whatever waits; a large one is
\* left to the load task
QueueOrLoad(r, stubs) ==
  LET all == r.queue \o [i \in DOMAIN RowsOf(stubs) |-> Id(r, RowsOf(stubs)[i])]
  IN  IF all # <<>> /\ Len(all) <= SyncLoad
      THEN Loaded([r EXCEPT !.queue = <<>>],
                  {s \in r.rows : \E i \in DOMAIN all : all[i].session = s /\ ToLoad(r, all[i])})
      ELSE [r EXCEPT !.queue = all]

\* rows S become shown, rows H hidden
SetRowsVisibility(r, S, H) ==
  EvictIfNeeded(QueueOrLoad(RowsVisibility(r, S \ r.vis, H \intersect r.vis), S \ r.mem), NoId)

\* whether visibilityChanged is emitted: a row was hidden, or a loaded one shown
Announces(r, n, H) == (H \intersect r.vis) \union (Shown(n) \ Shown(r)) # {}

-------------------------------------------------------------------------------
(* The user and the other components *)

Quietly(r) == m' = r /\ UNCHANGED <<disk, drawn>>

\* modelChanged or visibilityChanged: the plot draws the rows that are shown
Announced(r) ==
  m' = [r EXCEPT !.quiet = FALSE] /\ drawn' = Shown(r) \ r.ghost /\ UNCHANGED disk

AnnouncedIf(news, r) == IF news THEN Announced(r) ELSE Quietly(r)

ShowAndHide ==
  \E S, H \in SUBSET m.rows :
    /\ S \intersect H = {} /\ S \union H # {} /\ Len(m.queue) + Cardinality(S \ m.mem) <= MaxQueue
    /\ LET n == SetRowsVisibility(m, S, H)
       IN  AnnouncedIf(Announces(m, n, H), n)

\* the check box of one row; a stub is loaded at once, whatever waits
SetChecked(s) ==
  /\ s \in m.rows
  /\ LET shown == SessionRef([m EXCEPT !.vis = @ \union {s}], s)
         hidden == [m EXCEPT !.vis = @ \ {s}]
     IN  Announced(IF s \notin m.vis THEN LruRemove(shown, Ids(shown, {s}))
                   ELSE IF s \in m.mem THEN EvictIfNeeded(LruTouch(hidden, {s}), NoId)
                   ELSE hidden)

\* the logbook's current row; the row that had the focus returns to the LRU list
SetFocus(s) ==
  /\ s \in m.rows /\ m.focus # Id(m, s)
  /\ LET old == m.focus
         left == [m EXCEPT !.focus = Id(m, s)]
         back == IF Names(m, old) /\ old.session \in m.mem \ m.vis THEN LruTouch(left, {old.session}) ELSE left
         ref == SessionRef(back, s)
         new == [ref EXCEPT !.quiet = @ \/ s \in m.vis \ m.mem]
     IN  Quietly(EvictIfNeeded(LruRemove(new, Ids(m, {s})), NoId))

ClearFocus ==
  /\ m.focus # NoId
  /\ LET old == m.focus
         left == [m EXCEPT !.focus = NoId]
     IN  Quietly(EvictIfNeeded(IF Names(m, old) /\ old.session \in m.mem \ m.vis
                               THEN LruTouch(left, {old.session}) ELSE left, NoId))

Edit(s) ==
  /\ s \in m.rows
  /\ LET r == SessionRef(m, s)
     IN  /\ s \notin r.ghost
         /\ Announced(ScheduleSave(r, s))

\* rows known by a file name whose header can be read get their id
StubsResolved(r) == [r EXCEPT !.stems = @ \intersect (r.mem \union disk.unreadable)]

\* a file of a new session or of one that exists; the window shows what was
\* imported and may hide the rest
Import(s, hideOthers) ==
  LET r == StubsResolved(m)
      fails == s \in r.rows /\ s \in disk.unreadable /\ (s \notin r.mem \/ s \in r.ghost)
      merged == [r EXCEPT !.rows = @ \union {s}, !.mem = @ \union {s}, !.ghost = @ \ {s}]
      used == IF s \in r.rows \ (r.mem \ r.ghost) THEN Used(merged, s) ELSE merged
      imported == EvictIfNeeded(ScheduleSave(used, s), NoId)
      others == IF hideOthers THEN imported.rows \ {s} ELSE {}
  IN  /\ Len(m.queue) < MaxQueue
      /\ IF fails THEN Quietly(r) ELSE Announced(SetRowsVisibility(imported, {s}, others))

\* a removed row leaves every list
Removed(r, s) ==
  [LruRemove(r, Ids(r, {s})) EXCEPT !.queue = Dequeued(r, {s}),
     !.rows = @ \ {s}, !.vis = @ \ {s}, !.mem = @ \ {s}, !.ghost = @ \ {s}, !.stems = @ \ {s},
     !.dirty = @ \ {s}, !.failed = @ \ {s}, !.retried = @ \ {s}]

RemoveSession(s) == s \in m.rows /\ Announced(Removed(m, s))

\* the job queue pins the session of a job, which is loaded when it asks
Pin(s) ==
  /\ s \in m.mem \ m.ghost /\ s \in m.vis /\ m.pins[s] < MaxPins
  /\ Quietly([m EXCEPT !.pins[s] = @ + 1])

UnpinQuietly(r, s) == [r EXCEPT !.pins[s] = @ - 1]

UnpinSession(r, s) ==
  [r EXCEPT !.pins[s] = @ - 1, !.passQueued = @ \/ r.pins[s] = 1]

Unpin(s) ==
  /\ m.pins[s] > 0
  /\ Quietly(UnpinSession(m, s))

EvictionPass ==
  /\ m.passQueued
  /\ Quietly(EvictIfNeeded([m EXCEPT !.passQueued = FALSE], NoId))

SetCapacity(c) ==
  /\ c # m.capacity
  /\ Quietly(EvictIfNeeded([m EXCEPT !.capacity = c], NoId))

-------------------------------------------------------------------------------
(* The idle scheduler: saving comes before loading *)

SaveNextSession ==
  \E s \in SaveWork(m) :
    /\ \A x \in SaveWork(m) : s <= x
    /\ Quietly(SaveRow(SessionRef(m, s), s))

\* entries that were removed, hidden or loaded since are skipped
IsNext(r, i) == ToLoad(r, r.queue[i]) /\ \A j \in 1..(i - 1) : ~ToLoad(r, r.queue[j])

LoadNext(r, i) ==
  [SessionRef(r, r.queue[i].session)
     EXCEPT !.queue = SubSeq(r.queue, i + 1, Len(r.queue)), !.batch = TRUE]

BatchDone(r) == [r EXCEPT !.queue = <<>>, !.batch = FALSE]

\* a bug: what was loaded is announced only if a row was loaded by the last step
LoadUnannounced ==
  /\ SaveWork(m) = {} /\ m.queue # <<>>
  /\ \/ \E i \in DOMAIN m.queue :
          /\ IsNext(m, i)
          /\ LET r == LoadNext(m, i)
             IN  IF r.queue # <<>> THEN Quietly(r) ELSE Announced(BatchDone(r))
     \/ /\ \A i \in DOMAIN m.queue : ~ToLoad(m, m.queue[i])
        /\ Quietly(BatchDone(m))

LoadNextVisibleSession ==
  /\ SaveWork(m) = {} /\ m.queue # <<>>
  /\ \/ \E i \in DOMAIN m.queue :
          /\ IsNext(m, i)
          /\ LET r == LoadNext(m, i)
             IN  IF r.queue # <<>> THEN Quietly(r) ELSE Announced(BatchDone(r))
     \/ /\ \A i \in DOMAIN m.queue : ~ToLoad(m, m.queue[i])
        /\ AnnouncedIf(m.batch, BatchDone(m))

\* the rows that still wait are hidden again
CancelLoader ==
  LET waiting == {s \in m.vis \ m.mem : Contains(m.queue, Id(m, s))}
  IN  /\ m.queue # <<>>
      /\ AnnouncedIf(m.batch \/ waiting # {}, BatchDone([m EXCEPT !.vis = @ \ waiting]))

DiskChanges ==
  /\ \/ DiskFills /\ disk' = [disk EXCEPT !.full = ~@]
     \/ \E s \in Unreadable : disk' = [disk EXCEPT !.unreadable = IF s \in @ THEN @ \ {s} ELSE @ \union {s}]
  /\ UNCHANGED <<m, drawn>>

Next ==
  \/ ShowAndHide \/ ClearFocus \/ EvictionPass \/ SaveNextSession
  \/ LoadNextVisibleSession \/ CancelLoader \/ DiskChanges
  \/ \E s \in Sessions :
       \/ SetChecked(s) \/ SetFocus(s) \/ Edit(s) \/ RemoveSession(s) \/ Pin(s) \/ Unpin(s)
       \/ \E h \in BOOLEAN : Import(s, h)
  \/ \E c \in Capacities : SetCapacity(c)

Spec == Init /\ [][Next]_vars

-------------------------------------------------------------------------------
(* What the cache promises                                                   *)

\* Every loaded row that is hidden and has not the focus is in the LRU list, so
\* that it can leave memory again; a row that is shown is not, so that it stays.
HiddenAreEvictable ==
  \A s \in m.mem :
    /\ s \notin m.vis /\ Id(m, s) # m.focus => Id(m, s) \in m.lru
    /\ s \in m.vis => Id(m, s) \notin m.lru

Room == IF m.capacity = 0 THEN 1 ELSE m.capacity

\* The list exceeds its capacity only by rows that are pinned or could not be
\* saved, or until the pass that the last unpin has queued; without capacity, by
\* the one row that was handed out last.
CacheIsBounded ==
  m.passQueued \/
    Cardinality(m.lru) <= Room + Cardinality({s \in m.mem : m.pins[s] > 0 \/ s \in m.failed \union m.retried})

\* Memory comes back: what may leave memory can be found, and it leaves in time.
MemoryComesBack == HiddenAreEvictable /\ CacheIsBounded

\* A row leaves memory, other than by its removal, only while it is not shown,
\* no job has pinned it, and all that was edited in it is in its file.
OnlyIdleRowsLeave ==
  \A s \in m.mem \ m'.mem :
    s \in m'.rows =>
      /\ s \notin m.vis \intersect m'.vis /\ m.pins[s] = 0
      /\ s \notin m'.dirty /\ s \notin m.dirty \intersect m.ghost
NothingDropped == [][OnlyIdleRowsLeave]_vars

\* Unless a batch has loaded a row and is not done, the plot shows exactly the rows
\* that are shown and could be loaded: the load task announces what it loaded however
\* its batch ends.  (Only a row that waits and is loaded because it gets the focus is
\* announced by nobody: see the README.)
ShownAreDrawn ==
  ~m.batch /\ ~m.quiet => drawn = Shown(m) \ m.ghost
===============================================================================
