-------------------------------- MODULE Logbook --------------------------------
(***************************************************************************)
(* The logbook: index.json and one file per session on disk, the manager   *)
(* that writes them (src/src/logbookmanager.cpp), and the rows of the      *)
(* session model with the idle tasks that save them and fill their column  *)
(* values (src/src/sessionmodel.cpp, src/src/idlescheduler.cpp).           *)
(*                                                                         *)
(* Everything runs on the main thread, one handler at a time.  Hard are    *)
(* the pairs of files: a handler writes index.json and session files one   *)
(* after the other, each write may fail, and the program may stop between  *)
(* two of them.  Stopping after the n-th write of a handler leaves the     *)
(* same disk as the next write failing, so Restart needs no program        *)
(* counter: it may follow every step.                                      *)
(*                                                                         *)
(* A session's content is reduced to what the index keeps of it: one bit   *)
(* per logbook column.  An edit changes one attribute, and may flip the    *)
(* bits of the columns that depend on it.                                  *)
(***************************************************************************)
EXTENDS Integers, Sequences, FiniteSets

CONSTANTS
  Sessions,      \* SESSION_IDs
  Uuids,         \* names of session files, without ".csv"
  Columns,       \* logbook columns, enabled or not
  Attributes,    \* what an edit or an import changes
  Affects,       \* the columns an attribute can affect (static dependencies)
  ColumnOf,      \* the column that shows an attribute
  Environments,  \* fingerprints of the calculation environment
  Layouts,       \* bound: the sets of columns the user enables
  Rank,          \* the order of the rows, by id (sorting them is not modelled)
  MaxBulk,       \* bound: items of a bulk edit
  FilesLock,     \* may a session file be unreadable for a while?
  RemovalFails,  \* may removing a file, or writing index.json after it, fail?
  ColumnsFail,   \* may index.json not be written after a change of the columns?
  StubsByName    \* may updateAttribute() be given the file name of a stub?

\* A row is known by its SESSION_ID, or by the name of its file until that file
\* is first read (an identity stub).
Ids == Sessions \union Uuids

NoUuid == [none |-> "uuid"]
NoFile == [none |-> "file"]
NoValue == [none |-> "value"]
NoIndex == [none |-> "index"]
Stub == [none |-> "session"]
NoSession == [none |-> "id"]

ASSUME LogbookAssumption ==
  /\ Sessions \intersect Uuids = {}
  /\ NoSession \notin Sessions
  /\ NoUuid \notin Uuids
  /\ Affects \in [Attributes -> SUBSET Columns]
  /\ ColumnOf \in [Attributes -> Columns]
  /\ \A a \in Attributes : ColumnOf[a] \in Affects[a]
  /\ Layouts \subseteq SUBSET Columns
  /\ Rank \in [Ids -> Nat]
  /\ \A i, j \in Ids : Rank[i] = Rank[j] => i = j
  /\ MaxBulk \in Nat
  /\ {FilesLock, RemovalFails, ColumnsFail, StubsByName} \subseteq BOOLEAN

Bits == {0, 1}
Nothing == 2        \* the value of a column in an empty session

Contents == [id : Sessions, val : [Columns -> Bits]]
Values == [bit : Bits \union {Nothing}, env : Environments]
Cached == Values \union {NoValue}
NoValues == [c \in Columns |-> NoValue]

\* the session a row shows when its file cannot be read
Placeholder == [id |-> NoSession, val |-> [c \in Columns |-> Nothing]]

VARIABLES
  lb,         \* the logbook: the disk, the column settings, the manager's memory
  locked,     \* files that cannot be read now
  rows,       \* SessionModel: the ids of its rows
  data,       \* SessionRow::session
  loadFailed, \* rows whose session is a placeholder
  dirty, saveFailed,
  bulk,       \* m_bulkEditQueue
  mode,       \* "running"; "closing" inside flushDirtySessions(); "closed"
  rest        \* the rows flushDirtySessions() has yet to visit

rowVars == <<rows, data, loadFailed, dirty, saveFailed>>
vars == <<lb, locked, rowVars, bulk, mode, rest>>

First(S) == CHOOSE i \in S : \A j \in S : Rank[i] <= Rank[j]

-------------------------------------------------------------------------------
(* LogbookManager: operators on a logbook b.  Its fields are                 *)
(*   files, index, enabled : on disk (the enabled columns in the settings)   *)
(*   env : the calculation environment, the one cached values are valid for  *)
(*   uuidOf, cached, unsaved, unsavedAll, needsFlush, indexDirty : memory    *)

Known(b, i) == b.uuidOf[i] # NoUuid
FileOf(b, i) == b.files[b.uuidOf[i]]
HasUnsaved(b, i) == i \in b.unsavedAll \/ b.unsaved[i] # {}

Publishes(b, i, c) == c \in b.enabled /\ i \notin b.unsavedAll /\ c \notin b.unsaved[i]

\* index.json as flushIndex() writes it
IndexOf(b) ==
  [env |-> b.env, uuidOf |-> b.uuidOf,
   values |-> [i \in Ids |-> [c \in Columns |->
                 IF Known(b, i) /\ Publishes(b, i, c) THEN b.cached[i][c] ELSE NoValue]]]

Flushed(b) == [b EXCEPT !.index = IndexOf(b), !.needsFlush = {}, !.indexDirty = FALSE]

\* flushIndex() commits, or fails and changes nothing
FlushOutcomes(b) == {b, Flushed(b)}

MarkColumnsUnsaved(b, i, A) ==
  IF A = {} THEN b
  ELSE [b EXCEPT !.cached[i] = [c \in Columns |-> IF c \in A THEN NoValue ELSE @[c]],
                 !.unsaved[i] = @ \union A,
                 !.needsFlush = IF Known(b, i) THEN @ \union {i} ELSE @,
                 !.indexDirty = TRUE]

MarkSessionUnsaved(b, i) ==
  [b EXCEPT !.cached[i] = NoValues,
            !.unsavedAll = @ \union {i},
            !.needsFlush = IF Known(b, i) THEN @ \union {i} ELSE @,
            !.indexDirty = TRUE]

\* Mutant: values of disabled columns stay.
DropNothing(b, i) == b

\* dropCachedValuesExcept(), called with the enabled columns
DropDisabled(b, i) ==
  [b EXCEPT !.cached[i] = [c \in Columns |-> IF c \in b.enabled THEN @[c] ELSE NoValue]]

\* SessionModel::invalidateColumns() after the attribute a changed
Invalidate(b, i, a) ==
  MarkColumnsUnsaved(DropDisabled(b, i), i, Affects[a] \intersect b.enabled)

Missing(b, i) == {c \in b.enabled : b.cached[i][c] = NoValue}

ValueOf(b, content, c) == [bit |-> content.val[c], env |-> b.env]

\* Mutants: what was filled in is not written by the next flush; unsaved columns
\* are not filled in.
FillQuietly(b, i, content) ==
  [b EXCEPT !.cached[i] = [c \in Columns |-> IF c \in Missing(b, i) THEN ValueOf(b, content, c) ELSE @[c]]]

FillUnmarked(b, i, content) ==
  [b EXCEPT !.cached[i] = [c \in Columns |-> IF c \in Missing(b, i) /\ Publishes(b, i, c)
                                             THEN ValueOf(b, content, c)
                                             ELSE @[c]],
            !.indexDirty = TRUE]

\* SessionModel::fillMissingColumns(), and the updateCachedValues() in it
FillMissing(b, i, content) ==
  IF Missing(b, i) = {} THEN b
  ELSE [b EXCEPT !.cached[i] = [c \in Columns |-> IF c \in Missing(b, i)
                                                  THEN ValueOf(b, content, c)
                                                  ELSE @[c]],
                 !.indexDirty = TRUE]

\* QUuid::createUuid(): a name no file has and nothing on disk or in memory mentions
FreshUuids(b) ==
  {u \in Uuids : /\ b.files[u] = NoFile
                 /\ \A i \in Ids : b.uuidOf[i] # u
                 /\ b.index # NoIndex => \A i \in Ids : b.index.uuidOf[i] # u}

\* saveSession() once the file is written: step d
Saved(b, content, u) ==
  [b EXCEPT !.files[u] = content,
            !.uuidOf[content.id] = u,
            !.unsaved[content.id] = {},
            !.unsavedAll = @ \ {content.id},
            !.indexDirty = TRUE]

\* Mutants: saveSession() forgets the marks although it fails; it writes the
\* session file without flushing the index first.
SaveForgets(b, content) ==
  LET id == content.id
      before == IF id \in b.needsFlush THEN Flushed(b) ELSE b
      uuids == IF Known(b, id) THEN {b.uuidOf[id]} ELSE FreshUuids(b)
  IN  {[book |-> [before EXCEPT !.unsaved[id] = {}, !.unsavedAll = @ \ {id}], ok |-> FALSE]}
        \union {[book |-> Saved(before, content, u), ok |-> TRUE] : u \in uuids}

SaveUnordered(b, content) ==
  LET uuids == IF Known(b, content.id) THEN {b.uuidOf[content.id]} ELSE FreshUuids(b)
  IN  {[book |-> b, ok |-> FALSE]}
        \union {[book |-> Saved(b, content, u), ok |-> TRUE] : u \in uuids}

\* saveSession(): the index is flushed first if it may hold a value of a marked
\* column, then the file is written; either write may fail
SaveOutcomes(b, content) ==
  LET flush == content.id \in b.needsFlush
      before == IF flush THEN Flushed(b) ELSE b
      uuids == IF Known(b, content.id) THEN {b.uuidOf[content.id]} ELSE FreshUuids(b)
  IN  {[book |-> b, ok |-> FALSE], [book |-> before, ok |-> FALSE]}
        \union {[book |-> Saved(before, content, u), ok |-> TRUE] : u \in uuids}

\* remapSessionId() from a file's name to the SESSION_ID in it
Remap(b, old, new) ==
  [b EXCEPT !.uuidOf[new] = b.uuidOf[old], !.uuidOf[old] = NoUuid,
            !.cached[new] = IF b.cached[old] # NoValues THEN b.cached[old] ELSE @,
            !.cached[old] = NoValues,
            !.unsaved[new] = IF b.unsaved[old] # {} THEN b.unsaved[old] ELSE @,
            !.unsaved[old] = {},
            !.unsavedAll = IF old \in @ THEN (@ \ {old}) \union {new} ELSE @,
            !.needsFlush = IF old \in @ THEN (@ \ {old}) \union {new} ELSE @,
            !.indexDirty = TRUE]

\* removeSession() once the file is gone
Forgotten(b, i) ==
  [b EXCEPT !.files[b.uuidOf[i]] = NoFile,
            !.uuidOf[i] = NoUuid, !.cached[i] = NoValues,
            !.unsaved[i] = {}, !.unsavedAll = @ \ {i}, !.needsFlush = @ \ {i},
            !.indexDirty = TRUE]

\* Mutant: orphans are not adopted.
NoOrphans(b) == {}

\* session files the index does not mention
Orphans(b) ==
  {u \in Uuids : /\ b.files[u] # NoFile
                 /\ b.index # NoIndex => /\ \A i \in Ids : b.index.uuidOf[i] # u
                                         /\ b.index.uuidOf[u] = NoUuid}

\* Mutant: values of another environment are kept.
TrustAny(b, e) == b.index # NoIndex

TrustIndex(b, e) == b.index # NoIndex /\ b.index.env = e

\* initialize() in environment e: from index.json, or else from the file names
Opened(b, e) ==
  [b EXCEPT
     !.env = e,
     !.uuidOf = [i \in Ids |-> IF b.index # NoIndex /\ b.index.uuidOf[i] # NoUuid
                               THEN b.index.uuidOf[i]
                               ELSE IF i \in Orphans(b) THEN i ELSE NoUuid],
     !.cached = IF TrustIndex(b, e)
                THEN b.index.values
                ELSE [i \in Ids |-> NoValues],
     !.unsaved = [i \in Ids |-> {}],
     !.unsavedAll = {}, !.needsFlush = {},
     !.indexDirty = b.index # NoIndex /\ (~TrustIndex(b, e) \/ Orphans(b) # {})]

-------------------------------------------------------------------------------
(* Rows *)

Running == mode = "running"
Loaded(i) == data[i] # Stub

Readable(i) == Known(lb, i) /\ FileOf(lb, i) # NoFile /\ lb.uuidOf[i] \notin locked

\* The id row i has once its file was read.  A remap is refused if the
\* SESSION_ID is known already.
IdAfterLoad(i) == IF Known(lb, FileOf(lb, i).id) THEN i ELSE FileOf(lb, i).id

LoadedBook(i) == IF IdAfterLoad(i) = i THEN lb ELSE Remap(lb, i, IdAfterLoad(i))

\* setRowSessionId(): the row and the bulk edits queued for it follow
Renamed(q, i) ==
  [k \in DOMAIN q |-> IF q[k].id = i THEN [q[k] EXCEPT !.id = IdAfterLoad(i)] ELSE q[k]]
RowsAfterLoad(i) == (rows \ {i}) \union {IdAfterLoad(i)}

\* The contents an edit of the attribute a can make of a session
Edited(content, a) ==
  {[content EXCEPT !.val = [c \in Columns |-> IF c \in Affects[a] THEN n[c] ELSE @[c]]] :
     n \in [Affects[a] -> Bits]}

\* scheduleSave() of a row that is no placeholder
ScheduleSave(i) == dirty' = dirty \union {i} /\ saveFailed' = saveFailed \ {i}

\* the logbook after an attempt to save row i, whose callers fill the missing
\* columns of a row that was saved
AfterSave(i, content, o) == IF o.ok THEN FillMissing(o.book, i, content) ELSE o.book

\* Mutants: a row whose save failed is as good as saved, or no longer dirty.
MarkFailedClean(i, o) ==
  /\ dirty' = dirty \ {i}
  /\ saveFailed' = IF o.ok THEN saveFailed \ {i} ELSE saveFailed \union {i}

MarkSavedAlways(i, o) == dirty' = dirty \ {i} /\ saveFailed' = saveFailed \ {i}

\* saveLoadedRow()
MarkSaved(i, o) ==
  /\ dirty' = IF o.ok THEN dirty \ {i} ELSE dirty \union {i}
  /\ saveFailed' = IF o.ok THEN saveFailed \ {i} ELSE saveFailed \union {i}

-------------------------------------------------------------------------------
(* What the user and the views call *)

\* sessionRef() of a stub.  The eviction it ends with is EvictSession: which
\* rows the cache gives up is not modelled, any may go at any time.
LoadSession(i) ==
  /\ Running /\ i \in rows /\ ~Loaded(i)
  /\ IF Readable(i)
     THEN /\ lb' = LoadedBook(i)
          /\ rows' = RowsAfterLoad(i)
          /\ data' = [data EXCEPT ![IdAfterLoad(i)] = FileOf(lb, i)]
          /\ bulk' = Renamed(bulk, i)
          /\ UNCHANGED loadFailed
     ELSE /\ data' = [data EXCEPT ![i] = Placeholder]
          /\ loadFailed' = loadFailed \union {i}
          /\ UNCHANGED <<lb, rows, bulk>>
  /\ UNCHANGED <<locked, dirty, saveFailed, mode, rest>>

\* updateAttribute(), removeAttribute(), setData() of a row that is loaded; for
\* a stub they are LoadSession and this, with one exception: UpdateStub.  A
\* placeholder is edited, but never scheduled to be saved.
Edit(i, a) ==
  /\ Running /\ i \in rows /\ Loaded(i)
  /\ \E content \in Edited(data[i], a) : data' = [data EXCEPT ![i] = content]
  /\ lb' = Invalidate(lb, i, a)
  /\ IF i \in loadFailed THEN UNCHANGED <<dirty, saveFailed>> ELSE ScheduleSave(i)
  /\ UNCHANGED <<locked, rows, loadFailed, bulk, mode, rest>>

\* updateAttribute() by the file name of a stub, whose row has another id when
\* scheduleSave() looks for it
UpdateStub(i, a) ==
  /\ StubsByName
  /\ Running /\ i \in rows /\ ~Loaded(i)
  /\ Readable(i) /\ IdAfterLoad(i) # i
  /\ \E content \in Edited(FileOf(lb, i), a) : data' = [data EXCEPT ![IdAfterLoad(i)] = content]
  /\ lb' = Invalidate(LoadedBook(i), IdAfterLoad(i), a)
  /\ rows' = RowsAfterLoad(i)
  /\ bulk' = Renamed(bulk, i)
  /\ UNCHANGED <<locked, loadFailed, dirty, saveFailed, mode, rest>>

\* mergeSessions() of one file starts with resolveIdentityStubs(), which remaps
\* as loading the rows would
StubsResolved == \A u \in rows \intersect Uuids : ~Loaded(u) /\ Readable(u) => IdAfterLoad(u) = u

\* No row has the SESSION_ID: a new one.  Bound: not while that session is in the
\* file of a row that could not be read to learn it, which could give two rows
\* one id.
ImportNew(s) ==
  /\ Running /\ StubsResolved
  /\ s \notin rows
  /\ ~\E i \in rows : ~Known(lb, s) /\ Known(lb, i) /\ FileOf(lb, i) # NoFile /\ FileOf(lb, i).id = s
  /\ \E content \in {c \in Contents : c.id = s} : data' = [data EXCEPT ![s] = content]
  /\ rows' = rows \union {s}
  /\ lb' = MarkSessionUnsaved(lb, s)
  /\ ScheduleSave(s)
  /\ UNCHANGED <<locked, loadFailed, bulk, mode, rest>>

\* The merge is decided on what is on disk unless the session is loaded, and
\* a file that cannot be read is never replaced.
ImportMerge(s, a) ==
  /\ Running /\ StubsResolved
  /\ s \in rows
  /\ \/ Loaded(s) /\ s \notin loadFailed /\ \E c \in Edited(data[s], a) : data' = [data EXCEPT ![s] = c]
     \/ /\ ~Loaded(s) \/ s \in loadFailed
        /\ Readable(s) /\ FileOf(lb, s).id = s
        /\ \E c \in Edited(FileOf(lb, s), a) : data' = [data EXCEPT ![s] = c]
  /\ loadFailed' = loadFailed \ {s}
  /\ lb' = Invalidate(lb, s, a)
  /\ ScheduleSave(s)
  /\ UNCHANGED <<locked, rows, bulk, mode, rest>>

\* Mutant: a row whose save fails is evicted all the same.
EvictAlways(i) ==
  /\ Running /\ i \in rows /\ Loaded(i)
  /\ \E o \in IF i \in dirty THEN SaveOutcomes(lb, data[i]) ELSE {[book |-> lb, ok |-> TRUE]} :
       lb' = AfterSave(i, data[i], o)
  /\ data' = [data EXCEPT ![i] = Stub]
  /\ dirty' = dirty \ {i} /\ saveFailed' = saveFailed \ {i} /\ loadFailed' = loadFailed \ {i}
  /\ UNCHANGED <<locked, rows, bulk, mode, rest>>

\* evictSession(): a row that cannot be saved stays
EvictSession(i) ==
  /\ Running /\ i \in rows /\ Loaded(i)
  /\ i \notin saveFailed
  /\ \/ /\ i \in loadFailed
        /\ data' = [data EXCEPT ![i] = Stub]
        /\ loadFailed' = loadFailed \ {i}
        /\ UNCHANGED <<lb, dirty, saveFailed>>
     \/ /\ i \notin loadFailed /\ i \in dirty
        /\ \E o \in SaveOutcomes(lb, data[i]) :
             /\ lb' = AfterSave(i, data[i], o)
             /\ MarkSaved(i, o)
             /\ data' = IF o.ok THEN [data EXCEPT ![i] = Stub] ELSE data
        /\ UNCHANGED loadFailed
     \/ /\ i \notin loadFailed /\ i \notin dirty
        /\ lb' = FillMissing(lb, i, data[i])
        /\ data' = [data EXCEPT ![i] = Stub]
        /\ UNCHANGED <<loadFailed, dirty, saveFailed>>
  /\ UNCHANGED <<locked, rows, bulk, mode, rest>>

\* MainWindow: removeSessions(), then removeSession() of the file (which may
\* fail, and does nothing for a session that was never saved), then flushIndex()
RemoveSession(i) ==
  /\ Running /\ i \in rows
  /\ rows' = rows \ {i}
  /\ data' = [data EXCEPT ![i] = Stub]
  /\ loadFailed' = loadFailed \ {i} /\ dirty' = dirty \ {i} /\ saveFailed' = saveFailed \ {i}
  /\ LET gone == IF Readable(i) THEN Forgotten(lb, i) ELSE lb
     IN  lb' \in IF RemovalFails THEN FlushOutcomes(gone) \union FlushOutcomes(lb) ELSE {Flushed(gone)}
  /\ UNCHANGED <<locked, bulk, mode, rest>>

\* Mutant: a loaded row with unsaved changes is not marked again.
RecomputedUnmarked(E) ==
  LET loaded == {i \in rows : Loaded(i)}
      b == [lb EXCEPT !.enabled = E]
  IN  [b EXCEPT !.cached = [i \in Ids |-> IF i \in loaded
                              THEN [c \in Columns |-> IF c \in E THEN ValueOf(b, data[i], c) ELSE NoValue]
                              ELSE @[i]]]

\* rebuildColumns() up to its flush: a loaded row gets a value for every
\* enabled column, a stub keeps the values it has
Recomputed(E) ==
  LET loaded == {i \in rows : Loaded(i)}
      changed == {i \in loaded : i \in dirty \/ HasUnsaved(lb, i)}
      b == [lb EXCEPT !.enabled = E]
  IN  [b EXCEPT !.unsavedAll = @ \union changed,
                !.needsFlush = @ \union {i \in changed : Known(lb, i)},
                !.indexDirty = @ \/ loaded # {},
                !.cached = [i \in Ids |-> IF i \in loaded
                              THEN [c \in Columns |-> IF c \in E THEN ValueOf(b, data[i], c) ELSE NoValue]
                              ELSE @[i]]]

\* LogbookColumnStore::setColumns(): the settings are saved, then rebuildColumns()
SetColumns(E) ==
  /\ Running /\ E # lb.enabled
  /\ lb' \in IF rows = {} THEN {Recomputed(E)}
             ELSE IF ColumnsFail THEN FlushOutcomes(Recomputed(E))
             ELSE {Flushed(Recomputed(E))}
  /\ UNCHANGED <<locked, rowVars, bulk, mode, rest>>

\* discardCachedValues()
Discarded(e) ==
  [lb EXCEPT !.env = e, !.cached = [i \in Ids |-> NoValues], !.indexDirty = TRUE]

\* A preference or registration changes, and checkCalculationEnvironment(),
\* which was posted, runs before the next event.
ChangeEnvironment(e) ==
  /\ Running /\ e # lb.env
  /\ lb' = Discarded(e)
  /\ UNCHANGED <<locked, rowVars, bulk, mode, rest>>

\* startBulkEdit() of one row; of several rows it is several calls in a row.
\* The column is marked when the edit is queued, not when it is made.
StartBulkEdit(i, a) ==
  /\ Running /\ i \in rows
  /\ Len(bulk) < MaxBulk
  /\ ColumnOf[a] \in lb.enabled
  /\ bulk' = Append(bulk, [id |-> i, attr |-> a])
  /\ lb' = Invalidate(lb, i, a)
  /\ UNCHANGED <<locked, rowVars, mode, rest>>

\* finishBulkEdit() is run by the cancellation, too
CancelBulkEdit ==
  /\ Running
  /\ bulk # << >>
  /\ bulk' = << >>
  /\ lb' \in FlushOutcomes(lb)
  /\ UNCHANGED <<locked, rowVars, mode, rest>>

-------------------------------------------------------------------------------
(* IdleScheduler::tick(): one step of the first task that has work, and that *)
(* task's onComplete, which flushes the index, when it has none left         *)

SaveWork == dirty \ saveFailed
BulkWork == bulk # << >>
ColumnWork == {i \in rows : Missing(lb, i) # {}}

\* saveNextSession()
SaveStep ==
  /\ Running
  /\ SaveWork # {}
  /\ LET i == First(SaveWork)
     IN  \E o \in SaveOutcomes(lb, data[i]) :
           /\ MarkSaved(i, o)
           /\ lb' \in IF SaveWork = {i}
                      THEN FlushOutcomes(AfterSave(i, data[i], o))
                      ELSE {AfterSave(i, data[i], o)}
  /\ UNCHANGED <<locked, rows, data, loadFailed, bulk, mode, rest>>

BulkTurn == Running /\ SaveWork = {} /\ BulkWork

\* the end of a step: q is left of the queue
BulkDone(q, b) ==
  /\ bulk' = q
  /\ lb' \in IF q = << >> THEN FlushOutcomes(b) ELSE {b}

\* Items whose session is gone, and sessions that cannot be read, are skipped
\* (the code skips all of the former in one step).
BulkSkip ==
  /\ BulkTurn
  /\ LET i == Head(bulk).id
     IN  i \notin rows \/ i \in loadFailed \/ (~Loaded(i) /\ ~Readable(i))
  /\ BulkDone(Tail(bulk), lb)
  /\ UNCHANGED <<locked, rowVars, mode, rest>>

BulkEditLoaded ==
  /\ BulkTurn
  /\ LET i == Head(bulk).id
         a == Head(bulk).attr
     IN  /\ i \in rows /\ Loaded(i) /\ i \notin loadFailed
         /\ \E content \in Edited(data[i], a) :
              /\ data' = [data EXCEPT ![i] = content]
              /\ \E o \in SaveOutcomes(Invalidate(lb, i, a), content) :
                   /\ MarkSaved(i, o)
                   /\ BulkDone(Tail(bulk), AfterSave(i, content, o))
  /\ UNCHANGED <<locked, rows, loadFailed, mode, rest>>

\* the session is loaded for the edit only; it stays if it cannot be saved
BulkEditStub ==
  /\ BulkTurn
  /\ LET i == Head(bulk).id
         a == Head(bulk).attr
         r == IdAfterLoad(i)
     IN  /\ i \in rows /\ ~Loaded(i) /\ Readable(i)
         /\ \E content \in Edited(FileOf(lb, i), a) :
              \E o \in SaveOutcomes(Invalidate(LoadedBook(i), r, a), content) :
                /\ BulkDone(Tail(Renamed(bulk, i)), AfterSave(r, content, o))
                /\ data' = IF o.ok THEN data ELSE [data EXCEPT ![r] = content]
                /\ MarkSaved(r, o)
         /\ rows' = RowsAfterLoad(i)
  /\ UNCHANGED <<locked, loadFailed, mode, rest>>

ColumnTurn == Running /\ SaveWork = {} /\ ~BulkWork

\* the end of a step after which b is the logbook and r the rows
ColumnDone(r, b) ==
  lb' \in IF \A i \in r : Missing(b, i) = {} THEN FlushOutcomes(b) ELSE {b}

\* processNextDirtyColumn(): the first row that misses a value, loaded for it
\* if it is a stub
ColumnStep ==
  /\ ColumnTurn
  /\ ColumnWork # {}
  /\ LET i == First(ColumnWork)
     IN  \/ /\ Loaded(i)
            /\ ColumnDone(rows, FillMissing(lb, i, data[i]))
            /\ UNCHANGED rows
         \/ /\ ~Loaded(i) /\ Readable(i)
            /\ ColumnDone(RowsAfterLoad(i), FillMissing(LoadedBook(i), IdAfterLoad(i), FileOf(lb, i)))
            /\ rows' = RowsAfterLoad(i)
         \/ /\ ~Loaded(i) /\ ~Readable(i)
            /\ ColumnDone(rows, lb)
            /\ UNCHANGED rows
  /\ UNCHANGED <<locked, data, loadFailed, dirty, saveFailed, bulk, mode, rest>>

\* cancelColumnWorker()
CancelColumnWorker ==
  /\ Running /\ ColumnWork # {}
  /\ lb' \in FlushOutcomes(lb)
  /\ UNCHANGED <<locked, rowVars, bulk, mode, rest>>

-------------------------------------------------------------------------------
(* Closing, crashing, starting *)

\* flushDirtySessions() visits every dirty row, those whose save failed too
Close ==
  /\ Running
  /\ mode' = "closing"
  /\ rest' = dirty
  /\ bulk' = << >>
  /\ UNCHANGED <<lb, locked, rowVars>>

CloseSave ==
  /\ mode = "closing" /\ rest # {}
  /\ LET i == First(rest)
     IN  /\ rest' = rest \ {i}
         /\ \E o \in SaveOutcomes(lb, data[i]) :
              /\ lb' = AfterSave(i, data[i], o)
              /\ MarkSaved(i, o)
  /\ UNCHANGED <<locked, rows, data, loadFailed, bulk, mode>>

\* (a session that was saved leaves indexDirty, or an index just written)
CloseFlush ==
  /\ mode = "closing" /\ rest = {}
  /\ mode' = "closed"
  /\ lb' \in IF lb.indexDirty THEN FlushOutcomes(lb) ELSE {lb}
  /\ UNCHANGED <<locked, rowVars, bulk, rest>>

\* The program ends here, closed or not, and is started again.
Restart(e) ==
  /\ lb' = Opened(lb, e)
  /\ rows' = {i \in Ids : Opened(lb, e).uuidOf[i] # NoUuid}
  /\ data' = [i \in Ids |-> Stub]
  /\ loadFailed' = {} /\ dirty' = {} /\ saveFailed' = {}
  /\ bulk' = << >>
  /\ mode' = "running" /\ rest' = {}
  /\ UNCHANGED locked

\* Another program holds a session file, or lets go of it.
LockFile(u) ==
  /\ FilesLock
  /\ lb.files[u] # NoFile
  /\ locked' = IF u \in locked THEN locked \ {u} ELSE locked \union {u}
  /\ UNCHANGED <<lb, rowVars, bulk, mode, rest>>

-------------------------------------------------------------------------------
\* the first start, in an empty directory
Init ==
  /\ \E e \in Environments :
       lb = [files |-> [u \in Uuids |-> NoFile], index |-> NoIndex,
             enabled |-> Columns, env |-> e,
             uuidOf |-> [i \in Ids |-> NoUuid],
             cached |-> [i \in Ids |-> NoValues],
             unsaved |-> [i \in Ids |-> {}], unsavedAll |-> {}, needsFlush |-> {},
             indexDirty |-> FALSE]
  /\ locked = {}
  /\ rows = {} /\ data = [i \in Ids |-> Stub]
  /\ loadFailed = {} /\ dirty = {} /\ saveFailed = {}
  /\ bulk = << >>
  /\ mode = "running" /\ rest = {}

UserCalls ==
  \/ \E i \in Ids : LoadSession(i) \/ EvictSession(i) \/ RemoveSession(i)
  \/ \E i \in Ids, a \in Attributes : Edit(i, a) \/ UpdateStub(i, a) \/ StartBulkEdit(i, a)
  \/ \E s \in Sessions : ImportNew(s)
  \/ \E s \in Sessions, a \in Attributes : ImportMerge(s, a)
  \/ \E E \in Layouts : SetColumns(E)
  \/ \E e \in Environments : ChangeEnvironment(e)
  \/ CancelBulkEdit
  \/ CancelColumnWorker
  \/ Close
  \/ \E e \in Environments : Restart(e)
  \/ \E u \in Uuids : LockFile(u)

Tick == SaveStep \/ BulkSkip \/ BulkEditLoaded \/ BulkEditStub \/ ColumnStep

Closing == CloseSave \/ CloseFlush

Next == UserCalls \/ Tick \/ Closing

Spec == Init /\ [][Next]_vars

\* The scheduler re-arms its timer after every step, and the event loop fires it.
FairSpec == Spec /\ WF_vars(Tick)

===============================================================================
