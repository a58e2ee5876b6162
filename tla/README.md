# Verification of the FlySight Viewer 2 core

The FlySight Viewer (Qt, C++17) shows flights recorded by FlySight devices. Its
core is not the drawing but the bookkeeping under it: sessions of a logbook that
are loaded and evicted on demand, values calculated from them and cached with a
dependency graph, long calculations that run on a background thread, and files
that are rewritten while all of this goes on. This directory holds TLA+ models of
that core, the TLC configurations that check them and machine-checked proofs.

All paths below are relative to the repository; the program is in `src/src`.

## 1. The system

Everything but `compute()` of a background calculation runs on the Qt main
thread. There are therefore few data races, and the hard behaviours are three
others: **re-entrancy** (a signal's slots call back into the emitter before it
goes on), **staleness** (what was read, captured or cached before is no longer
true), and **crashes or failed writes** between two writes to disk.

| Component | State | Operations | Talks to |
|---|---|---|---|
| Job queue (`jobqueue.cpp`) | the run (ticket, pending end, cancel flag, thread), posted start, idle and shutdown flags | request, cancel, cancelAll, cancelSession, cancelUnwantedQueued, shutdown; slots for progress, finish, engine and session changes | job records, engine (prepare, publish), session model (pin) |
| Job records (`jobmodel.cpp`) | one record per job: state, cancel mark, progress | append, mark..., remove finished rows, trim to a limit | the queue alone writes it; a dock shows it and may remove finished rows |
| Prepared calculations (`engine/preparedcalculation.cpp`) | captured inputs, marks stale and gone, outcome | run on any thread, publish on the main thread | owned by the run, marked by the engine |
| Calculation engine (`engine/calculationengine.cpp`) | per session: results, cached answers, edges to inputs, tickets, deferred invalidations | resolve, request, invalidate, prepare, publish, clear | registry, session data |
| Calculation registry (`engine/calculationregistry.cpp`) | candidates in registration order | register, unregister, batches | every engine is notified |
| Plot requests (`plotrequests.cpp`) | waiting plots and sessions, refused calculations | recompute, request missing, continue after a job, prune | plot model, session model, job queue |
| Session model (`sessionmodel.cpp`) | rows, loaded set with LRU order, pins, dirty rows, failed saves, load and edit queues | load, evict, edit, merge, remove, fill columns | engines, logbook, scheduler |
| Idle scheduler (`idlescheduler.cpp`) | registered tasks, whether a task is active | register, wake, cancel, tick | the session model's four tasks |
| Logbook on disk (`logbookmanager.cpp`) | index in memory, marks of unsaved values, `index.json`, session files | initialise, save, flush, remap, remove | session model |
| Import and merge (`sessionimport.cpp`, `sessionmerge.cpp`) | none of its own | decide whether a file extends a session, and apply the plan | session model |
| Session files (`dataimporter.cpp`, `dataexporter.cpp`, `sessiondata.cpp`, `conversion/`) | attributes and source columns of a session | parse, write, convert | import, logbook |
| Profiles (`profilemanager.cpp`, `profilestatebridge.cpp`) | profile files, their order, the menu | capture, apply, rename, reorder, delete, import, restore | every view model and setting |
| Markers and moments (`markermodel.cpp`, `momentmodel.cpp`, `altitudemarkerfeature.cpp`) | which markers exist and are enabled; the instants the views mark | register, replace, enable, move | settings, plot, map |
| Plot, legend, map (`PlotWidget.cpp`, `crosshairmanager.cpp`, `measuretool.cpp`, `TrackMapModel.cpp`) | what is drawn, the pending timers, the session hovered and traced, bubbles, range | mouse and keyboard, changes of sessions, timers | models, moments |
| Video dock (`VideoWidget.cpp`) | the seek in flight and the one that waits, anchor, slider | scrub, play, tie a frame to a session | player, moments |
| Built-in calculations (`calculations/`) | none | the times of a jump, the results of two disciplines | engine |

`PROJECT.json` lists the other parts (sensor fusion, plugins, other widgets) with the
reason each is left out.

### What makes each component correct

* **Job queue**: one worker at a time, and it never outlives its run; a job
  ends exactly once, as the first reason to stop it said; a result computed from
  inputs that have changed is not installed; no queued job is stranded; a session
  is pinned exactly while a job needs it; shutdown leaves nothing behind and
  returns.
* **Engine**: a read returns what a fresh evaluation returns, whatever was read
  before and however calculations are tangled; a ticket whose inputs changed is
  refused; whoever shows a value is told when it is dropped; what a name is said
  to wait for can be requested, and requesting it ends somewhere.
* **Registry**: whoever listens hears of every change, although listeners come and
  go during the broadcast; what is remembered of the registrations is what they say.
* **Plot requests**: jobs serve what is checked and shown; only what was asked for
  goes on; a row shows what is true.
* **Session model and scheduler**: nothing dirty, shown or pinned is dropped by an
  eviction, and what may go can be found; what is shown is drawn; every dirty row is
  saved, every column filled.
* **Import**: what a file recorded stands, importing it again changes nothing, and
  every session that came about can be written and read back.
* **Logbook**: `index.json` never holds a column value that disagrees with the
  session file beside it, whatever crashes or fails to be written.
* **Views**: the models that keep parts of one thing agree; once timers have fired,
  what is drawn is what there is; what a tool writes is what was under the pointer.
* **Jump**: the times of a jump follow one another whatever was recorded and set.

## 2. Plan

The order is that of the damage a mistake does and of how little tests reach.

| # | Modules | Composes | Abstract specification | Proved |
|---|---|---|---|---|
| 1 | `JobQueue` | queue, records, ticket marks, the session model and the engines as the queue sees them | `JobLifecycle` | types, inductive invariant, that the queue goes on, action properties, refinement, `SessionsAreHeld` |
| 2 | `Logbook` | index in memory and on disk, session files, rows, three idle tasks, crashes | - | `ValuesAgree`, `NothingIsLost`, `NothingDropped` with the switches off; `FilesAreKnown` with all of them on |
| 3 | `SessionCache` | LRU list, pins, focus, visibility, load and save tasks, the plot | - | `MemoryComesBack`, `ShownAreDrawn`, `NothingDropped` |
| 4 | `CalcEval`, `CalcEngine` | registry, the cache of one session, tickets, blocker inspection | evaluation from scratch (`evaluateFresh`, as an operator) | out of reach (recursive operators) |
| 5 | `PlotRequests` | plot model, visible tracks, the queue as it sees it | - | `JobsServePlots`, `ShownIsTrue`, `OnlyAskedFor` |
| 6 | `Registry` | registrations, memos, engines and observers | the least closed set of names, as an operator | `MemosAreCurrent`, `EveryoneHears`; what a closure contains is out of reach (`SelectSeq`, a recursive function) |
| 7 | `SessionFile`, `Import` | parser, merge, writer, rows and disk | a reference definition of what a session keeps | out of reach (folds over lines) |
| 8 | `Moments`, `Profiles` | markers, moments, settings, profile files | - | none: one handler is a chain of model signals whose end is what is claimed |
| 9 | `PlotView`, `Viewport`, `Video` | plot, crosshair, legend, measure tool, map, player | - | `Video`: `CursorTellsTheFrame`; `PlotView`: `CrosshairIsTrue`, `MeasureEnds`; `Viewport`: `BubblesAreTrue`, `MapFollows`, `MarkerIsAtPointer` |
| 10 | `Jump` | the attributes of a recording | the fastest interval by search over all | out of reach (folds over samples) |

All of these are checked. What is not modelled: see section 7.

## 3. The modules and the code

| Module | Models | Lines of it to read first |
|---|---|---|
| `JobQueue` | `jobqueue.cpp`, `jobmodel.cpp`, the marks of `preparedcalculation.cpp`, and the calls between them and `sessionmodel.cpp` | `Stopped`, `Verdict`, `FinishRun`, the actions from `Request` on |
| `JobQueueProps` | its properties and the inductive invariant | `Safe` |
| `JobLifecycle` | what the header `jobqueue.h` documents under LIFECYCLE | all of it |
| `JobQueueSafety` | proofs about the queue | `NextType`, `NextInv`, `NextMoves`, `RunStep`, `QueueImplementsLifecycle`, `Held` |
| `LogbookSafety` | proofs about the logbook | `Good`, `IInv` and the theorems after the steps; `FInv` and the theorem at the end |
| `PlotRequestsProofs`, `SessionCacheProofs` | proofs about the plot list's requests and the rows in memory | `IInv` in each; `OldestLeave`, `EvictIfNeededSound` |
| `RegistryProofs` | proofs about the registry's memos and broadcasts | `IInv`, `TellEngineIsGood` |
| `VideoProofs`, `PlotViewProofs`, `ViewportProofs` | proofs about the video dock, the plot and its axis | `IInv` in each |
| `Logbook` | `logbookmanager.cpp`, the rows, saves, imports and idle tasks of `sessionmodel.cpp`, the priorities of `idlescheduler.cpp` | `SaveOutcomes`, `Remap`, `Opened`, then the actions |
| `LogbookProps` | its properties | `ValuesAgree`, `NothingIsLost` |
| `CalcEval` | evaluation in `calculationengine.cpp`: how a name is resolved, what is cached, what a change drops; the oracle | `Lookup` and what it calls, `Usable`, `Settle`, `Invalidate` |
| `CalcEngine` | the calls of the engine: reads, changes, requests, tickets, inspection; registration in `calculationregistry.cpp` | `InspectName`, `PrepareReady`, `PublishTicket` |
| `CalcEngineProps` | its properties | `ReadsAreTrue`, `TicketIsCurrent`, `ReportIsRight` |
| `SessionCache` | the rows of `sessionmodel.cpp` in memory: visibility, focus, LRU list, pins, load queue | `Stays`, `EvictSessions`, `EvictIfNeeded`, `LoadNextVisibleSession` |
| `PlotRequests` | `plotrequests.cpp`, what `plotmodel.cpp` and `jobqueue.cpp` do for it | `Classify`, the passes over rows, `Finish` |
| `Registry` | `calculationregistry.cpp`: candidates, closures, broadcasts, fingerprint | `StaticDependencies`, `TellEngine` |
| `SessionFile` | `dataimporter.cpp`, `dataexporter.cpp`, `conversion/` | `ParseFile`, what is written |
| `Import` | `sessionmerge.cpp`, `sessionimport.cpp`, `mergeSessions()` | `Plan`, `MergeInto` |
| `Moments` | `momentmodel.cpp` | all of it |
| `Profiles` | markers, altitude markers, profiles and the settings they keep | `RefreshMarkers`, `ApplyProfile` |
| `Video` | `VideoWidget.cpp` | `Seek`, `SeekEnded` |
| `PlotView` | the plot's timers, `crosshairmanager.cpp`, the legend, `measuretool.cpp` | `UpdateTracers`, `WriteMouseMoment` |
| `Viewport` | the axis, marker bubbles and tools of `PlotWidget.cpp`, the map models | `PlotAxisXFromUtc`, `XCoordToUtcSeconds`, `Bubbles` |
| `Jump` | `attributecalculations.cpp`, `wspcalculations.cpp`, `spcalculations.cpp` | all of it, in order |
| `MCJobQueue`, `MCLogbook`, `MCSessionMemory` | small instances: functions from keys to sessions, from attributes to columns, rows in memory | - |
| `MCImport` | the files that are imported, and what the parser makes of each | `Good`, `Bad` |
| `MCRequests`, `MCCalculations`, `MCSessionData`, `MCScreen` | several instances side by side | - |

`PROJECT.json` maps every definition to the lines it stands for.

### JobQueue

*The call stack is a variable.* The main thread is sequential, but a Qt signal
calls its slots before the emitting function goes on, and a slot may call the queue
again. A step of the model runs from one emission to the next; `stack` holds one
frame per suspended function with the locals it still needs (`job`, the session id
copied by `endJob()`, the rest of a snapshot). The actions are of three kinds:

* calls (`Request`, `Cancel`, `CancelAll`, `CancelUnwantedQueued`, `Shutdown`,
  `RemoveFinished`), enabled in the event loop and in every slot (`InUserCode`);
* continuations (`AfterRowsInserted` ... `ShutdownWait`), the rest of the function
  on top of the stack;
* posted events (`StartNext`, `OnProgress`, `OnWorkerFinished`), in the event loop
  only, and the worker (`WorkerReport`, `WorkerReturn`), at any time. `shutdown()`
  waits for the thread without running the event loop; the worker's post is then
  still in flight and must be ignored.

Of the engine the model keeps, per explicit calculation, whether `prepare()` would
answer Ready and whether a result is installed. `run.current` is a history
variable: no declared input has changed since the ticket captured them. A change
the queue learns of by no signal (`SilentChange`) marks the ticket all the same,
which is what `publish()` relies on. `finishes` counts emissions of `jobFinished`.

Left out: texts, elapsed times, the item-model roles, the test hook that makes a
worker fail to start.

### Logbook

`lb` is the logbook as one record: on disk `files`, `index` and the `enabled`
columns of the settings; in memory what `LogbookManager` holds, under its names
without the `m_`. The operators on a record `b` are its methods; the actions are
those of the session model, which run several of them in one handler.

A session is reduced to one bit per column, an edit to an attribute that may flip
the columns it affects. A value in the index carries the environment it was
computed in. A row is a stub, a loaded session, or the empty placeholder of a file
that could not be read; it is named by its SESSION_ID or, until its file was read,
by the file's name.

*Crashes.* `Restart` may follow every step, and every write of a step may fail by
itself. Stopping in the middle of a handler, after its n-th write, leaves the disk
that the failure of the next write and a restart leave, so handlers need no
program counter. Writes go through QSaveFile, hence they happen or do not.

*Idle tasks.* The actions of `Tick` are guarded by the priorities of
`IdleScheduler::tick()`: a bulk edit step needs that nothing is to be saved, a
column step that nothing is to be saved or edited.

What was simplified, and why it loses no behaviour the properties tell apart:

* Eviction is an action of its own: any row that holds a session may go at any
  time. The code evicts the least recently used one that is not pinned; fewer
  rows, so safety carries over.
* A bulk edit of several rows is several `StartBulkEdit`; the queue keeps their
  order. Gone items are skipped in one step by the code and one per step here.
* The load task, visibility and the LRU order are in `SessionCache`.
* `row.cachedValues` and the manager's cache of the row's values are one variable:
  the code writes them together.
* The check of the environment that a registration posts runs before the next
  event that matters, so `ChangeEnvironment` is one action. Rows are ordered by
  id; the column task takes the first that misses a value.
* `ImportNew` is not offered while a row of a file that could not be read may hold
  that session: two rows of one SESSION_ID are not modelled.
* Not modelled: `lastAccessed`, the flat index of older versions and the backfill
  of attributes from it, sorting, progress counters, the conversion of values to JSON.

The constants FilesLock, RemovalFails, ColumnsFail and StubsByName are switches.
With all four FALSE the safety properties hold. Each of them turns on something the code
meets but does not survive:

| Switch | What may happen | Breaks |
|---|---|---|
| `FilesLock` | a session file cannot be read for a while | `IndexAgrees` and `CacheAgrees` of `ValuesAgree` |
| `RemovalFails` | removing a session's file, or writing the index after it, fails | `IndexAgrees` with a second file |
| `ColumnsFail` | writing the index after a change of the columns fails | `IndexAgrees` and `CleanIndexIsOnDisk` of `ValuesAgree` |
| `StubsByName` | `updateAttribute()` is called with the file name of a stub | `EditsAreMarked` of `ValuesAgree`, `NothingDropped` |

`FilesAreKnown` and `IdleWorkEnds` hold with all four TRUE (`logbook_idle`).

### CalcEval and CalcEngine

The engine is single-threaded and an evaluation runs to its end inside one call,
so **one evaluation is one operator**, not a behaviour: `Lookup(e, node)` returns the
engine after resolving a name (`resolve`) or a calculation (`ensureResult`), with the
scope stack in the record `e`, exactly as the code pushes, notes, closes and hands
up. What interleaves are calls: the actions of `CalcEngine` are the engine's public
operations.

**A value is where it came from**: the set of leaves and of calculations it was
made from. Two values are equal exactly when the same calculations produced them
from the same leaves, so "the same value as a fresh evaluation" needs no functions.
A calculation that declines runs and sets none of its outputs.

A **reader** (a cell, a plot) keeps in `shown` what it was given until it is told to
read again: by the set a notification or an outcome returns, or by the listener.
`quiet` are the names `prepare()` dropped and nobody has reported yet.

`decl`, chosen once among `Graphs`, is what calculations are registered; TLC
therefore checks every registration of a family of them, not one.

Simplified or left out:

* Names are attributes. Source measurements with their conversions, and families
  that instantiate calculations by name, are left out of the evaluation; what is
  registered of them is in `Registry`.
* A run that throws, reads an undeclared input or sets an undeclared output caches
  a result without outputs: to its readers it is a calculation that declines.
* `m_pendingSeeds` and `m_pendingClear`: a change notified during an evaluation is an
  assertion failure in the code. Counters, logs, `m_provisional` (which only feeds
  diagnostics of provisional results) and the engine's destruction are left out.
* Whoever assigns over a session is taken to tell all readers, as the comment in
  `sessiondata.cpp:51-54` asks.
* `Synchronous` are the calculations somebody calls `request()` for. Today's program
  calls it for none; the engine offers it, and the tests use it.
* Inspection with `notApplicable` set is a state of its own, "NotApplicable".

### SessionCache

`m` is the part of the session model that decides what is in memory. A row is a
stub, loaded, or the placeholder (`ghost`) of a file that could not be read. A row
known by its file name (`stems`) gets its id when it is first loaded, while the LRU
list, the load queue and the focus keep ids: an `Id` is the session with whether it
is the old name. `dirty` and `failed` stand for the save marks, whose effect on disk
is `Logbook`'s subject. `drawn` is the plot.

The LRU list is a set of ids and a relation: `newer` has the pairs of which the first is
newer. A use puts an id before all others, a removal takes its pairs out; where several
rows are used in one handler, the order in which the loop comes to them is that of the
rows. `evictIfNeeded()` walks from the oldest entry and stops once the list has its size.
It is written in closed form: an entry is met if it may go and fewer of those that may
go are older than there are too many (`EvictIfNeeded`), and what is met is removed or
found to stay as `evictSession()` decides (`EvictSessions`, `Stays`). That an entry which
is met and stays does not change what the loop does with the rest is what makes the closed form the loop.

Two history fields, `retried` and `quiet`,
say what the program does not keep: which saves failed since the last pass, and that
a row that waited was loaded by the focus.

Bounds: two sessions, one known by its file name and one whose file may become unreadable,
capacity 0 or 1, one pin each, a load queue of two entries (one may be there twice) or, while the disk is full, of
one (`FewWait`).

### PlotRequests

`w` holds the plot list, its waiting sets and the queue as it sees it: jobs, one
running, each live or asked to stop. Every slot is an operator on `w`, applied in the
code's order. The jobs are a set. Their order decides which is started, which is
`JobQueue`'s subject; here any that can run may start, and any of those that cannot may
have been met before it and have ended as moot, so every order is allowed. The loops
over jobs, tracks or plots are one step for all of them: what a cancelled job's slot
does to its track is the same whether the other jobs of the loop are gone already or not. `asked` is the history of gestures that were not taken
back; "only gestures start work" is stated against it. The engine is reduced to what
a report says: which calculations block a plot in a track, and whether a request has
nothing to run.

### Registry

A broadcast walks a copy of the list of listeners (`calling`), and each step may be
followed by a session that is loaded or closed or an observer added or removed;
`untold` is the history of who was listed at a change and was not called since.
A memo holds what would be computed now (`MemosAreCurrent`), and that is compared with a definition from
scratch: the least set closed under the inputs of every candidate (`ClosuresAreLeast`). The fingerprint decides when cached logbook values may be
used; any two registrations reachable here with the same one must try the same
candidates in the same order for every name.

### SessionFile and Import

A file is a sequence of lines and a line what its tokens say; numbers, and the text
of numbers, are small integers. The parser stages lines and publishes only when the
whole file was accepted. Text with a line break comes back on one line; what schema 1
recorded too small is converted when read. `Import` has batches, the decision between
a new session and a merge, saves, unloads, loads and edits. `last` is the history of
the file last imported into each session.

Bounds: nine files of two sessions, chosen so that each rule of the merge is met: the
two files of a recording with and without a declared schema, one whose attributes
conflict, one whose columns are too short, one that corrects a column, one a Viewer
wrote, one of the old format, one that is refused.

### Moments and Profiles

`Moments` are operators; it has no state of its own. `Profiles` has what is enabled in
the four places that keep it, and a profile as a function from the fields its file
has, so that files of older and newer programs are in it. Applying is one handler in
the code and one action here, composed of the same steps in the same order, each with
the signals it causes. The random suffix of file names is taken to be unused.

### Video, PlotView, Viewport

These are views that follow late. A change starts a timer or sets a flag, and an
action of the event loop (`EventLoop`, `Timers`) does the work; properties about what is
drawn are stated for the states in which nothing is due (`AtRest`), those about
the order of events for every state. Geometry is reduced to what decides: `Under`,
`Nearest` and `Tight` say of a place which tracks are there, which is nearest and
whether the one hovered before is still near enough. In `Viewport` places are whole
seconds from the lower end of the axis, and the clock of the device is UTC plus a
constant per session, or unknown.

Both modules have the axis on UTC or on the clock of the device, absolute or relative to a
marker, and sessions with a time fit and without. `PlotView` has of the conversions what
they decide: whether they have a value. `systemTimeToUtc` and `utcToSystemTime` have none without a fit
(`Convertible`, `Skew`), `markerOffsetSeconds` has none without the marker and, on the device
clock, the fit (`HasOffset`, `MarkerOffsetSeconds`), and `plotAxisXFromUtc` has none without both
(`OnAxis`, `PlotAxisXFromUtc`). The times themselves are passed on as recorded by the sensors that keep the clock
of the axis (`OwnClocks`), so the plots of such a sensor are drawn of a session without a fit
(`HasX`). On the device clock without a reference the crosshair therefore traces a session
for which the mouse moment has no time, and `writeMouseMoment` leaves the moment inactive.
`PlotView` does not have the range of the axis: after a change of the clock or
of the reference any place of the plot may be under a pointer that rests there
(`OtherAxis`). Which sessions have a fit is constant, since a fit is computed from
what a sensor recorded. Both clocks are kept by the plots of the instance; with a clock that
none of them keeps there is less to trace. Whether a measurement across all tracks finds
a sample in its range is left open (`sampled`).

The player of `Video` is external: it goes to the
position asked for, to the key frame before it, or nowhere, sooner or later.

Histories: `missed` (an update was dropped because a rebuild waits, or the graphs
changed under the cursor), `blank` (nothing shown under the mouse had data when
the legend was made), `unheard` (the map was not told of a marker of a session
that is not the reference), `wrote` (what a tool wrote and where the pointer was),
`asked` and `shown` of `Video`.

In `Viewport` an edit of several sessions is one step (`Store`), where the tools loop over the
sessions. The order tells nothing: an edit of a session touches what is remembered
of the reference session if it is that session, and otherwise only asks for a redraw.
`MarkerIsAtPointer` has hypotheses (`Written`), each of which the code needs: UTC on the axis; the
session has an offset; and if the marker is the reference of the axis, the session was
the reference session at the last redraw and is it now, and nothing but
this marker was moved since (`IsPlaced`). Without the last the offset that the plot remembers may
be stale: an edit of the reference session while another one is hovered asks for a redraw but
leaves it, and a second edit before the redraw then moves the range by both.

Bounds: two sessions of which one has a time fit, two places, four steps of the user (`PlotView`) or three
(`Viewport`), with any number of timer events between.

### Jump

The state is the recording and the stored attributes; everything computed is an
operator of it. All recordings of up to six samples of six kinds (climbing, leaving,
falling, uncertain and far apart, flaring, walking) are built sample by sample.
Values are whole numbers; an interpolated time is rounded up, which leaves every
comparison with a whole number as it is. A quotient 0/0 is the value NaN, with which
every comparison is false.

### Instances side by side

`MCRequests`, `MCSessionData`, `MCCalculations` and `MCScreen` instantiate several modules and a variable
`part` says which of them a behaviour is of. `MCRequests` extends `PlotRequests`, `MCCalculations` `Video`, `MCScreen`
`PlotView` and `MCSessionData` `Viewport`, so that their properties and assumptions are checked
under the names the proofs use; in a behaviour of another part their variables keep their initial values. The
modules of one such run share no state; they are put together because each is small, and not composed: no interleaving
of theirs is checked that does not occur in one of them.

## 4. What the runs show

TLC, two workers; the numbers are distinct states.

| Run | Instance | Shows |
|---|---|---|
| `queue_sessions` | 2 sessions with a calculation each, 2 jobs, stack depth 3, silent changes (1 613 000) | the inductive invariant, which says among other things that nothing stale is installed; the queue goes on, says once that it is idle, and leaves nothing at shutdown; sessions are pinned while jobs need them, a job ends once while no finished row goes; a stop stands; implements `JobLifecycle` |
| `queue_live` | 1 calculation, 2 jobs, finished limit 1, fairness (69 000) | a refused run is stopped; stopped jobs end, shutdown returns, and every job is answered if compute functions return |
| `queue_double_end` | 1 session, 2 calculations, finished limit 0 | violation: a job ends twice |
| `logbook_one` | 1 session, 1 file, 2 columns in 3 layouts, 2 environments, 2 bulk items (277 000) | index, cache and marks agree with the sessions; no session, edit or clean index is lost |
| `logbook_idle` | 1 session, 1 column, every switch on, fairness (140 000) | no file is lost sight of; idle work comes to an end although any write may fail each time |
| `logbook_locked` | 1 session, locked files | violation of `IndexAgrees` |
| `requests` | `PlotRequests` with 2 tracks and two plots of 1 calculation, or one of a chain of 2; `Registry`; `Profiles` (280 000) | jobs serve plots, only what was asked for goes on, rows show what is true; memos and listeners are not behind, the fingerprint decides; markers agree, a profile stands |
| `calculations` | `CalcEngine` with 64 registrations of 3 calculations over 3 names and a preference, mostly with rings, explicit or not, 1 ticket; `Video` (205 000) | reads are fresh, start nothing explicit, and depend on what was foreseen; a ticket not refused is current; the video moment tells the frame and seeks end |
| `session_memory` | `SessionCache` with 2 sessions (294 000) | memory comes back, what is shown is drawn, only idle rows leave |
| `session_data` | `Import`, `Jump`, `Viewport` (440 000) | a file imported again changes nothing, every session can be written, what was recorded stands; times in order, the fastest interval found; bubbles, dragged markers and map are true |
| `screen` | `CalcEngine` with 4 registrations without rings, one calculation unregistered and registered again, 1 reader, 1 ticket; `PlotView` with 2 sessions, one with a time fit, on both clocks (748 000) | readers who do as they are told show current values; "Ready" means that `prepare()` runs it; blockers can be requested and lead somewhere; crosshair and measurement are true, and the mouse moment is active exactly when the time of a traced session can be converted |
| `axis_system` | as `session_data` | violation: with the device clock on the axis a tool writes a time of that clock as UTC |

Properties that are conjunctions (`QueueMoves`, `SessionsAreHeld`, `StopsStand`, `StopsEnd`,
`ValuesAgree`, `NothingIsLost`, `ReadsAreTrue`, `ReportIsRight`, ...) put together what is
broken by the same mistakes; each conjunct has a name and a comment of its own.

### Why the bounds are enough to be interesting

*Queue.* Two jobs are a running one and a queued one, or a snapshot of two, which is
what every loop and every comparison of jobs in the code is about. Depth 3 lets a
slot call the queue from within a slot of a loop (`cancelAll` in `jobFinished` in
`cancelUnwantedQueued`). A finished limit of 1 trims the older of two records, of
2 none. Two calculations of one session are in `queue_double_end`; for them and for
every other instance the proofs remove the bounds for what is proved.

*Logbook.* A row's marks concern that row, one file and the index: one session
with two columns has every combination of marked, published, disabled and missing.
Two environments are an index of this one and an index of another. A second session
matters where one row's save flushes the other's values and where a row is renamed
onto another: no run has it. `logbook_idle` has one column, for its liveness and its
four switches.

*Engine.* Three calculations make two rings that share a calculation, a ring with a
way out, and a fallback behind either; the order of reads is the order of actions.
One ticket is enough: tickets know nothing of each other, and two jobs for one
result exclude each other in the queue. The single value of a leaf, absence and an
invalid stored value are the three cases the code distinguishes.

*The others.* With their modules, in section 3. Two rows are the least for which one
is evicted for the other, one waits behind the other, one is hovered and the other
traced, and the reference of the axis changes.

*Symmetry.* `queue_sessions` permutes its two sessions together with their
calculations: no definition and no property names one, and no property of it is a
liveness property. No other run uses symmetry.

*Deadlock.* The queue's runs do not check it: after `shutdown()` with the session
model gone nothing is left to do. Nor do `session_data` and `screen`: a
recording of full length and a user who has taken all steps
stay as they are. The other runs that pass check it.

### Fairness

`FairSpec` of `JobQueue` assumes that a function on the stack goes on (`Resume`),
that the event loop delivers what was posted (`StartNext`, `OnWorkerFinished`), and
that a compute function returns once its flag is raised, which `CalculationContext`
asks of compute functions. That they return unasked is no assumption of the
specification but the premise of `EveryJobIsAnswered` (`ComputesReturn`). Calls of
users are not fair, so nothing depends on someone pressing Cancel.

`FairSpec` of `Logbook` is `WF(Tick)`: `tick()` re-arms its timer while a task has
work, and every path that creates work calls `wake()`. `IdleWorkEnds` excepts
behaviours in which the user acts for ever, since each act may create new work.

`MCCalculations` assumes `WF` of the video's `Watchdog`, a running timer of the event loop; that
the player ever answers is not assumed. `SeeksEnd` excepts a user who seeks for ever.

## 5. What is proved

The proofs about the queue hold for every number of sessions, calculations and jobs, every
stack depth and finished limit, and both values of the switches; their one assumption is
`ConstantsAssumption` of `JobQueue` (every calculation belongs to a session, the
bounds are naturals).

* `TypeCorrect` (`JobQueueSafety`). Not only sorts: every frame is one that a
  continuation can resume, a loop's rest contains jobs, `Oldest` is applied to
  sets that are not empty. Lemmas treat the stack once (`PushFrames`, `PopFrames`)
  and each shared function once (`EndJobType`, `FinishRunType`, `RequestStopType`,
  ...); then there is one step per action.
* `QueueInvariant` (`JobQueueSafety`): `Inv == TypeOK /\ Safe`. The headline
  invariants are not inductive alone. `OneWorker` needs to know that a job whose
  `jobStarted` is being emitted has no thread yet and is announced by the one
  `startNext()` at the bottom of the stack (`StackShape`, `StartingIdle`), and that
  nothing was posted for a job that has not started (`IdsInOrder`). Its part
  `NeverStale` needs that an unmarked run is current (`RunIsHonest`) and that a run's record
  reads Running. `RunningIsOldest` needs that ids grow. The proof goes through five
  effects on the records that all actions are made of: end a queued job, finish
  the run, stop it, forget rows, or touch none of them (`EndQueuedSafe`,
  `FinishRunSafe`, `StopSafe`, `RemoveRowsSafe`, `QuietSafe`), and through what
  pushing and popping frames does to the shape of the stack (`FitsPush`, `FitsPop`).
* `WorkersDoNotOutliveRuns`, `StopsAreRecorded`, `FirstComeFirstServed`, `NoDuplicates`: the conjuncts of `Safe` a reader asks for.
* `QueueAlwaysMoves` (`JobQueueSafety`): `QueueMoves` is `NoLostStart`, `IdleAnnouncedOnce` and
  `ShutdownLeavesNothing`. None is inductive alone. A queued job without a run is waited
  for by the posted start or by a function on the stack that is still to schedule
  one, and popping a frame must not take the last such function away; a suspended
  `request()` counts only while its job is active. `ShutdownLeavesNothing` needs
  `ShutdownGoesOn`: while `shutdown()` is on the stack its snapshot holds every queued
  job, or none is left and it waits for the run. One lemma per effect on the stack,
  then one step per action, on top of `Inv`.
* `CancelAlwaysWins`, `FirstStopAlwaysDecides`, `StopsAlwaysStand` (`JobQueueSafety`): from the
  invariant and `RunStep`, which says what any step does to a run: keeps it with its
  pending end, sets the pending end for the first time, or finishes it as the
  verdict says.
* `QueueImplementsLifecycle` (`JobQueueSafety`): with phases read from the records
  and `stopping` from the cancel marks, every step of the queue is one of
  `JobLifecycle` or leaves it unchanged. The same effects give the steps
  (`EndQueuedDrops`, `FinishRunFinishes`, `StopAsks`, `RemoveRowsForgets`).
* `SessionsAreNeverLost`, `StaleRunsAreStopped` (`JobQueueSafety`): from `Held`, which is
  `PinsBalanced`, `StaleRunIsStopped` and four facts without which neither is inductive. An eviction
  looks at the pins, so it is the balance that says it takes no session from an active job,
  and hence marks no run. A session is owed one pin per active job and one per
  `jobFinished` that has not returned, which is counted over the stack (`CountPush`, `CountPop`,
  `PinsAreOwed`); a removed row has a blank key (`RemovedRowsAreBlank`), so a second end
  of its job unpins nothing. When a session is removed, its jobs are without it until the
  snapshot on the stack comes to them (`OrphansAreSeen`). None of this needs a hypothesis.
* `JobsEndOnce` (`JobQueueSafety`): `jobFinished` is emitted once per job in every behaviour with
  `[]SnapshotsStand`, that is, in which no row is removed that a loop over a snapshot
  of queued jobs still holds. Finding 1 is a behaviour without it.
* `SessionsAlwaysHeld` (`JobQueueSafety`): the property of `queue_sessions`, whole, from `RowsStay`: slots
  remove no rows and at least as many finished rows are kept as there are jobs. Then no
  row is ever trimmed (`TrimsNothing`, with `FinishesCounted` as invariant), and the snapshots stand.

The proofs about the logbook hold for any sessions, files, columns, attributes and
environments. Writes may fail at every attempt and the program may stop after each of them.
The first three have the hypothesis `Faultless`, the four switches of section 3 off; with any
of them on the run or the configuration named in section 6 shows a violation. The fourth
has no hypothesis.

* `ValuesAlwaysAgree`, `NothingIsEverLost`, `NothingIsEverDropped` (`LogbookSafety`): from `IInv`, the
  types, `Good` and `ClosingIsWhole`. `Good` has a half for what is in memory and one for what
  is on disk, each with what the other needs. In memory, a name belongs to one file and one
  row (`FilesAreNamed`, `RowsAreKnown`), a stub's content is its file (`StubsAreNew`), a cached value is that of the
  session or the file (`CacheIsTrue`), and where the two differ the row is dirty and the column
  marked (`ChangesAreMarked`). On disk, a value in the index is that of the file it names
  (`IndexIsTrue`), whatever a flush would still change is asked for (`FlushIsAsked`), and an index that is
  not marked is the one in memory (`CleanIsWritten`). `ValuesAgree` alone is not inductive: that an edit
  leaves the index true depends on the marks, that a save may drop them on the order
  in which file and index are written, and that a restart finds a true cache on the index
  it reads. First there are lemmas about one operator each (`SaveOutcomes`, `Remap`, `Flush`,
  `Invalidate`, `Opened`), then one per action.
* `FilesAreAlwaysKnown` (`LogbookSafety`): whatever cannot be read, written, removed or looked up, and wherever
  the program stops, every session file belongs to an id, as in `logbook_idle`. From `FInv`, which is `Traces`
  of the logbook, `RowsStand` and `RestStands`. A save writes to the file of the id that the content
  has, so it must be known that what is dirty is a session under its own id, and that a row
  which is not dirty has its id in the map, or it would be saved to a second file (`RowsStand`). Both
  need the maps: every file is named by the one in memory, a name that is a file name names
  that file only, and the index gives no file that memory gives to another session (`Traced`). A restart
  reads whatever index is there, perhaps an old one or none; files it does not name are
  adopted under their file name, so what was true of memory is true again.

The proofs about the plot list have the hypothesis `IsPlotRequests` of `PlotRequests`: what a plot
needs contains, with a calculation, those it rests on. Plots, tracks and calculations may be any
number, and the chains of any depth. `MCRequests` assumes it of its instance.

* `RequestsInvariant` (`PlotRequestsProofs`): `IInv`, the types and five facts. `JobsServePlots` contains that
  a track which is to go on has a job that will end (`HaveJobs`), that a queued job is needed (`QueuedNeeded`)
  and that the jobs of the set can be told apart (`OneEach`). It is not inductive: when a job ends or
  is stopped, `stopContinuing()` looks at the tracks that are shown, so it must be known that
  whatever waits is shown and checked and that what goes on also waits (`FlagsAreAsked`). A queued job is
  needed because its calculation is one the plot comes from, which lasts through an edit; that it
  blocks the plot now, which is what `pruneUnwantedQueued()` asks, would not. And
  `requestMissing()` sets what goes on after it has asked, so that there is a live job.
* `JobsAlwaysServe`, `RowsAreAlwaysTrue` (`PlotRequestsProofs`): two invariants of `requests`. That rows are true
  once no update is scheduled (`RowsAreTrue`) is kept because each handler that changes what `classify()`
  reads starts the timer or ends in a pass; the one exception, a change
  that only makes the component forget a refusal, is in the property.
* `OnlyGesturesStartWork` (`PlotRequestsProofs`): only `requestMissing()` and `continueAfter()` create jobs. The second
  does so for what goes on, and `continues` is a subset of what was asked for and not taken back. Since a
  pass adds to what is waited for and never to what goes on, a row that waits for another row's job starts nothing.

The proofs about the registry have the hypothesis `IsRegistry` of `Registry`, that no engine is an
observer. Names, registrations, families, preferences and listeners may be any number. `MCRequests`
assumes it of its instance.

* `RegistryInvariant` (`RegistryProofs`): `IInv`, the types and three facts about the states in the middle of a
  broadcast. Until the engines were told the memos may be of the registrations before
  (`MemosStand` excepts that phase), and they go before the observers' turn comes. An engine that has not
  heard is in the list, and its turn is to come (`EnginesHear`): both are needed, since a session that is
  destroyed goes from the list and not from the copy, and one that is loaded meanwhile joins the list and
  has nothing to hear. Observers are alike, except that one who was taken off is called nonetheless
  (`ObserversHear`).
* `MemosAreAlwaysCurrent`, `EveryoneAlwaysHears` (`RegistryProofs`): two of the three parts of `NobodyIsBehind`, which
  `requests` checks. `dependsOnExplicit()` fills both memos and reads the first, which is why neither is right
  without the other. The third part, that a closure is the least one, is a fact about the operator.

The proofs about the session cache have the hypothesis `IsSessionCache` of `SessionCache`: the sessions
are a finite set of positive numbers, the rows known by a file name are among them, and the
capacities are naturals. How many rows may be loaded at once, pins, the length of the
load queue, which files cannot be read and whether the disk fills are free. `MCSessionMemory`
assumes it of its instance.

* `CacheInvariant` (`SessionCacheProofs`): `IInv`, which is `Sound`, `HiddenAreListed`, `Bounded` and
  `DrawnAreShown`. `MemoryComesBack` needs that the list names hidden rows in memory and nothing else
  (`ListedAreHidden`), under the names they have now, or an entry would count that nobody can evict; that `newer` is a
  strict partial order (`NewestFirst`), or removing the oldest would not remove enough; and that what is
  unsaved is in memory and not a placeholder (`RowsHold`), or an eviction would lose it. `Bounded`
  counts the entries that may leave (`Loose`) instead of comparing the list with those that may
  not, since it is this number that an eviction brings down and a pin or a failed save only lowers; an unpin
  raises it, and queues a pass. The heart is `OldestLeave`: of the entries
  of a finite list, those that fewer than n others are older than are all of them, or n at least. It is
  proved with an entry whose set of older ones is minimal among those that do not leave. Then
  `EvictIfNeededSound` says that an eviction re-establishes the bound from any state in which the rest holds,
  which is what most handlers end with; between, a lemma per operator says what of the invariant it keeps.
* `MemoryAlwaysComesBack` (`SessionCacheProofs`): of the invariant, by comparing cardinalities.
* `PlotAlwaysShows` (`SessionCacheProofs`): `DrawnAreShown` follows every handler that announces and needs of the others that
  they change neither what is shown nor which of it is loaded. An eviction is one of them since what
  it meets is hidden (`LeftKeepsScreen`). Stating the property showed that it holds whether or not rows still wait
  in the load queue; the runs had checked it with an empty queue only.
* `NothingIsEverDropped` (`SessionCacheProofs`): an action property, proved in the same steps: what leaves memory was
  met by an eviction, hence hidden, without a pin and saved; or its row is removed.

The proofs about the video dock have the hypothesis `IsVideo` of `Video`: the length is a
natural, the rows are a sequence of sessions, what is shown are sessions and their sync
times integers. `MCCalculations` assumes it of its instance, where TLC evaluates it.

* `VideoInvariant` (`VideoProofs`): `IInv`, which is the types, `Told`, `SeekIsWhole`,
  `AskedIsKept` and `ShownIsPosition`. `CursorTellsTheFrame` speaks of a settled video
  only and is not inductive: what the user asked for may wait behind a seek, be on its
  way to the player or be there (`AskedIsKept`), and while a seek is in flight the
  position the player reports is held back, so the slider and the cursor are where the
  seek goes (`ShownIsPosition`). What a seek leaves behind, its timer, its target and
  the one that waits, goes with it (`SeekIsWhole`). Without a sink for frames a seek
  cannot end by a frame, and only `Told` is claimed: the moment is active exactly while
  a session is tied. One lemma says what each operator does (`CursorToDoes`,
  `SliderToDoes`, `SyncStateDoes`, `PositionChangedIsGood`, `SeekIsGood`,
  `SeekEndedIsGood`), then there is one per action.
* `CursorAlwaysTells` (`VideoProofs`): `Spec => []CursorTellsTheFrame`, for every length of
  the video, every choice of key frames and any number of sessions.

The proofs about the plot have the hypothesis `IsPlot` of `PlotView`: the rows are a sequence of
sessions, a place has sessions under it, and the pointer can be away. Which sessions have a time fit, which are near, which place is
tight, the keys and the number of steps are free. `MCScreen` assumes it of its instance.

* `PlotInvariant` (`PlotViewProofs`): `IInv`, the types, `Drawn`, `MeasureIsWhole` and `LegendHears`.
  `CrosshairIsTrue` speaks of the states in which nothing is due, and each of its parts has to be
  kept through those in which something is. The pointer may be elsewhere than the widget
  believes; what is known then is that the crosshair is in the plot only if the widget saw the pointer
  there (`OverIsInside`) and that it knows once it was told (`PointerIsKnown`). While a redraw is due
  nothing is claimed of what is drawn, and after it the graphs are what can be drawn (`GraphsAreDrawable`),
  so that whatever is traced has an offset (`GraphsArePlaced`) and the mouse moment is
  written with it if the time of one traced session can be converted, and is inactive otherwise
  (`TracedIsUnder`). An edit of the reference redraws only an axis that is relative to it; on
  another one neither what is drawn nor what can be converted depends on it (`ToldIsGood`). A change of the axis may bring
  another place under the pointer, but a pointer in the plot stays there (`OtherAxisDoes`), and
  the redraw writes the moment anew (`RedrawIsGood`). The cursor of a moment is kept as long as the
  pointer was last seen elsewhere, no update waits and none was lost (`CursorKept`); whether the pointer has
  come back unseen must not matter, or the action that moves it would break it. An eviction,
  which no view hears of, is harmless since what is drawn is shown and what is
  evicted is not (`CursorIsSame`); while the axis is the same, what is placed is too (`AxisIsKept`). One lemma says what each operator does (`MouseMomentIsWritten`,
  `UpdateTracersDoes`, `CursorOfDoes`, `UpdatePlotDoes`), then there is one per action.
* `CrosshairAlwaysTrue`, `MeasureAlwaysEnds` (`PlotViewProofs`): two properties of `screen`, for any number of
  sessions and places and behaviours of any length. The proof found that `blank` has to look
  at the sessions shown: with a third session that is hidden while the pointer rests, the
  legend is empty though a target has data, which two sessions cannot show. That a legend of one
  target shows it needs that the sessions are finitely many (`SessionsAreFinite`).

The proofs about the axis have the hypothesis `IsViewport` of `Viewport`: the rows are a sequence
of sessions, the keys are finitely many, times, places and moves are integers, what is computed is
an integer or nothing, and so is the difference of the clocks. `MCSessionData` assumes it of its
instance. The distance of clusters and the number of steps are free.

* `ViewportInvariant` (`ViewportProofs`): `IInv`, which is the types, `Drawn`, `Followed` and `WrittenStands`. That
  bubbles are right at rest needs that only a redraw which is due swallows updates (`BubblesStand`:
  `full` implies `rebuildDue`); `DragIsWhole`, that a drag has its marker. `Followed` is
  kept by every edit because a change of the range passes through `SetRange` and an edit marks the
  dots, and because a track depends on the reference marker of its session only, for which it is
  put among the unheard (`DotsAreRead`, `CutIsRead`). The dots are compared with the range as the code
  converts it, which for a session without a fit is the range of the device clock (`DotRange`). The hard part is the pointer: dragging the reference
  marker moves the range under it, by the difference of the new offset and the remembered one. So
  `OriginIsKnown` says that unless a redraw is due, what is remembered is the offset of the session,
  and `WrittenStands` that it still is after a drag, although a redraw is due then; so that
  the next move of the same drag is right too. `StoreEffect` says what an edit does to all
  three, `WritingIsGood` what a tool does, and then there is one lemma per action.
* `BubblesAreAlwaysTrue`, `MapAlwaysFollows`, `MarkerIsAlwaysAtPointer` (`ViewportProofs`): three properties of
  `session_data`, for any number of sessions and behaviours of any length. `MarkerIsAtPointer` was
  stated without `IsPlaced` before, and the runs of three steps agreed; the proof failed where the
  remembered offset is stale, and TLC finds that with five steps.

Only model-checked: the properties of `CalcEngine`, `Import`, `SessionFile`, `Jump` and
`Profiles`, of `Registry` those about closures and the fingerprint, and every liveness property. Liveness stays with TLC: the prover has no rules for
fairness and ENABLED. So does what would need induction over data, since the library's
induction theorems take operators as parameters: that rules out what
`SelectSeq` and the closure compute (`Registry`), and the folds over samples (`Jump`) and lines (`SessionFile`, `Import`). `CalcEval`
and `CalcEngine` are written with RECURSIVE operators, since the code recurses through
names and calculations; the provers cannot see through those. `Profiles` folds over the altitudes and the
markers of a profile in the order in which they announce themselves.

## 6. Where code and documentation disagree

Three have a run in which TLC finds them; `PROJECT.json` quotes the lines.

1. `jobqueue.cpp:588` (`queue_double_end`) A job may end twice: the loops over a
   snapshot of queued ids look each id up again, and the record of a removed row
   reads Queued.
2. `sessionmodel.cpp:1805` (`logbook_locked`) The column task takes the placeholder of
   an unreadable file for a session and publishes the values of an empty one.
3. `PlotWidget.cpp:404` (`axis_system`) With the device clock on the axis, Set Exit and
   the other marker tools, and a dragged bubble, store a device time as UTC; the
   measure tool and the mouse moment convert it.

Found by changing a configuration:

4. `sessionmodel.cpp:1384` A column is disabled, index.json cannot be written just
   then, and an edit that affects only that column is saved: the old value stays
   in the index beside the new file, against `logbookmanager.h:35-36`.
   (`LogbookOne.cfg` with `ColumnsFail = TRUE` and `IndexAgrees` only.)
5. `sessionmodel.cpp:757` A file imported again, whose SESSION_ID an index entry
   still holds, is edited under its file name and saved under its SESSION_ID.
   (`LogbookOne.cfg` with `RemovalFails = TRUE`, a second file and `IndexAgrees` only.)
6. `sessionmodel.cpp:1197` `updateAttribute()` with the file name of a stub renames the
   row while loading it, and `scheduleSave()` then looks for the old name, so the edit
   is lost when the row is evicted; `sessionmodel.h:76-83` asks every path that
   changes a row to schedule a save. No caller does this today. (`LogbookOne.cfg` with
   `StubsByName = TRUE`.)

Met while modelling; the models behave like the code, and where a property would
break it excepts the case in words of its own:

* `sessionmodel.cpp:1817` "Load failed; skip this session" does not skip it: a row
  whose file cannot be read is found first by every tick of the column task, and
  no row behind it is filled.
* `calculationengine.cpp:1180` `prepare()` drops names that were read while the
  calculation was not requested and leaves it to `publishPrepared()` to report them. When
  the ticket is refused or discarded (1219-1242) nobody does; and if a leaf changes in
  between that fed such a name through a fallback, the change does not report it
  either, since it is no longer cached. `jobqueue.cpp:362` relies on "no value
  changed". `ShownIsFresh` excepts these names (`quiet`).
* Rings of calculations are a registration error the engine reports and survives: its
  answers stay independent of the order of reads (`calculations`). Its advice does
  not: with a ring through an explicit calculation `readiness()` may say Ready where
  `prepare()` finds a cycle, and two explicit calculations on one ring drop each other's
  results for ever. `ReportIsRight` is therefore checked without rings.
* Session cache. The row with the focus is taken from the LRU list "so it won't be
  evicted" (`sessionmodel.cpp:1149`) under the name it had before the load; a stub known
  by its file name has another id by then, stays in the list and may be evicted. A visible stub that waits to be loaded and is loaded by
  the focus is announced to no view (`quiet`). A small `setRowsVisibility()` clears the load
  queue without announcing what the batch had loaded (868-891, against 845).
* Plot requests. A change that does not concern a refused calculation makes the
  component forget the refusal; the row goes on showing it until the next pass.
* Import. A file with an empty `$VAR,SESSION_ID,` gets a synthesized id as its row's name
  (`dataimporter.cpp:66-75`) that is not stored in the session (205-208), and `saveSession()`
  (`logbookmanager.cpp:601-605`) refuses it for ever; `docs/DATA_SCHEMA.md:210-213`
  lists it among the defaults a new session gets. No such file is among the instance's.
* Profiles. `applyProfile` writes the unit before the array of altitudes, contrary to
  `preferencesmanager.h:58-62`; the order does not show in the end (`ProfileStands`). A
  renamed profile goes to the end of the order, though `manageprofilesdialog.cpp:190`
  means to put the new id in the old one's place, since `deleteProfile` has already taken
  the old one out. The reference of an imported profile with an unknown marker is kept
  until the markers change next.
* Plot. A moment update is dropped while a full rebuild waits (`missed`). Data of an enabled
  plot that nobody has drawn is ignored. Ctrl released outside the plot and pressed
  again keeps the old lock. Shift seen only by a redraw leaves hovered and traced
  different until the next move.
* Legend. `LegendPresenter` listens to changes of the model, of visibility, plots, moments and
  settings, but not to `dependencyChanged` (`LegendPresenter.cpp:98-135`). Made while none of the traced
  sessions has data, it stays clear when an edit brings the data back, until the pointer moves;
  `MeasureEnds` excepts it (`blank`).
* Axis. Dragging the bubble of the reference marker of a session that is not the
  cached reference session runs away (`PlotWidget.cpp:1595-1596`), a mere click on a
  bubble stores the computed time as the user's, `xCoordToUtcSeconds` without an offset
  returns 0, which is stored, and the map is not cropped anew when a marker of a
  session other than the reference one is edited (`unheard`). On the device clock without a
  reference, the dot of a marker of a session without a fit is filtered by comparing its UTC time with the unconverted
  ends of the range (`MapCursorDotModel.cpp:335-347`) and hidden, where its track is drawn whole;
  and while only such sessions are under the pointer, the mouse moment is inactive though the plot
  traces them (`PlotWidget.cpp:1935-1947`).
* Jump. `attributecalculations.cpp:17-18` announces the largest descent, but a descent that
  is followed by a new high without a pause before it is forgotten and not compared
  (41-46). Two samples at exactly 10 m/s give a NaN exit (261), with which no later
  comparison holds. A new
  low during a flare forgets the gains before. The landing is found without regard
  to the exit. Gates may be stored in the wrong order (`GatesInOrder` says when it holds).

## 7. What is not modelled

* Sensor fusion and the vectors computed sample by sample: floating point without
  state between calls. Python plugins: registrations at the start, and a bridge that
  converts values.
* Painting, layout, colours, texts; the logbook view, dialogs and preference pages
  other than the altitude markers; zoom, pan and select tools with their margins; the
  analysis docks, which read what `Jump` computes; the time extents of a session.
* Characters of numbers and times and encodings in session files; the JSON of index
  and profiles; the flat index of older versions.
* Inside an evaluation: source conversions, families, failures of a run.
* Compositions: the modules share the boundary operations (loading, pinning, edits,
  requests, notifications) but are checked one by one, except for the queue with the
  sessions and engines as it sees them and the logbook with its rows, tasks and disk.
