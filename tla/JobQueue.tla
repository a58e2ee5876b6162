------------------------------- MODULE JobQueue -------------------------------
(***************************************************************************)
(* The background job queue of the viewer (src/src/jobqueue.cpp) and the   *)
(* store of its records (src/src/jobmodel.cpp), with the parts of the      *)
(* session model and of the calculation engine the queue talks to.         *)
(*                                                                         *)
(* One main thread runs every handler; one worker thread at a time runs    *)
(* compute().  What makes the queue hard is re-entrancy: every signal may  *)
(* run slots that call request(), cancel*() or shutdown() before the       *)
(* emitting function continues.  The variable "stack" is therefore the     *)
(* main thread's call stack: one frame per function that is suspended in   *)
(* an emission or in a loop around one, holding what that function         *)
(* remembers.  The stack is empty when control is in the event loop.       *)
(***************************************************************************)
EXTENDS Integers, Sequences, FiniteSets

CONSTANTS
  Sessions,       \* the sessions of the logbook
  Keys,           \* explicit calculations, one per (session, instance)
  SessionOf,      \* the session a key belongs to
  MaxJobs,        \* bound: jobs ever created
  MaxDepth,       \* bound: frames on the stack when a slot calls the queue
  FinishedLimit,  \* JobModel::finishedLimit()
  SilentChanges,  \* may an engine change reach the queue by no signal?
  SlotsRemoveRows \* may a slot remove finished rows of the job model?

NoJob == 0
JobIds == 1..MaxJobs
NoKey == [none |-> "key"]
NoSession == [none |-> "session"]

ASSUME ConstantsAssumption ==
  /\ SessionOf \in [Keys -> Sessions]
  /\ NoKey \notin Keys
  /\ NoSession \notin Sessions
  /\ MaxJobs \in Nat
  /\ MaxDepth \in Nat
  /\ FinishedLimit \in Nat
  /\ SilentChanges \in BOOLEAN
  /\ SlotsRemoveRows \in BOOLEAN

EndStates == {"Succeeded", "Cancelled", "Superseded", "Failed"}
NoEnd == "NoEnd"

VARIABLES
  \* JobModel: the records, in request order (ascending id)
  state,           \* JobRecord::state; "None" before append, "Removed" after removal
  key,             \* sessionId and instanceId of the record
  cancelRequested, \* records with cancelRequested set
  progressShown,   \* records whose progressText is not empty
  finishes,        \* how often jobFinished was emitted for the job (history)
  \* JobQueue
  nextId, shutDown, startQueued, idleAnnounced,
  run,             \* m_run: job, pending end, cancel flag, and the ticket's marks
  stack,
  \* the worker thread and what it posted to the main thread
  thread, finishedPosts, progressPosts,
  \* SessionModel and the engines of its loaded sessions
  alive, loaded, pins, ready, result

modelVars == <<state, key, cancelRequested, progressShown, finishes>>
queueVars == <<nextId, shutDown, startQueued, idleAnnounced>>
workerVars == <<thread, finishedPosts, progressPosts>>
sessionVars == <<alive, loaded, pins, ready, result>>
vars == <<modelVars, queueVars, run, stack, workerVars, sessionVars>>

-------------------------------------------------------------------------------
(* The records *)

Queued(j) == state[j] = "Queued"
IsActive(j) == state[j] \in {"Queued", "Running"}
IsFinished(j) == state[j] \in EndStates
Active == {j \in JobIds : IsActive(j)}
QueuedJobs == {j \in JobIds : Queued(j)}

\* Mutant: the loops over a snapshot do not look the job up again.
NoSecondLook(j) == TRUE

\* record(id) of a row that is gone is a default JobRecord, whose state is Queued.
RecordReadsQueued(j) == state[j] \in {"Queued", "Removed"}

SessionOfJob(j) == IF key[j] = NoKey THEN NoSession ELSE SessionOf[key[j]]
SessionLoaded(j) == SessionOfJob(j) \in loaded
KeysOf(s) == {k \in Keys : SessionOf[k] = s}

\* Mutant: a running job is never a duplicate.
LiveIfQueued(k) == {j \in QueuedJobs : key[j] = k}

\* activeJob(): a running job that was asked to stop does not count
Live(k) == {j \in Active : key[j] = k /\ j \notin cancelRequested}

\* Mutant: last come, first served.
Newest(S) == CHOOSE j \in S : \A i \in S : j >= i

\* oldestQueued(), and the order in which a snapshot of jobs is walked
Oldest(S) == CHOOSE j \in S : \A i \in S : j <= i

\* the finished rows that have FinishedLimit newer finished rows
Trimmed == {j \in JobIds : /\ IsFinished(j)
                           /\ Cardinality({i \in JobIds : IsFinished(i) /\ i > j}) >= FinishedLimit}

RemoveRows(S) ==
  /\ state' = [j \in JobIds |-> IF j \in S THEN "Removed" ELSE state[j]]
  /\ key' = [j \in JobIds |-> IF j \in S THEN NoKey ELSE key[j]]
  /\ progressShown' = progressShown \ S

-------------------------------------------------------------------------------
(* The run and its ticket *)

NoRun == [job |-> NoJob, end |-> NoEnd, flag |-> FALSE, refused |-> FALSE, current |-> FALSE]

\* refused: the engine's mark on the ticket.  current (history): no declared
\* input has changed since prepare() captured them.
NewRun(j) == [job |-> j, end |-> NoEnd, flag |-> FALSE, refused |-> FALSE, current |-> TRUE]

Runs == [job : {NoJob} \union JobIds, end : EndStates \union {NoEnd},
         flag : BOOLEAN, refused : BOOLEAN, current : BOOLEAN]

HasRun == run.job # NoJob

\* Mutants: isIdle() looks at the run only, or at the queued jobs only.
IdleByRun == ~HasRun
IdleByQueue == QueuedJobs = {}

IsIdle == ~HasRun /\ Active = {}

\* the run after the engine invalidated the keys K
Marked(K) ==
  IF HasRun /\ key[run.job] \in K
  THEN [run EXCEPT !.refused = TRUE, !.current = FALSE]
  ELSE run

\* Mutant: the worker is not told.
StoppedQuietly(r, e) == [r EXCEPT !.end = IF @ = NoEnd THEN e ELSE @]

\* Mutant: the last writer of the pending end wins.
StoppedAgain(r, e) == [r EXCEPT !.end = e, !.flag = TRUE]

\* the run after it was asked to stop: the first writer of the pending end wins
Stopped(r, e) == [r EXCEPT !.end = IF @ = NoEnd THEN e ELSE @, !.flag = TRUE]

\* Mutant: shutdown() does not wait for the worker.
NotJoined == TRUE

\* wait() returns: the thread was never started, or compute() has returned
WorkerJoined == thread[run.job] # "computing"

\* what finishRun() makes of the run; publish() judges staleness first, then
\* what the worker returned, then whether a result is there already
Verdict ==
  CASE run.end # NoEnd -> run.end
    [] run.end = NoEnd /\ run.refused -> "Superseded"
    [] run.end = NoEnd /\ ~run.refused /\ thread[run.job] = "cancelled" -> "Cancelled"
    [] run.end = NoEnd /\ ~run.refused /\ thread[run.job] = "exhausted" -> "Failed"
    [] OTHER -> IF result[key[run.job]] = "none" THEN "Succeeded" ELSE "Superseded"

-------------------------------------------------------------------------------
(* The call stack *)

Loops == {"startNext", "cancelAll", "cancelUnwanted", "sessionRows", "shutdown", "shutdownWait"}
Emissions == {"rowsInserted", "jobQueued", "jobStarted", "jobFinished", "signal"}

Frames == [at : Loops \union Emissions, job : {NoJob} \union JobIds,
           session : Sessions \union {NoSession}, rest : SUBSET JobIds]

At(p, j) == [at |-> p, job |-> j, session |-> NoSession, rest |-> {}]
Over(p, S) == [at |-> p, job |-> NoJob, session |-> NoSession, rest |-> S]

\* Mutant: endJob() does not copy the session id before it emits.
FinishingRow(j, s) == At("jobFinished", j)

Finishing(j, s) == [at |-> "jobFinished", job |-> j, session |-> s, rest |-> {}]
Signal == At("signal", NoJob)       \* an emission after which nothing is left to do

Push(f, s) == <<f>> \o s
Top == Head(stack)
Below == Tail(stack)
TopIs(p) == stack # << >> /\ Top.at = p
InEventLoop == stack = << >>

\* Code outside the queue runs from the event loop and from slots.
InUserCode == InEventLoop \/ (stack # << >> /\ Top.at \in Emissions /\ Len(stack) < MaxDepth)

FramesOf(s) == {s[i] : i \in 1..Len(s)}

-------------------------------------------------------------------------------
(* The functions every end and every stop goes through *)

\* endJob() up to and including the emission of jobFinished.  markFinished()
\* ignores a row that is gone or finished; the signal is emitted regardless.
EndJob(j, e, below) ==
  /\ state' = [state EXCEPT ![j] = IF IsActive(j) THEN e ELSE @]
  /\ cancelRequested' = cancelRequested \ {j}
  /\ finishes' = [finishes EXCEPT ![j] = IF @ < 2 THEN @ + 1 ELSE @]
  /\ stack' = Push(Finishing(j, SessionOfJob(j)), below)
  /\ UNCHANGED <<key, progressShown>>

\* finishRun(): the worker was joined or never started.  The session is told of
\* the invalidated names before jobFinished; no run exists then to be stopped.
FinishRun(e, below) ==
  /\ run' = NoRun
  /\ thread' = [thread EXCEPT ![run.job] = IF @ = "computing" THEN @ ELSE "none"]
  /\ result' = IF e = "Succeeded"
               THEN [result EXCEPT ![key[run.job]] = IF run.current THEN "fresh" ELSE "stale"]
               ELSE result
  /\ EndJob(run.job, e, below)
  /\ UNCHANGED <<queueVars, progressPosts, alive, loaded, pins, ready>>

\* requestStop(): announced once per run
RequestStop(e, below) ==
  /\ HasRun
  /\ run' = Stopped(run, e)
  /\ cancelRequested' = cancelRequested \union {run.job}
  /\ stack' = IF run.job \in cancelRequested THEN below ELSE Push(Signal, below)
  /\ UNCHANGED <<state, key, progressShown, finishes, queueVars, workerVars>>

\* Mutant: a run whose ticket was marked computes to its end.
LetRunFinish(r) ==
  /\ run' = r
  /\ UNCHANGED <<modelVars, queueVars, stack, workerVars>>

\* stopRunIfRefused() for the run r, as the engine has just marked it
StopRunIfRefused(r) ==
  LET stops == r.job # NoJob /\ r.refused /\ r.end = NoEnd
  IN  /\ run' = IF stops THEN Stopped(r, "Superseded") ELSE r
      /\ cancelRequested' = IF stops THEN cancelRequested \union {r.job} ELSE cancelRequested
      /\ stack' = IF stops THEN Push(Signal, stack) ELSE stack
      /\ UNCHANGED <<state, key, progressShown, finishes, queueVars, workerVars>>

\* scheduleStart()
ScheduleStart == startQueued' = (startQueued \/ ~shutDown)

-------------------------------------------------------------------------------
(* Calls into the queue, from the event loop or from a slot *)

\* request(): an equal live job, an unloaded session and a calculation that is
\* not Ready are answered without a change of state
Request(k) ==
  /\ InUserCode
  /\ ~shutDown
  /\ Live(k) = {}
  /\ alive /\ SessionOf[k] \in loaded
  /\ k \in ready /\ result[k] = "none"
  /\ nextId <= MaxJobs
  /\ idleAnnounced' = FALSE
  /\ pins' = [pins EXCEPT ![SessionOf[k]] = @ + 1]
  /\ state' = [state EXCEPT ![nextId] = "Queued"]
  /\ key' = [key EXCEPT ![nextId] = k]
  /\ nextId' = nextId + 1
  /\ stack' = Push(At("rowsInserted", nextId), stack)
  /\ UNCHANGED <<cancelRequested, progressShown, finishes, shutDown, startQueued, run,
                 workerVars, alive, loaded, ready, result>>

\* the rest of request(): a job a rowsInserted slot has ended is not announced
AfterRowsInserted ==
  /\ TopIs("rowsInserted")
  /\ stack' = IF IsActive(Top.job) THEN Push(At("jobQueued", Top.job), Below) ELSE Below
  /\ UNCHANGED <<modelVars, queueVars, run, workerVars, sessionVars>>

AfterJobQueued ==
  /\ TopIs("jobQueued")
  /\ ScheduleStart
  /\ stack' = Below
  /\ UNCHANGED <<modelVars, nextId, shutDown, idleAnnounced, run, workerVars, sessionVars>>

\* cancel() on a record the caller looked up, with "below" to return to
CancelJob(j, below) ==
  \/ /\ Queued(j)
     /\ EndJob(j, "Cancelled", below)
     /\ UNCHANGED <<queueVars, run, workerVars, sessionVars>>
  \/ /\ state[j] = "Running" /\ run.job = j
     /\ RequestStop("Cancelled", below)
     /\ UNCHANGED sessionVars

Cancel(j) == InUserCode /\ CancelJob(j, stack)

\* cancelAll() and cancelSession(): a snapshot, then each job that was not
\* asked to stop before
CancelAll ==
  /\ InUserCode
  /\ \E S \in {Active} \union {{j \in Active : SessionOfJob(j) = s} : s \in Sessions} :
       /\ S \ cancelRequested # {}
       /\ stack' = Push(Over("cancelAll", S), stack)
  /\ UNCHANGED <<modelVars, queueVars, run, workerVars, sessionVars>>

CancelAllStep ==
  /\ TopIs("cancelAll")
  /\ IF Top.rest = {}
     THEN /\ stack' = Below
          /\ UNCHANGED <<modelVars, queueVars, run, workerVars, sessionVars>>
     ELSE LET j == Oldest(Top.rest)
              loop == Push([Top EXCEPT !.rest = @ \ {j}], Below)
          IN  IF IsActive(j) /\ j \notin cancelRequested
              THEN CancelJob(j, loop)
              ELSE /\ stack' = loop
                   /\ UNCHANGED <<modelVars, queueVars, run, workerVars, sessionVars>>

\* cancelUnwantedQueued(): the predicate picks any of the queued jobs
CancelUnwantedQueued ==
  /\ InUserCode
  /\ \E S \in SUBSET QueuedJobs :
       /\ S # {}
       /\ stack' = Push(Over("cancelUnwanted", S), stack)
  /\ UNCHANGED <<modelVars, queueVars, run, workerVars, sessionVars>>

\* One job of a snapshot of queued jobs ends as e, or is passed over.
EndQueuedOf(e) ==
  LET j == Oldest(Top.rest)
      loop == Push([Top EXCEPT !.rest = @ \ {j}], Below)
  IN  /\ Top.rest # {}
      /\ IF RecordReadsQueued(j)
         THEN EndJob(j, e, loop)
         ELSE stack' = loop /\ UNCHANGED modelVars
      /\ UNCHANGED <<queueVars, run, workerVars, sessionVars>>

CancelUnwantedStep ==
  /\ TopIs("cancelUnwanted")
  /\ \/ EndQueuedOf("Cancelled")
     \/ /\ Top.rest = {}
        /\ stack' = Below
        /\ UNCHANGED <<modelVars, queueVars, run, workerVars, sessionVars>>

Shutdown ==
  /\ InUserCode
  /\ ~shutDown
  /\ shutDown' = TRUE
  /\ stack' = Push(Over("shutdown", QueuedJobs), stack)
  /\ UNCHANGED <<modelVars, nextId, startQueued, idleAnnounced, run, workerVars, sessionVars>>

\* shutdown() ends the queued jobs, then stops the run
ShutdownStep ==
  /\ TopIs("shutdown")
  /\ \/ EndQueuedOf("Cancelled")
     \/ /\ Top.rest = {} /\ ~HasRun
        /\ stack' = Below
        /\ UNCHANGED <<modelVars, queueVars, run, workerVars, sessionVars>>
     \/ /\ Top.rest = {}
        /\ RequestStop("Cancelled", Push(At("shutdownWait", NoJob), Below))
        /\ UNCHANGED sessionVars

\* the slots of requestStop()'s signals cannot consume the run, so it is there
ShutdownWait ==
  /\ TopIs("shutdownWait")
  /\ HasRun
  /\ WorkerJoined
  /\ FinishRun(Verdict, Below)
  /\ UNCHANGED finishedPosts

\* removeFinished(), clearFinished(), removeRows(): finished rows only
RemoveFinished(S) ==
  /\ InEventLoop \/ (InUserCode /\ SlotsRemoveRows)
  /\ S # {} /\ \A j \in S : IsFinished(j)
  /\ RemoveRows(S)
  /\ UNCHANGED <<cancelRequested, finishes, queueVars, run, stack, workerVars, sessionVars>>

-------------------------------------------------------------------------------
(* What happens after an emission *)

\* the rest of endJob(): unpin, trim, then schedule the next start or go idle
AfterJobFinished ==
  /\ TopIs("jobFinished")
  /\ pins' = IF alive /\ Top.session # NoSession /\ pins[Top.session] > 0
             THEN [pins EXCEPT ![Top.session] = @ - 1]
             ELSE pins
  /\ RemoveRows(Trimmed)
  /\ \/ /\ ~IsIdle
        /\ ScheduleStart
        /\ stack' = Below
        /\ UNCHANGED idleAnnounced
     \/ /\ IsIdle
        /\ idleAnnounced' = TRUE
        /\ stack' = IF idleAnnounced THEN Below ELSE Push(Signal, Below)
        /\ UNCHANGED startQueued
  /\ UNCHANGED <<cancelRequested, finishes, nextId, shutDown, run, workerVars,
                 alive, loaded, ready, result>>

AfterSignal ==
  /\ TopIs("signal")
  /\ stack' = Below
  /\ UNCHANGED <<modelVars, queueVars, run, workerVars, sessionVars>>

-------------------------------------------------------------------------------
(* Starting: startNext() is only ever run from the event loop *)

\* Mutant: a start is run where it is scheduled instead of being posted.
StartNextNested ==
  /\ InUserCode
  /\ startQueued
  /\ startQueued' = FALSE
  /\ stack' = Push(At("startNext", NoJob), stack)
  /\ UNCHANGED <<modelVars, nextId, shutDown, idleAnnounced, run, workerVars, sessionVars>>

StartNext ==
  /\ InEventLoop
  /\ startQueued
  /\ startQueued' = FALSE
  /\ stack' = Push(At("startNext", NoJob), stack)
  /\ UNCHANGED <<modelVars, nextId, shutDown, idleAnnounced, run, workerVars, sessionVars>>

\* one iteration of its loop, up to the first emission
StartNextStep ==
  /\ TopIs("startNext")
  /\ IF shutDown \/ HasRun \/ QueuedJobs = {}
     THEN /\ stack' = Below
          /\ UNCHANGED <<modelVars, queueVars, run, workerVars, sessionVars>>
     ELSE LET j == Oldest(QueuedJobs)
              prepared == SessionLoaded(j) /\ key[j] \in ready /\ result[key[j]] = "none"
          IN  IF prepared
              THEN /\ run' = NewRun(j)
                   /\ state' = [state EXCEPT ![j] = "Running"]
                   /\ progressShown' = progressShown \ {j}
                   /\ stack' = Push(At("jobStarted", j), stack)
                   /\ UNCHANGED <<key, cancelRequested, finishes, queueVars, workerVars, sessionVars>>
              ELSE /\ EndJob(j, "Superseded", stack)
                   /\ UNCHANGED <<queueVars, run, workerVars, sessionVars>>

\* after jobStarted: the slots may have consumed the run or left a pending end
AfterJobStarted ==
  /\ TopIs("jobStarted")
  /\ \/ /\ ~HasRun \/ run.job # Top.job
        /\ stack' = Below
        /\ UNCHANGED <<modelVars, queueVars, run, workerVars, sessionVars>>
     \/ /\ HasRun /\ run.job = Top.job /\ run.end # NoEnd
        /\ FinishRun(Verdict, Below)
        /\ UNCHANGED finishedPosts
     \/ /\ HasRun /\ run.job = Top.job /\ run.end = NoEnd     \* the thread runs
        /\ thread' = [thread EXCEPT ![run.job] = "computing"]
        /\ stack' = Below
        /\ UNCHANGED <<modelVars, queueVars, run, finishedPosts, progressPosts, sessionVars>>
     \/ /\ HasRun /\ run.job = Top.job /\ run.end = NoEnd     \* it could not be created
        /\ FinishRun("Failed", Below)
        /\ UNCHANGED finishedPosts

-------------------------------------------------------------------------------
(* The worker thread, and the events it posts to the main thread *)

Outcomes == {"completed", "cancelled", "exhausted"}

\* report(): the text travels with the event
WorkerReport(j) ==
  /\ thread[j] = "computing"
  /\ progressPosts' = progressPosts \union {j}
  /\ UNCHANGED <<modelVars, queueVars, run, stack, thread, finishedPosts, sessionVars>>

\* compute() returns; it may have ignored the cancel flag, or thrown
\* CalculationCancelled although nobody asked
WorkerReturn(j) ==
  /\ thread[j] = "computing"
  /\ \E o \in Outcomes : thread' = [thread EXCEPT ![j] = o]
  /\ finishedPosts' = finishedPosts \union {j}
  /\ UNCHANGED <<modelVars, queueVars, run, stack, progressPosts, sessionVars>>

\* onProgress() and setProgress() both look whether the job still runs
ShowsProgress(j) == run.job = j /\ state[j] = "Running"

OnProgress(j) ==
  /\ InEventLoop
  /\ j \in progressPosts
  /\ progressPosts' = progressPosts \ {j}
  /\ progressShown' = IF ShowsProgress(j) THEN progressShown \union {j} ELSE progressShown
  /\ stack' = IF run.job = j THEN Push(Signal, stack) ELSE stack
  /\ UNCHANGED <<state, key, cancelRequested, finishes, queueVars, run, thread, finishedPosts, sessionVars>>

\* a post of a run that shutdown() has consumed is dropped
OnWorkerFinished(j) ==
  /\ InEventLoop
  /\ j \in finishedPosts
  /\ finishedPosts' = finishedPosts \ {j}
  /\ IF run.job = j
     THEN FinishRun(Verdict, stack)
     ELSE UNCHANGED <<modelVars, queueVars, run, stack, thread, progressPosts, sessionVars>>

-------------------------------------------------------------------------------
(* SessionModel and the engines, and how the queue reacts to their signals *)

\* onSessionRowsChanged(): worth a call when a queued job lost its session or
\* the run "r" is to be stopped
SessionRowsChanged(r, nowLoaded) ==
  LET orphans == {j \in QueuedJobs : SessionOfJob(j) \notin nowLoaded}
  IN  stack' = IF orphans # {} \/ (r.job # NoJob /\ r.refused /\ r.end = NoEnd)
               THEN Push(Over("sessionRows", orphans), stack)
               ELSE stack

\* the orphans end, then the run of a lost session or a refused ticket is stopped
SessionRowsStep ==
  /\ TopIs("sessionRows")
  /\ \/ EndQueuedOf("Superseded")
     \/ /\ Top.rest = {}
        /\ HasRun /\ (~SessionLoaded(run.job) \/ (run.refused /\ run.end = NoEnd))
        /\ RequestStop("Superseded", Below)
        /\ UNCHANGED sessionVars
     \/ /\ Top.rest = {}
        /\ ~(HasRun /\ (~SessionLoaded(run.job) \/ (run.refused /\ run.end = NoEnd)))
        /\ stack' = Below
        /\ UNCHANGED <<modelVars, queueVars, run, workerVars, sessionVars>>

\* the engines forget what they cached for K; R of them can be computed now
Invalidated(K, R) ==
  /\ result' = [k \in Keys |-> IF k \in K THEN "none" ELSE result[k]]
  /\ ready' = (ready \ K) \union R

\* An attribute edit, a bulk edit, a preference or a registry change: the
\* engines invalidate K and mark a ticket among it, and a signal follows.
EngineChange(K) ==
  /\ InEventLoop
  /\ K # {} /\ \A k \in K : SessionOf[k] \in loaded
  /\ \E R \in SUBSET K : Invalidated(K, R)
  /\ StopRunIfRefused(Marked(K))
  /\ UNCHANGED <<alive, loaded, pins>>

\* the same, announced by none of the signals the queue listens to
SilentChange(K) ==
  /\ SilentChanges
  /\ InEventLoop
  /\ K # {} /\ \A k \in K : SessionOf[k] \in loaded
  /\ \E R \in SUBSET K : Invalidated(K, R)
  /\ run' = Marked(K)
  /\ UNCHANGED <<modelVars, queueVars, stack, workerVars, alive, loaded, pins>>

\* CalculationEngine::request() on the main thread: nothing is announced
RequestSynchronously(k) ==
  /\ InEventLoop
  /\ SessionOf[k] \in loaded /\ k \in ready /\ result[k] = "none"
  /\ result' = [result EXCEPT ![k] = "fresh"]
  /\ UNCHANGED <<modelVars, queueVars, run, stack, workerVars, alive, loaded, pins, ready>>

\* removeSessions(), or a repopulation without the session
RemoveSession(s) ==
  /\ InEventLoop
  /\ s \in loaded
  /\ loaded' = loaded \ {s}
  /\ Invalidated(KeysOf(s), {})
  /\ run' = Marked(KeysOf(s))
  /\ SessionRowsChanged(Marked(KeysOf(s)), loaded \ {s})
  /\ UNCHANGED <<modelVars, queueVars, workerVars, alive, pins>>

\* a merge move-assigns the session's data: the row stays, its engine is new
ReplaceSession(s) ==
  /\ InEventLoop
  /\ s \in loaded
  /\ \E R \in SUBSET KeysOf(s) : Invalidated(KeysOf(s), R)
  /\ run' = Marked(KeysOf(s))
  /\ SessionRowsChanged(Marked(KeysOf(s)), loaded)
  /\ UNCHANGED <<modelVars, queueVars, workerVars, alive, loaded, pins>>

LoadSession(s) ==
  /\ InUserCode
  /\ alive
  /\ s \notin loaded
  /\ loaded' = loaded \union {s}
  /\ \E R \in SUBSET KeysOf(s) : Invalidated(KeysOf(s), R)
  /\ UNCHANGED <<modelVars, queueVars, run, stack, workerVars, alive, pins>>

\* Mutant: eviction ignores the pins.
PinIgnored(s) == FALSE

Pinned(s) == pins[s] > 0

\* evictSession(): a pinned session stays; the engine dies with its session
EvictSession(s) ==
  /\ InUserCode
  /\ s \in loaded
  /\ ~Pinned(s)
  /\ loaded' = loaded \ {s}
  /\ Invalidated(KeysOf(s), {})
  /\ run' = Marked(KeysOf(s))
  /\ UNCHANGED <<modelVars, queueVars, stack, workerVars, alive, pins>>

\* The session model may die before the queue, which holds it weakly.
DestroySessionModel ==
  /\ InEventLoop
  /\ alive
  /\ alive' = FALSE
  /\ loaded' = {}
  /\ Invalidated(Keys, {})
  /\ StopRunIfRefused(Marked(Keys))
  /\ UNCHANGED pins

-------------------------------------------------------------------------------
Init ==
  /\ state = [j \in JobIds |-> "None"]
  /\ key = [j \in JobIds |-> NoKey]
  /\ cancelRequested = {} /\ progressShown = {}
  /\ finishes = [j \in JobIds |-> 0]
  /\ nextId = 1 /\ shutDown = FALSE /\ startQueued = FALSE /\ idleAnnounced = TRUE
  /\ run = NoRun
  /\ stack = << >>
  /\ thread = [j \in JobIds |-> "none"]
  /\ finishedPosts = {} /\ progressPosts = {}
  /\ alive = TRUE
  /\ loaded \in SUBSET Sessions
  /\ pins = [s \in Sessions |-> 0]
  /\ ready \in SUBSET {k \in Keys : SessionOf[k] \in loaded}
  /\ result = [k \in Keys |-> "none"]

Calls ==
  \/ \E k \in Keys : Request(k)
  \/ \E j \in JobIds : Cancel(j)
  \/ CancelAll
  \/ CancelUnwantedQueued
  \/ Shutdown
  \/ \E S \in SUBSET JobIds : RemoveFinished(S)

\* the main thread goes on with what is on its stack
Resume ==
  \/ AfterRowsInserted \/ AfterJobQueued \/ AfterJobStarted \/ AfterJobFinished \/ AfterSignal
  \/ CancelAllStep \/ CancelUnwantedStep \/ SessionRowsStep
  \/ ShutdownStep \/ ShutdownWait \/ StartNextStep

Events ==
  \/ StartNext
  \/ \E j \in JobIds : OnProgress(j) \/ OnWorkerFinished(j)

Worker == \E j \in JobIds : WorkerReport(j) \/ WorkerReturn(j)

SessionSide ==
  \/ \E K \in SUBSET Keys : EngineChange(K) \/ SilentChange(K)
  \/ \E k \in Keys : RequestSynchronously(k)
  \/ \E s \in Sessions : RemoveSession(s) \/ ReplaceSession(s) \/ LoadSession(s) \/ EvictSession(s)
  \/ DestroySessionModel

Next == Calls \/ Resume \/ Events \/ Worker \/ SessionSide

Spec == Init /\ [][Next]_vars

\* The event loop delivers what was posted and functions return.
MainThreadFairness ==
  /\ WF_vars(Resume)
  /\ WF_vars(StartNext)
  /\ \A j \in JobIds : WF_vars(OnWorkerFinished(j))

\* A compute function is only known to return once it was asked to stop: that is
\* all a queue may rely on.
FairSpec ==
  Spec /\ MainThreadFairness /\ \A j \in JobIds : WF_vars(run.job = j /\ run.flag /\ WorkerReturn(j))

===============================================================================
