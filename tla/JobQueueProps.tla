---------------------------- MODULE JobQueueProps ----------------------------
(***************************************************************************)
(* What the job queue promises, stated about the states and steps of       *)
(* JobQueue.                                                               *)
(***************************************************************************)
EXTENDS JobQueue

\* The frames of the stack are of the kinds the queue's functions leave.
FramesOK == stack \in Seq(Frames)

RecordsOK ==
  /\ state \in [JobIds -> {"None", "Queued", "Running", "Removed"} \union EndStates]
  /\ key \in [JobIds -> Keys \union {NoKey}]
  /\ cancelRequested \in SUBSET JobIds
  /\ progressShown \in SUBSET JobIds
  /\ finishes \in [JobIds -> 0..2]

\* Every variable has the type its counterpart in the code has.
TypeOK ==
  /\ RecordsOK
  /\ nextId \in 1..(MaxJobs + 1)
  /\ shutDown \in BOOLEAN /\ startQueued \in BOOLEAN /\ idleAnnounced \in BOOLEAN
  /\ run \in Runs
  /\ FramesOK
  /\ thread \in [JobIds -> {"none", "computing"} \union Outcomes]
  /\ finishedPosts \in SUBSET JobIds /\ progressPosts \in SUBSET JobIds
  /\ alive \in BOOLEAN
  /\ loaded \in SUBSET Sessions
  /\ pins \in [Sessions -> Nat]
  /\ ready \in SUBSET Keys
  /\ result \in [Keys -> {"none", "fresh", "stale"}]

-------------------------------------------------------------------------------
(* The records and the run *)

\* The model shows a job as Running exactly while the queue holds a run for it,
\* and only that job may have a worker thread: one worker exists at a time, and
\* none outlives its run (the ticket it computes on is destroyed with the run).
OneWorker ==
  \A j \in JobIds : /\ state[j] = "Running" <=> run.job = j
                    /\ thread[j] # "none" => run.job = j

\* A record was asked to stop exactly if the run is its job, an end is pending
\* and the worker's cancel flag is raised: the three are written by one
\* function and never drift apart.
StopIsRecorded ==
  \A j \in JobIds : j \in cancelRequested <=> run.job = j /\ run.end # NoEnd /\ run.flag

\* Requests are deduplicated: no two jobs that still want the same result.
OneLiveJobPerKey ==
  \A i, j \in JobIds : IsActive(i) /\ IsActive(j) /\ i # j /\ key[i] = key[j]
                         => i \in cancelRequested \/ j \in cancelRequested

\* First come, first served: activeJobs() relies on the running job being older
\* than every queued one.
RunningIsOldest ==
  \A j \in JobIds : Queued(j) /\ HasRun => run.job < j

-------------------------------------------------------------------------------
(* Nothing is forgotten, whatever the slots do *)

\* some function on the stack is still going to call scheduleStart() or to look
\* for the oldest queued job itself
WillSchedule ==
  \E f \in FramesOf(stack) :
    \/ f.at \in {"jobQueued", "jobFinished", "startNext"}
    \/ f.at = "rowsInserted" /\ f.job \in Active

\* A queued job is never stranded: while nothing runs, a start is posted or is
\* going to be.
NoLostStart ==
  QueuedJobs # {} /\ ~HasRun /\ ~shutDown => startQueued \/ WillSchedule

NothingActive == ~HasRun /\ Active = {}

\* idle() is announced once per busy period: it has been announced only if
\* nothing is active, and if nothing is active it has been, or endJob() is
\* still about to.
IdleAnnouncedOnce ==
  /\ idleAnnounced => NothingActive
  /\ NothingActive /\ ~idleAnnounced => \E f \in FramesOf(stack) : f.at = "jobFinished"

\* After shutdown() has returned no job is active and no worker exists.
ShutdownLeavesNothing ==
  shutDown /\ (\A f \in FramesOf(stack) : f.at \notin {"shutdown", "shutdownWait"})
    => NothingActive /\ \A j \in JobIds : thread[j] = "none"

\* Why: shutdown() has the queued jobs left in its snapshot, or waits for the
\* run when none is.
ShutdownGoesOn ==
  shutDown => \/ NothingActive
              \/ \E f \in FramesOf(stack) :
                   \/ f.at = "shutdown" /\ QueuedJobs \subseteq f.rest
                   \/ f.at = "shutdownWait" /\ QueuedJobs = {}

\* Whatever its slots do, the queue goes on until it has nothing to do, and then
\* says so; and when it was shut down it has nothing to do.
QueueMoves == NoLostStart /\ IdleAnnouncedOnce /\ ShutdownLeavesNothing

\* sessions still pinned for a job that ended: jobFinished is being emitted
Unpinning(s) == {i \in 1..Len(stack) : stack[i].at = "jobFinished" /\ stack[i].session = s}

\* A session is pinned once per active job, until its end has been signalled.
PinsBalanced ==
  alive => \A s \in Sessions :
    pins[s] = Cardinality({j \in Active : SessionOfJob(j) = s}) + Cardinality(Unpinning(s))

\* The cache never takes a session from under a job, and a job whose session
\* was removed has been ended or asked to stop once control is back in the
\* event loop.
JobsHaveSessions ==
  alive /\ InEventLoop =>
    \A j \in Active : SessionLoaded(j) \/ j \in cancelRequested

\* jobFinished is emitted once per job ("a job ends exactly once").
EndsOnce == \A j \in JobIds : finishes[j] <= 1

\* A session stays in memory for as long as a job needs it, and no longer.
SessionsAreHeld == PinsBalanced /\ JobsHaveSessions /\ EndsOnce

-------------------------------------------------------------------------------
(* Stale results *)

\* No result computed from inputs that have changed since is ever installed.
NeverStale == \A k \in Keys : result[k] # "stale"

\* A run whose ticket is refused has been asked to stop, or is about to be,
\* when every engine change is signalled.
StaleRunIsStopped ==
  ~SilentChanges /\ HasRun /\ run.refused
    => run.end # NoEnd \/ \E f \in FramesOf(stack) : f.at = "sessionRows"

-------------------------------------------------------------------------------
(* What the records, the run, the worker and the suspended functions know of *)
(* each other: an inductive invariant                                        *)

\* A new job has a new id, and nothing was posted for a job before its thread
\* was started; a thread that computes has not posted its return.
IdsInOrder ==
  /\ \A j \in JobIds : state[j] = "None" <=> j >= nextId
  /\ \A j \in finishedPosts : state[j] \notin {"None", "Queued"} /\ thread[j] # "computing"

\* Nobody asks a run to stop as succeeded, and a run whose inputs changed was marked.
RunIsHonest ==
  /\ run.end # "Succeeded"
  /\ HasRun => run.refused \/ run.current

\* startNext() is at the bottom of the stack, so that it emits jobStarted once
\* at a time.
StackShape(s) ==
  /\ \A i \in 1..Len(s) : s[i].at = "startNext" => i = Len(s)
  /\ \A i, k \in 1..Len(s) : s[i].at = "jobStarted" /\ s[k].at = "jobStarted" => i = k

\* the jobs whose start is being signalled
Starting(s) == {f.job : f \in {g \in FramesOf(s) : g.at = "jobStarted"}}

\* The thread of such a job is yet to be started.
StartingIdle ==
  \A j \in Starting(stack) : j \in JobIds /\ thread[j] = "none" /\ j \notin finishedPosts

\* Between any two steps of the main thread, whatever the slots do.
Safe ==
  /\ OneWorker
  /\ StopIsRecorded
  /\ RunIsHonest
  /\ NeverStale
  /\ IdsInOrder
  /\ RunningIsOldest
  /\ OneLiveJobPerKey
  /\ StackShape(stack)
  /\ StartingIdle

Inv == TypeOK /\ Safe

-------------------------------------------------------------------------------
(* Steps *)

\* Cancel wins over a completed compute: a job that was asked to stop never
\* succeeds.
CancelWins == [][\A j \in cancelRequested : state'[j] # "Succeeded"]_vars

\* The first writer of a pending end decides how the job ends.
FirstStopDecides ==
  [][HasRun /\ run.end # NoEnd =>
       IF run'.job = run.job THEN run'.end = run.end ELSE state'[run.job] = run.end]_vars

\* A request to stop stands: no later one and no result that arrives after it
\* changes how the job ends.
StopsStand == CancelWins /\ FirstStopDecides

\* What a user of the queue sees of it.
Lifecycle == INSTANCE JobLifecycle WITH phase <- state, stopping <- cancelRequested, closed <- shutDown

\* The queue implements the lifecycle its header documents, for every call its
\* slots may make.
ImplementsLifecycle == Lifecycle!Spec

-------------------------------------------------------------------------------
(* Progress *)

ComputesReturn == []<>(\A j \in JobIds : thread[j] # "computing")

\* Every job that was asked for gets an answer, if compute functions return.
EveryJobIsAnswered == ComputesReturn => Lifecycle!Answered

\* A job that was asked to stop ends, if compute functions honour the request.
StoppedJobsEnd == \A j \in JobIds : j \in cancelRequested ~> ~IsActive(j)

\* shutdown() returns although compute functions return only when asked to.
ShutdownCompletes == shutDown ~> NothingActive

StopsEnd == StoppedJobsEnd /\ ShutdownCompletes

===============================================================================
