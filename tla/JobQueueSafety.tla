---------------------------- MODULE JobQueueSafety ----------------------------
(***************************************************************************)
(* The types, the safety properties and the moves of JobQueue for every    *)
(* number of sessions, keys and jobs, every depth of the call stack and    *)
(* whatever the slots call.  They rest on the inductive invariant Inv of   *)
(* JobQueueProps.  The last part is about the sessions: one stays in       *)
(* memory for as long as a job needs it and no longer, and a run whose     *)
(* inputs changed is stopped.                                              *)
(***************************************************************************)
EXTENDS JobQueueProps, TLAPS, SequenceTheorems, WellFoundedInduction, FiniteSetTheorems

USE ConstantsAssumption

-------------------------------------------------------------------------------
(* Lemmas about the operators of the model *)

Less == {p \in Nat \X Nat : p[1] < p[2]}

\* The order in which jobs were asked for is well founded.
LEMMA RequestOrder == IsWellFoundedOn(Less, Nat)
<1>1. Less = OpToRel(<, Nat)
  BY DEF Less, OpToRel
<1> QED
  BY <1>1, NatLessThanWellFounded, Zenon

\* A set of jobs that is not empty has an oldest job.
LEMMA OldestIsLeast ==
  ASSUME NEW S \in SUBSET JobIds, S # {}
  PROVE  Oldest(S) \in S /\ \A i \in S : Oldest(S) <= i
<1>1. S \subseteq Nat
  BY DEF JobIds
<1>2. PICK m \in S : \A i \in S : <<i, m>> \notin Less
  BY <1>1, RequestOrder, WFMin
<1>3. \A i \in S : m <= i
  <2>1. SUFFICES ASSUME NEW i \in S, i < m
                 PROVE  FALSE
    BY <1>1
  <2>2. <<i, m>> \in Nat \X Nat /\ <<i, m>>[1] < <<i, m>>[2]
    BY <1>1, <2>1
  <2> QED
    BY <1>2, <2>2 DEF Less
<1> QED
  BY <1>3 DEF Oldest

\* Suspending a function on top of a stack of frames.
LEMMA PushFrames ==
  ASSUME NEW s \in Seq(Frames), NEW f \in Frames
  PROVE  /\ Push(f, s) \in Seq(Frames)
         /\ Push(f, s) # << >>
         /\ Len(Push(f, s)) = Len(s) + 1
         /\ Head(Push(f, s)) = f
         /\ \A i \in 1..(Len(s) + 1) : Push(f, s)[i] = IF i = 1 THEN f ELSE s[i - 1]
         /\ FramesOf(Push(f, s)) = {f} \union FramesOf(s)
<1>1. <<f>> \in Seq(Frames) /\ Len(<<f>>) = 1 /\ <<f>>[1] = f
  OBVIOUS
<1>2. /\ Push(f, s) \in Seq(Frames)
      /\ Len(Push(f, s)) = Len(s) + 1
      /\ \A i \in 1..(Len(s) + 1) : Push(f, s)[i] = IF i <= 1 THEN <<f>>[i] ELSE s[i - 1]
  BY <1>1, ConcatProperties, LenProperties DEF Push
<1>3. \A i \in 1..(Len(s) + 1) : Push(f, s)[i] = IF i = 1 THEN f ELSE s[i - 1]
  BY <1>1, <1>2
<1>4. Len(s) \in Nat
  BY LenProperties
<1>5. Push(f, s) # << >> /\ Head(Push(f, s)) = f
  BY <1>2, <1>3, <1>4, EmptySeq
<1>6. FramesOf(Push(f, s)) = {f} \union FramesOf(s)
  <2>1. FramesOf(Push(f, s)) \subseteq {f} \union FramesOf(s)
    BY <1>2, <1>3, <1>4 DEF FramesOf
  <2>2. f \in FramesOf(Push(f, s))
    BY <1>2, <1>3, <1>4 DEF FramesOf
  <2>3. FramesOf(s) \subseteq FramesOf(Push(f, s))
    <3>1. SUFFICES ASSUME NEW i \in 1..Len(s)
                   PROVE  s[i] \in FramesOf(Push(f, s))
      BY DEF FramesOf
    <3>2. i + 1 \in 1..(Len(s) + 1) /\ Push(f, s)[i + 1] = s[i]
      BY <1>3, <1>4
    <3> QED
      BY <1>2, <3>2 DEF FramesOf
  <2> QED
    BY <2>1, <2>2, <2>3
<1> QED
  BY <1>2, <1>3, <1>5, <1>6

\* Returning to the function below the top of a stack of frames.
LEMMA PopFrames ==
  ASSUME NEW s \in Seq(Frames), s # << >>
  PROVE  /\ Head(s) \in Frames
         /\ Tail(s) \in Seq(Frames)
         /\ Len(Tail(s)) = Len(s) - 1
         /\ Len(s) \in Nat \ {0}
         /\ Head(s) = s[1]
         /\ \A i \in 1..Len(Tail(s)) : Tail(s)[i] = s[i + 1]
         /\ FramesOf(s) = {Head(s)} \union FramesOf(Tail(s))
<1>1. /\ Head(s) \in Frames
      /\ Tail(s) \in Seq(Frames)
      /\ Len(Tail(s)) = Len(s) - 1
      /\ \A i \in 1..Len(Tail(s)) : Tail(s)[i] = s[i + 1]
  BY HeadTailProperties
<1>2. Len(s) \in Nat \ {0} /\ Head(s) = s[1]
  BY EmptySeq
<1>3. FramesOf(s) \subseteq {Head(s)} \union FramesOf(Tail(s))
  <2>1. SUFFICES ASSUME NEW i \in 1..Len(s), i # 1
                 PROVE  s[i] \in FramesOf(Tail(s))
    BY <1>2 DEF FramesOf
  <2>2. i - 1 \in 1..Len(Tail(s)) /\ Tail(s)[i - 1] = s[i]
    BY <1>1, <1>2, <2>1
  <2> QED
    BY <2>2 DEF FramesOf
<1>4. {Head(s)} \union FramesOf(Tail(s)) \subseteq FramesOf(s)
  <2>1. \A i \in 1..Len(Tail(s)) : i + 1 \in 1..Len(s) /\ Tail(s)[i] = s[i + 1]
    BY <1>1, <1>2
  <2> QED
    BY <1>2, <2>1 DEF FramesOf
<1> QED
  BY <1>1, <1>2, <1>3, <1>4

-------------------------------------------------------------------------------
(* Types of the functions every end and every stop goes through *)

\* A frame for a job, or for a job and its session.
LEMMA FrameTypes ==
  /\ \A p \in Loops \union Emissions, j \in {NoJob} \union JobIds : At(p, j) \in Frames
  /\ \A p \in Loops \union Emissions, S \in SUBSET JobIds : Over(p, S) \in Frames
  /\ Signal \in Frames
  /\ RecordsOK => \A j \in JobIds : Finishing(j, SessionOfJob(j)) \in Frames
BY DEF At, Over, Signal, Finishing, Frames, Loops, Emissions, NoJob, RecordsOK, SessionOfJob

LEMMA EndJobType ==
  ASSUME RecordsOK, NEW j \in JobIds, NEW e \in EndStates, NEW below \in Seq(Frames),
         EndJob(j, e, below)
  PROVE  RecordsOK' /\ FramesOK'
<1>1. FramesOK'
  BY FrameTypes, PushFrames DEF EndJob, FramesOK
<1>2. RecordsOK'
  BY DEF EndJob, RecordsOK
<1> QED
  BY <1>1, <1>2

LEMMA VerdictType ==
  ASSUME TypeOK
  PROVE  Verdict \in EndStates
BY DEF TypeOK, Runs, Verdict, EndStates, NoEnd

LEMMA FinishRunType ==
  ASSUME TypeOK, HasRun, NEW e \in EndStates, NEW below \in Seq(Frames),
         FinishRun(e, below), finishedPosts' \in SUBSET JobIds
  PROVE  TypeOK'
<1>1. run.job \in JobIds
  BY DEF TypeOK, Runs, HasRun
<1>2. RecordsOK' /\ FramesOK'
  BY <1>1, EndJobType DEF TypeOK, FinishRun
<1>3. run' \in Runs
  BY DEF FinishRun, NoRun, Runs, NoJob
<1>4. thread' \in [JobIds -> {"none", "computing"} \union Outcomes]
  BY <1>1 DEF TypeOK, FinishRun
<1>5. result' \in [Keys -> {"none", "fresh", "stale"}]
  BY DEF TypeOK, FinishRun
<1> QED
  BY <1>2, <1>3, <1>4, <1>5 DEF TypeOK, FinishRun, queueVars

LEMMA StoppedType ==
  ASSUME NEW r \in Runs, NEW e \in EndStates
  PROVE  Stopped(r, e) \in Runs
BY DEF Stopped, Runs

LEMMA RequestStopType ==
  ASSUME TypeOK, NEW e \in EndStates, NEW below \in Seq(Frames), RequestStop(e, below)
  PROVE  RecordsOK' /\ FramesOK' /\ run' \in Runs
<1>1. FramesOK'
  BY FrameTypes, PushFrames DEF RequestStop, FramesOK
<1>2. run' \in Runs
  BY StoppedType DEF TypeOK, RequestStop
<1>3. RecordsOK'
  BY DEF TypeOK, Runs, HasRun, RequestStop, RecordsOK
<1> QED
  BY <1>1, <1>2, <1>3

-------------------------------------------------------------------------------
(* Type correctness *)

\* What a handler that was suspended finds on the stack.
LEMMA TopType ==
  ASSUME FramesOK, NEW p, TopIs(p)
  PROVE  Top \in Frames /\ Below \in Seq(Frames)
BY PopFrames DEF FramesOK, TopIs, Top, Below

\* A loop remembers the jobs of its snapshot that it has not looked at yet.
LEMMA LoopType ==
  ASSUME FramesOK, NEW p, TopIs(p), Top.rest # {}
  PROVE  LET j == Oldest(Top.rest)
             loop == Push([Top EXCEPT !.rest = @ \ {j}], Below)
         IN  j \in JobIds /\ loop \in Seq(Frames)
<1>1. Top \in Frames /\ Below \in Seq(Frames)
  BY TopType
<1>2. Top.rest \in SUBSET JobIds
  BY <1>1 DEF Frames
<1>3. Oldest(Top.rest) \in JobIds
  BY <1>2, OldestIsLeast
<1>4. [Top EXCEPT !.rest = @ \ {Oldest(Top.rest)}] \in Frames
  BY <1>1 DEF Frames
<1> QED
  BY <1>1, <1>3, <1>4, PushFrames

LEMMA EndQueuedOfType ==
  ASSUME TypeOK, NEW p, TopIs(p), NEW e \in EndStates, EndQueuedOf(e)
  PROVE  TypeOK'
<1> DEFINE j == Oldest(Top.rest)
           loop == Push([Top EXCEPT !.rest = @ \ {j}], Below)
<1>1. j \in JobIds /\ loop \in Seq(Frames)
  BY LoopType DEF EndQueuedOf, TypeOK
<1>2. RecordsOK' /\ FramesOK'
  <2>1. CASE RecordReadsQueued(j)
    <3>1. EndJob(j, e, loop)
      BY <2>1 DEF EndQueuedOf
    <3> QED
      BY <1>1, <3>1, EndJobType DEF TypeOK
  <2>2. CASE ~RecordReadsQueued(j)
    BY <1>1, <2>2 DEF EndQueuedOf, TypeOK, RecordsOK, FramesOK, modelVars
  <2> QED
    BY <2>1, <2>2
<1> QED
  BY <1>2 DEF EndQueuedOf, TypeOK, queueVars, workerVars, sessionVars

LEMMA CancelJobType ==
  ASSUME TypeOK, NEW j \in JobIds, NEW below \in Seq(Frames), CancelJob(j, below)
  PROVE  TypeOK'
<1>1. CASE Queued(j) /\ EndJob(j, "Cancelled", below) /\ UNCHANGED <<queueVars, run, workerVars, sessionVars>>
  <2>1. RecordsOK' /\ FramesOK'
    BY <1>1, EndJobType DEF TypeOK, EndStates
  <2> QED
    BY <1>1, <2>1 DEF TypeOK, queueVars, workerVars, sessionVars
<1>2. CASE RequestStop("Cancelled", below) /\ UNCHANGED sessionVars
  <2>1. RecordsOK' /\ FramesOK' /\ run' \in Runs
    BY <1>2, RequestStopType DEF EndStates
  <2> QED
    BY <1>2, <2>1 DEF TypeOK, RequestStop, queueVars, workerVars, sessionVars
<1> QED
  BY <1>1, <1>2 DEF CancelJob

\* A step that only suspends, or only returns.
LEMMA StackOnlyType ==
  ASSUME TypeOK, stack' \in Seq(Frames),
         UNCHANGED <<modelVars, queueVars, run, workerVars, sessionVars>>
  PROVE  TypeOK'
BY DEF TypeOK, RecordsOK, FramesOK, modelVars, queueVars, workerVars, sessionVars

LEMMA CallsType ==
  ASSUME TypeOK, Calls
  PROVE  TypeOK'
<1>1. ASSUME NEW k \in Keys, Request(k)
      PROVE  TypeOK'
  <2>1. nextId \in JobIds /\ nextId' \in 1..(MaxJobs + 1)
    BY <1>1 DEF Request, TypeOK, JobIds
  <2>2. At("rowsInserted", nextId) \in Frames
    BY <2>1, FrameTypes DEF Loops, Emissions
  <2>3. FramesOK'
    BY <1>1, <2>2, PushFrames DEF Request, TypeOK, FramesOK
  <2>4. RecordsOK'
    BY <1>1, <2>1 DEF Request, TypeOK, RecordsOK
  <2>5. pins' \in [Sessions -> Nat]
    BY <1>1 DEF Request, TypeOK
  <2> QED
    BY <1>1, <2>1, <2>3, <2>4, <2>5 DEF Request, TypeOK, workerVars
<1>2. ASSUME NEW j \in JobIds, Cancel(j)
      PROVE  TypeOK'
  BY <1>2, CancelJobType DEF Cancel, TypeOK, FramesOK
<1>3. CASE CancelAll
  <2>1. PICK S \in SUBSET JobIds : stack' = Push(Over("cancelAll", S), stack)
    BY <1>3 DEF CancelAll, Active
  <2>2. Over("cancelAll", S) \in Frames
    BY FrameTypes DEF Loops
  <2> QED
    BY <1>3, <2>1, <2>2, PushFrames, StackOnlyType DEF CancelAll, TypeOK, FramesOK
<1>4. CASE CancelUnwantedQueued
  <2>1. PICK S \in SUBSET JobIds : stack' = Push(Over("cancelUnwanted", S), stack)
    BY <1>4 DEF CancelUnwantedQueued, QueuedJobs
  <2>2. Over("cancelUnwanted", S) \in Frames
    BY FrameTypes DEF Loops
  <2> QED
    BY <1>4, <2>1, <2>2, PushFrames, StackOnlyType DEF CancelUnwantedQueued, TypeOK, FramesOK
<1>5. CASE Shutdown
  <2>1. Over("shutdown", QueuedJobs) \in Frames
    BY FrameTypes DEF Loops, QueuedJobs
  <2>2. FramesOK'
    BY <1>5, <2>1, PushFrames DEF Shutdown, TypeOK, FramesOK
  <2>3. RecordsOK'
    BY <1>5 DEF Shutdown, TypeOK, RecordsOK, modelVars
  <2> QED
    BY <1>5, <2>2, <2>3 DEF Shutdown, TypeOK, workerVars, sessionVars
<1>6. ASSUME NEW S \in SUBSET JobIds, RemoveFinished(S)
      PROVE  TypeOK'
  <2>1. RecordsOK'
    BY <1>6 DEF RemoveFinished, RemoveRows, TypeOK, RecordsOK
  <2> QED
    BY <1>6, <2>1 DEF RemoveFinished, TypeOK, FramesOK, queueVars, workerVars, sessionVars
<1> QED
  BY <1>1, <1>2, <1>3, <1>4, <1>5, <1>6 DEF Calls

LEMMA ResumeType ==
  ASSUME TypeOK, Resume
  PROVE  TypeOK'
<1> USE DEF Loops, Emissions
<1>1. CASE AfterRowsInserted
  <2>1. Top \in Frames /\ Below \in Seq(Frames)
    BY <1>1, TopType DEF AfterRowsInserted, TypeOK
  <2>2. stack' \in Seq(Frames)
    BY <1>1, <2>1, FrameTypes, PushFrames DEF AfterRowsInserted, Frames
  <2> QED
    BY <1>1, <2>2, StackOnlyType DEF AfterRowsInserted
<1>2. CASE AfterJobQueued
  <2>1. FramesOK'
    BY <1>2, TopType DEF AfterJobQueued, TypeOK, FramesOK
  <2>2. RecordsOK'
    BY <1>2 DEF AfterJobQueued, TypeOK, RecordsOK, modelVars
  <2> QED
    BY <1>2, <2>1, <2>2 DEF AfterJobQueued, ScheduleStart, TypeOK, workerVars, sessionVars
<1>3. CASE AfterJobStarted
  <2>1. Top \in Frames /\ Below \in Seq(Frames)
    BY <1>3, TopType DEF AfterJobStarted, TypeOK
  <2>2. CASE stack' = Below /\ UNCHANGED <<modelVars, queueVars, run, workerVars, sessionVars>>
    BY <2>1, <2>2, StackOnlyType
  <2>3. ASSUME NEW e \in EndStates, HasRun, FinishRun(e, Below), UNCHANGED finishedPosts
        PROVE  TypeOK'
    BY <2>1, <2>3, FinishRunType DEF TypeOK
  <2>4. CASE /\ thread' = [thread EXCEPT ![run.job] = "computing"]
             /\ stack' = Below
             /\ UNCHANGED <<modelVars, queueVars, run, finishedPosts, progressPosts, sessionVars>>
    BY <2>1, <2>4 DEF TypeOK, RecordsOK, FramesOK, modelVars, queueVars, sessionVars
  <2>5. "Failed" \in EndStates
    BY DEF EndStates
  <2> QED
    BY <1>3, <2>2, <2>3, <2>4, <2>5, VerdictType DEF AfterJobStarted
<1>4. CASE AfterJobFinished
  <2>1. Top \in Frames /\ Below \in Seq(Frames)
    BY <1>4, TopType DEF AfterJobFinished, TypeOK
  <2>2. FramesOK'
    BY <1>4, <2>1, FrameTypes, PushFrames DEF AfterJobFinished, FramesOK
  <2>3. RecordsOK'
    BY <1>4 DEF AfterJobFinished, RemoveRows, TypeOK, RecordsOK
  <2>4. pins' \in [Sessions -> Nat]
    BY <1>4, <2>1 DEF AfterJobFinished, TypeOK, Frames
  <2> QED
    BY <1>4, <2>2, <2>3, <2>4 DEF AfterJobFinished, ScheduleStart, TypeOK, workerVars
<1>5. CASE AfterSignal
  BY <1>5, TopType, StackOnlyType DEF AfterSignal, TypeOK
<1>6. CASE CancelAllStep
  <2>1. CASE Top.rest = {}
    BY <1>6, <2>1, TopType, StackOnlyType DEF CancelAllStep, TypeOK
  <2>2. CASE Top.rest # {}
    <3> DEFINE j == Oldest(Top.rest)
               loop == Push([Top EXCEPT !.rest = @ \ {j}], Below)
    <3>1. j \in JobIds /\ loop \in Seq(Frames)
      BY <1>6, <2>2, LoopType DEF CancelAllStep, TypeOK
    <3>2. CASE CancelJob(j, loop)
      BY <3>1, <3>2, CancelJobType
    <3>3. CASE stack' = loop /\ UNCHANGED <<modelVars, queueVars, run, workerVars, sessionVars>>
      BY <3>1, <3>3, StackOnlyType
    <3> QED
      BY <1>6, <2>2, <3>2, <3>3 DEF CancelAllStep
  <2> QED
    BY <2>1, <2>2
<1>7. CASE CancelUnwantedStep
  <2>1. CASE EndQueuedOf("Cancelled")
    BY <1>7, <2>1, EndQueuedOfType DEF CancelUnwantedStep, EndStates
  <2> QED
    BY <1>7, <2>1, TopType, StackOnlyType DEF CancelUnwantedStep, TypeOK
<1>8. CASE SessionRowsStep
  <2>1. CASE EndQueuedOf("Superseded")
    BY <1>8, <2>1, EndQueuedOfType DEF SessionRowsStep, EndStates
  <2>2. CASE RequestStop("Superseded", Below) /\ UNCHANGED sessionVars
    <3>1. RecordsOK' /\ FramesOK' /\ run' \in Runs
      BY <1>8, <2>2, TopType, RequestStopType DEF SessionRowsStep, TypeOK, EndStates
    <3> QED
      BY <2>2, <3>1 DEF TypeOK, RequestStop, queueVars, workerVars, sessionVars
  <2> QED
    BY <1>8, <2>1, <2>2, TopType, StackOnlyType DEF SessionRowsStep, TypeOK
<1>9. CASE ShutdownStep
  <2>1. CASE EndQueuedOf("Cancelled")
    BY <1>9, <2>1, EndQueuedOfType DEF ShutdownStep, EndStates
  <2>2. CASE RequestStop("Cancelled", Push(At("shutdownWait", NoJob), Below)) /\ UNCHANGED sessionVars
    <3>1. Push(At("shutdownWait", NoJob), Below) \in Seq(Frames)
      BY <1>9, TopType, FrameTypes, PushFrames DEF ShutdownStep, TypeOK
    <3>2. RecordsOK' /\ FramesOK' /\ run' \in Runs
      BY <2>2, <3>1, RequestStopType DEF EndStates
    <3> QED
      BY <2>2, <3>2 DEF TypeOK, RequestStop, queueVars, workerVars, sessionVars
  <2> QED
    BY <1>9, <2>1, <2>2, TopType, StackOnlyType DEF ShutdownStep, TypeOK
<1>10. CASE ShutdownWait
  BY <1>10, TopType, VerdictType, FinishRunType DEF ShutdownWait, TypeOK
<1>11. CASE StartNextStep
  <2>1. Top \in Frames /\ Below \in Seq(Frames)
    BY <1>11, TopType DEF StartNextStep, TypeOK
  <2>2. CASE shutDown \/ HasRun \/ QueuedJobs = {}
    BY <1>11, <2>1, <2>2, StackOnlyType DEF StartNextStep
  <2>3. CASE ~(shutDown \/ HasRun \/ QueuedJobs = {})
    <3> DEFINE j == Oldest(QueuedJobs)
    <3>1. j \in JobIds
      BY <2>3, OldestIsLeast DEF QueuedJobs
    <3>2. CASE EndJob(j, "Superseded", stack) /\ UNCHANGED <<queueVars, run, workerVars, sessionVars>>
      <4>1. RecordsOK' /\ FramesOK'
        BY <3>1, <3>2, EndJobType DEF TypeOK, FramesOK, EndStates
      <4> QED
        BY <3>2, <4>1 DEF TypeOK, queueVars, workerVars, sessionVars
    <3>3. CASE /\ run' = NewRun(j)
               /\ state' = [state EXCEPT ![j] = "Running"]
               /\ progressShown' = progressShown \ {j}
               /\ stack' = Push(At("jobStarted", j), stack)
               /\ UNCHANGED <<key, cancelRequested, finishes, queueVars, workerVars, sessionVars>>
      <4>1. FramesOK'
        BY <3>1, <3>3, FrameTypes, PushFrames DEF TypeOK, FramesOK
      <4>2. RecordsOK'
        BY <3>1, <3>3 DEF TypeOK, RecordsOK
      <4>3. run' \in Runs
        BY <3>1, <3>3 DEF NewRun, Runs
      <4> QED
        BY <3>3, <4>1, <4>2, <4>3 DEF TypeOK, queueVars, workerVars, sessionVars
    <3> QED
      BY <1>11, <2>3, <3>2, <3>3 DEF StartNextStep
  <2> QED
    BY <2>2, <2>3
<1> QED
  BY <1>1, <1>2, <1>3, <1>4, <1>5, <1>6, <1>7, <1>8, <1>9, <1>10, <1>11 DEF Resume

LEMMA EventsType ==
  ASSUME TypeOK, Events
  PROVE  TypeOK'
<1>1. CASE StartNext
  <2>1. At("startNext", NoJob) \in Frames
    BY FrameTypes DEF Loops
  <2>2. FramesOK'
    BY <1>1, <2>1, PushFrames DEF StartNext, TypeOK, FramesOK
  <2>3. RecordsOK'
    BY <1>1 DEF StartNext, TypeOK, RecordsOK, modelVars
  <2> QED
    BY <1>1, <2>2, <2>3 DEF StartNext, TypeOK, workerVars, sessionVars
<1>2. ASSUME NEW j \in JobIds, OnProgress(j)
      PROVE  TypeOK'
  <2>1. FramesOK'
    BY <1>2, FrameTypes, PushFrames DEF OnProgress, TypeOK, FramesOK
  <2>2. RecordsOK'
    BY <1>2 DEF OnProgress, TypeOK, RecordsOK
  <2> QED
    BY <1>2, <2>1, <2>2 DEF OnProgress, TypeOK, queueVars, sessionVars
<1>3. ASSUME NEW j \in JobIds, OnWorkerFinished(j)
      PROVE  TypeOK'
  <2>1. finishedPosts' \in SUBSET JobIds
    BY <1>3 DEF OnWorkerFinished, TypeOK
  <2>2. CASE run.job = j
    <3>1. HasRun
      BY <2>2 DEF HasRun, NoJob, JobIds
    <3> QED
      BY <1>3, <2>1, <2>2, <3>1, VerdictType, FinishRunType DEF OnWorkerFinished, TypeOK, FramesOK
  <2>3. CASE run.job # j
    BY <1>3, <2>1, <2>3 DEF OnWorkerFinished, TypeOK, RecordsOK, FramesOK, modelVars, queueVars, sessionVars
  <2> QED
    BY <2>2, <2>3
<1> QED
  BY <1>1, <1>2, <1>3 DEF Events

LEMMA WorkerType ==
  ASSUME TypeOK, Worker
  PROVE  TypeOK'
<1>1. ASSUME NEW j \in JobIds, WorkerReport(j)
      PROVE  TypeOK'
  BY <1>1 DEF WorkerReport, TypeOK, RecordsOK, FramesOK, modelVars, queueVars, sessionVars
<1>2. ASSUME NEW j \in JobIds, WorkerReturn(j)
      PROVE  TypeOK'
  BY <1>2 DEF WorkerReturn, TypeOK, RecordsOK, FramesOK, modelVars, queueVars, sessionVars
<1> QED
  BY <1>1, <1>2 DEF Worker

LEMMA MarkedType ==
  ASSUME TypeOK, NEW K
  PROVE  Marked(K) \in Runs
BY DEF TypeOK, Marked, Runs

LEMMA InvalidatedType ==
  ASSUME TypeOK, NEW K, NEW R \in SUBSET Keys, Invalidated(K, R)
  PROVE  ready' \in SUBSET Keys /\ result' \in [Keys -> {"none", "fresh", "stale"}]
BY DEF TypeOK, Invalidated

LEMMA StopRunIfRefusedType ==
  ASSUME TypeOK, NEW r \in Runs, StopRunIfRefused(r)
  PROVE  RecordsOK' /\ FramesOK' /\ run' \in Runs
<1>1. FramesOK'
  BY FrameTypes, PushFrames DEF StopRunIfRefused, TypeOK, FramesOK
<1>2. "Superseded" \in EndStates
  BY DEF EndStates
<1>3. run' \in Runs
  BY <1>2, StoppedType DEF StopRunIfRefused
<1>4. r.job # NoJob => r.job \in JobIds
  BY DEF Runs
<1>5. RecordsOK'
  BY <1>4 DEF StopRunIfRefused, TypeOK, RecordsOK
<1> QED
  BY <1>1, <1>3, <1>5

LEMMA SessionRowsChangedType ==
  ASSUME TypeOK, NEW r, NEW L, SessionRowsChanged(r, L)
  PROVE  FramesOK'
<1>1. {j \in QueuedJobs : SessionOfJob(j) \notin L} \in SUBSET JobIds
  BY DEF QueuedJobs
<1>2. Over("sessionRows", {j \in QueuedJobs : SessionOfJob(j) \notin L}) \in Frames
  BY <1>1, FrameTypes DEF Loops
<1> QED
  BY <1>2, PushFrames DEF SessionRowsChanged, TypeOK, FramesOK

LEMMA SessionSideType ==
  ASSUME TypeOK, SessionSide
  PROVE  TypeOK'
<1> USE DEF RecordsOK, FramesOK, modelVars, queueVars, workerVars, sessionVars
<1>1. ASSUME NEW K \in SUBSET Keys, EngineChange(K)
      PROVE  TypeOK'
  <2>1. RecordsOK' /\ FramesOK' /\ run' \in Runs
    BY <1>1, MarkedType, StopRunIfRefusedType DEF EngineChange
  <2>2. PICK R \in SUBSET Keys : Invalidated(K, R)
    BY <1>1 DEF EngineChange
  <2> QED
    BY <1>1, <2>1, <2>2, InvalidatedType DEF EngineChange, StopRunIfRefused, TypeOK
<1>2. ASSUME NEW K \in SUBSET Keys, SilentChange(K)
      PROVE  TypeOK'
  <2>1. PICK R \in SUBSET Keys : Invalidated(K, R)
    BY <1>2 DEF SilentChange
  <2> QED
    BY <1>2, <2>1, MarkedType, InvalidatedType DEF SilentChange, TypeOK
<1>3. ASSUME NEW k \in Keys, RequestSynchronously(k)
      PROVE  TypeOK'
  BY <1>3 DEF RequestSynchronously, TypeOK
<1>4. ASSUME NEW s \in Sessions, RemoveSession(s)
      PROVE  TypeOK'
  BY <1>4, MarkedType, InvalidatedType, SessionRowsChangedType DEF RemoveSession, TypeOK
<1>5. ASSUME NEW s \in Sessions, ReplaceSession(s)
      PROVE  TypeOK'
  <2>1. PICK R \in SUBSET Keys : Invalidated(KeysOf(s), R)
    BY <1>5 DEF ReplaceSession, KeysOf
  <2> QED
    BY <1>5, <2>1, MarkedType, InvalidatedType, SessionRowsChangedType DEF ReplaceSession, TypeOK
<1>6. ASSUME NEW s \in Sessions, LoadSession(s)
      PROVE  TypeOK'
  <2>1. PICK R \in SUBSET Keys : Invalidated(KeysOf(s), R)
    BY <1>6 DEF LoadSession, KeysOf
  <2> QED
    BY <1>6, <2>1, InvalidatedType DEF LoadSession, TypeOK
<1>7. ASSUME NEW s \in Sessions, EvictSession(s)
      PROVE  TypeOK'
  BY <1>7, MarkedType, InvalidatedType DEF EvictSession, TypeOK
<1>8. CASE DestroySessionModel
  <2>1. RecordsOK' /\ FramesOK' /\ run' \in Runs
    BY <1>8, MarkedType, StopRunIfRefusedType DEF DestroySessionModel
  <2> QED
    BY <1>8, <2>1, InvalidatedType DEF DestroySessionModel, StopRunIfRefused, TypeOK
<1> QED
  BY <1>1, <1>2, <1>3, <1>4, <1>5, <1>6, <1>7, <1>8 DEF SessionSide

LEMMA InitType ==
  ASSUME Init
  PROVE  TypeOK
<1>1. FramesOK
  BY EmptySeq DEF Init, FramesOK
<1>2. RecordsOK
  BY DEF Init, RecordsOK
<1>3. run \in Runs
  BY DEF Init, NoRun, Runs
<1>4. nextId \in 1..(MaxJobs + 1)
  BY DEF Init
<1>5. pins \in [Sessions -> Nat] /\ result \in [Keys -> {"none", "fresh", "stale"}]
  BY DEF Init
<1> QED
  BY <1>1, <1>2, <1>3, <1>4, <1>5 DEF Init, TypeOK

LEMMA NextType ==
  ASSUME TypeOK, [Next]_vars
  PROVE  TypeOK'
<1>1. CASE UNCHANGED vars
  BY <1>1 DEF TypeOK, RecordsOK, FramesOK, vars, modelVars, queueVars, workerVars, sessionVars
<1> QED
  BY <1>1, CallsType, ResumeType, EventsType, WorkerType, SessionSideType DEF Next

\* Every variable keeps the type of its counterpart in jobqueue.h and jobmodel.h,
\* for every number of sessions, calculations, jobs and nested slots.
THEOREM TypeCorrect == Spec => []TypeOK
<1>1. Init => TypeOK
  BY InitType
<1>2. TypeOK /\ [Next]_vars => TypeOK'
  BY NextType
<1> QED
  BY <1>1, <1>2, PTL DEF Spec

HIDE ConstantsAssumption

-------------------------------------------------------------------------------
(* The stack *)

\* A stack that a step may leave: well shaped, with no new start on it.
Fits(s) == s \in Seq(Frames) /\ StackShape(s) /\ Starting(s) \subseteq Starting(stack)

LEMMA FitsStack ==
  ASSUME Inv
  PROVE  Fits(stack)
BY DEF Inv, Safe, Fits, TypeOK, FramesOK

LEMMA FitsPush ==
  ASSUME NEW s, Fits(s), NEW f \in Frames, f.at \notin {"startNext", "jobStarted"}
  PROVE  Fits(Push(f, s))
<1>1. /\ Push(f, s) \in Seq(Frames)
      /\ Len(Push(f, s)) = Len(s) + 1
      /\ \A i \in 1..(Len(s) + 1) : Push(f, s)[i] = IF i = 1 THEN f ELSE s[i - 1]
      /\ FramesOf(Push(f, s)) = {f} \union FramesOf(s)
      /\ Len(s) \in Nat
  BY PushFrames, LenProperties DEF Fits
<1>2. \A i \in 1..(Len(s) + 1) : i # 1 => i - 1 \in 1..Len(s)
  BY <1>1
<1>3. ASSUME NEW i \in 1..Len(Push(f, s)), Push(f, s)[i].at = "startNext"
      PROVE  i = Len(Push(f, s))
  <2>1. i \in 1..(Len(s) + 1)
    BY <1>1
  <2>2. i # 1 /\ s[i - 1].at = "startNext"
    BY <1>1, <1>3, <2>1
  <2>3. i - 1 \in 1..Len(s)
    BY <1>2, <2>1, <2>2
  <2>4. i - 1 = Len(s)
    BY <2>2, <2>3 DEF Fits, StackShape
  <2> QED
    BY <1>1, <2>1, <2>4
<1>4. \A i, k \in 1..Len(Push(f, s)) :
        Push(f, s)[i].at = "jobStarted" /\ Push(f, s)[k].at = "jobStarted" => i = k
  <2> SUFFICES ASSUME NEW i \in 1..Len(Push(f, s)), NEW k \in 1..Len(Push(f, s)),
                      Push(f, s)[i].at = "jobStarted", Push(f, s)[k].at = "jobStarted"
               PROVE  i = k
    OBVIOUS
  <2>1. i # 1 /\ k # 1 /\ s[i - 1].at = "jobStarted" /\ s[k - 1].at = "jobStarted"
    BY <1>1
  <2>2. i - 1 \in 1..Len(s) /\ k - 1 \in 1..Len(s)
    BY <1>1, <1>2, <2>1
  <2>3. i - 1 = k - 1
    BY <2>1, <2>2 DEF Fits, StackShape
  <2> QED
    BY <1>1, <2>3
<1>5. Starting(Push(f, s)) = Starting(s)
  BY <1>1 DEF Starting
<1> QED
  BY <1>1, <1>3, <1>4, <1>5 DEF Fits, StackShape

LEMMA FitsPop ==
  ASSUME Inv, stack # << >>
  PROVE  /\ Fits(Below)
         /\ Top \in Frames
         /\ Top.at = "jobStarted" => Starting(Below) = {} /\ Top.job \in Starting(stack)
<1>1. /\ Top \in Frames
      /\ Below \in Seq(Frames)
      /\ Len(Below) = Len(stack) - 1
      /\ Len(stack) \in Nat \ {0}
      /\ Top = stack[1]
      /\ \A i \in 1..Len(Below) : Below[i] = stack[i + 1]
      /\ FramesOf(stack) = {Top} \union FramesOf(Below)
  BY PopFrames DEF Inv, TypeOK, FramesOK, Top, Below
<1>2. \A i \in 1..Len(Below) : i + 1 \in 1..Len(stack)
  BY <1>1
<1>3. StackShape(stack)
  BY DEF Inv, Safe
<1>4. \A i \in 1..Len(Below) : Below[i].at = "startNext" => i = Len(Below)
  BY <1>1, <1>2, <1>3 DEF StackShape
<1>5. ASSUME NEW i \in 1..Len(Below), NEW k \in 1..Len(Below),
             Below[i].at = "jobStarted", Below[k].at = "jobStarted"
      PROVE  i = k
  <2>1. i + 1 = k + 1
    BY <1>1, <1>2, <1>3, <1>5 DEF StackShape
  <2> QED
    BY <1>1, <2>1
<1>6. Starting(Below) \subseteq Starting(stack)
  BY <1>1 DEF Starting
<1>7. ASSUME Top.at = "jobStarted"
      PROVE  Starting(Below) = {} /\ Top.job \in Starting(stack)
  <2>1. \A i \in 1..Len(Below) : Below[i].at # "jobStarted"
    <3>1. SUFFICES ASSUME NEW i \in 1..Len(Below), Below[i].at = "jobStarted"
                   PROVE  FALSE
      OBVIOUS
    <3>2. i + 1 \in 1..Len(stack) /\ stack[i + 1].at = "jobStarted"
      BY <1>1, <1>2, <3>1
    <3>3. 1 \in 1..Len(stack) /\ stack[1].at = "jobStarted"
      BY <1>1, <1>7
    <3>4. i + 1 = 1
      BY <1>3, <3>2, <3>3 DEF StackShape
    <3> QED
      BY <1>1, <3>4
  <2>2. Starting(Below) = {}
    BY <2>1 DEF Starting, FramesOf
  <2>3. Top.job \in Starting(stack)
    BY <1>1, <1>7 DEF Starting
  <2> QED
    BY <2>2, <2>3
<1> QED
  BY <1>1, <1>4, <1>5, <1>6, <1>7 DEF Fits, StackShape

\* The loop on top of the stack goes on with the rest of its snapshot.
LEMMA FitsLoop ==
  ASSUME Inv, NEW p, TopIs(p), p \notin {"startNext", "jobStarted"}, Top.rest # {}
  PROVE  LET j == Oldest(Top.rest)
             loop == Push([Top EXCEPT !.rest = @ \ {j}], Below)
         IN  j \in JobIds /\ Fits(loop)
<1>1. Top \in Frames /\ Fits(Below)
  BY FitsPop DEF TopIs
<1>2. Top.rest \in SUBSET JobIds
  BY <1>1 DEF Frames
<1>3. Oldest(Top.rest) \in JobIds
  BY <1>2, OldestIsLeast
<1>4. [Top EXCEPT !.rest = @ \ {Oldest(Top.rest)}] \in Frames
  BY <1>1 DEF Frames
<1>5. [Top EXCEPT !.rest = @ \ {Oldest(Top.rest)}].at \notin {"startNext", "jobStarted"}
  BY <1>1 DEF Frames, TopIs
<1> QED
  BY <1>1, <1>3, <1>4, <1>5, FitsPush

-------------------------------------------------------------------------------
(* The functions every end and every stop goes through *)

\* A step that leaves the records and the worker alone; the engines may have
\* marked the run and dropped results.
LEMMA QuietSafe ==
  ASSUME Inv, Fits(stack'),
         UNCHANGED <<state, key, cancelRequested, nextId, thread, finishedPosts>>,
         run' = run \/ (HasRun /\ run' = [run EXCEPT !.refused = TRUE, !.current = FALSE]),
         \A k \in Keys : result'[k] \in {result[k], "none", "fresh"}
  PROVE  Safe'
<1>1. run'.job = run.job /\ run'.end = run.end /\ run'.flag = run.flag /\ RunIsHonest'
  <2>1. run \in Runs /\ RunIsHonest
    BY DEF Inv, Safe, TypeOK
  <2>2. CASE run' = run
    BY <2>1, <2>2 DEF RunIsHonest, HasRun
  <2>3. CASE run' = [run EXCEPT !.refused = TRUE, !.current = FALSE]
    BY <2>1, <2>3 DEF RunIsHonest, HasRun, Runs
  <2> QED
    BY <2>2, <2>3
<1>2. OneWorker' /\ StopIsRecorded'
  BY <1>1 DEF Inv, Safe, OneWorker, StopIsRecorded
<1>3. NeverStale'
  BY DEF Inv, Safe, NeverStale
<1>4. IdsInOrder'
  BY DEF Inv, Safe, IdsInOrder
<1>5. RunningIsOldest' /\ OneLiveJobPerKey'
  BY <1>1 DEF Inv, Safe, RunningIsOldest, OneLiveJobPerKey, Queued, IsActive, HasRun
<1>6. StackShape(stack)' /\ StartingIdle'
  BY DEF Inv, Safe, Fits, StartingIdle
<1> QED
  BY <1>1, <1>2, <1>3, <1>4, <1>5, <1>6 DEF Safe

\* A queued job, or one whose row is gone, ends.
LEMMA EndQueuedSafe ==
  ASSUME Inv, NEW j \in JobIds, RecordReadsQueued(j), NEW e \in EndStates,
         NEW below, Fits(below), EndJob(j, e, below),
         UNCHANGED <<queueVars, run, workerVars, sessionVars>>
  PROVE  Safe'
<1>1. run.job # j /\ j \notin cancelRequested
  BY DEF Inv, Safe, OneWorker, StopIsRecorded, RecordReadsQueued
<1>2. /\ \A i \in JobIds : i # j => state'[i] = state[i]
      /\ state'[j] \in EndStates \union {"Removed"}
      /\ cancelRequested' = cancelRequested
      /\ key' = key
  BY <1>1 DEF EndJob, Inv, TypeOK, RecordsOK, RecordReadsQueued, IsActive
<1>3. state[j] \notin {"None", "Running"} /\ state'[j] \notin {"None", "Queued", "Running"}
  BY <1>2 DEF RecordReadsQueued, EndStates
<1>4. OneWorker' /\ StopIsRecorded' /\ RunIsHonest' /\ NeverStale'
  BY <1>2, <1>3 DEF Inv, Safe, OneWorker, StopIsRecorded, RunIsHonest, NeverStale, HasRun, workerVars, sessionVars
<1>5. IdsInOrder'
  BY <1>2, <1>3 DEF Inv, Safe, IdsInOrder, queueVars, workerVars, TypeOK
<1>6. RunningIsOldest' /\ OneLiveJobPerKey'
  BY <1>2, <1>3 DEF Inv, Safe, RunningIsOldest, OneLiveJobPerKey, Queued, IsActive, HasRun
<1>7. Finishing(j, SessionOfJob(j)) \in Frames
  BY FrameTypes DEF Inv, TypeOK
<1>8. Fits(stack')
  BY <1>7, FitsPush DEF EndJob, Finishing
<1>9. StackShape(stack)' /\ StartingIdle'
  BY <1>8 DEF Inv, Safe, Fits, StartingIdle, workerVars
<1> QED
  BY <1>4, <1>5, <1>6, <1>9 DEF Safe

\* The run ends; its worker was joined.
LEMMA FinishRunSafe ==
  ASSUME Inv, HasRun, WorkerJoined, NEW e \in EndStates, e = "Succeeded" => run.current,
         NEW below, Fits(below), FinishRun(e, below), finishedPosts' \subseteq finishedPosts
  PROVE  Safe'
<1> DEFINE j == run.job
<1>1. j \in JobIds /\ state[j] = "Running"
  BY DEF Inv, Safe, TypeOK, Runs, HasRun, OneWorker
<1>2. /\ \A i \in JobIds : i # j => state'[i] = state[i]
      /\ state'[j] = e
      /\ cancelRequested' = {}
      /\ key' = key
  <2>1. cancelRequested' = cancelRequested \ {j} /\ \A i \in cancelRequested : i = j
    BY DEF FinishRun, EndJob, Inv, Safe, TypeOK, RecordsOK, StopIsRecorded
  <2> QED
    BY <1>1, <2>1 DEF FinishRun, EndJob, Inv, TypeOK, RecordsOK, IsActive
<1>3. e \notin {"None", "Queued", "Running"} /\ run' = NoRun
  BY DEF EndStates, FinishRun
<1>4. \A i \in JobIds : thread'[i] = "none"
  BY <1>1 DEF FinishRun, WorkerJoined, Inv, Safe, TypeOK, OneWorker
<1>5. OneWorker' /\ StopIsRecorded' /\ RunIsHonest'
  <2>1. run'.job \notin JobIds /\ run'.end = NoEnd
    BY <1>3 DEF NoRun, NoJob, JobIds
  <2>2. \A i \in JobIds : state'[i] # "Running"
    BY <1>2, <1>3 DEF Inv, Safe, OneWorker
  <2> QED
    BY <1>2, <1>3, <1>4, <2>1, <2>2 DEF OneWorker, StopIsRecorded, RunIsHonest, HasRun, NoRun, NoEnd
<1>6. NeverStale'
  BY DEF FinishRun, Inv, Safe, NeverStale, TypeOK
<1>7. IdsInOrder'
  BY <1>1, <1>2, <1>3, <1>4 DEF FinishRun, queueVars, Inv, Safe, TypeOK, IdsInOrder
<1>8. RunningIsOldest' /\ OneLiveJobPerKey'
  <2>1. RunningIsOldest'
    BY <1>3 DEF RunningIsOldest, HasRun, NoRun
  <2>2. OneLiveJobPerKey'
    <3>1. SUFFICES ASSUME NEW a \in JobIds, NEW b \in JobIds, IsActive(a)', IsActive(b)',
                          a # b, key'[a] = key'[b]
                   PROVE  FALSE
      BY DEF OneLiveJobPerKey
    <3>2. IsActive(a) /\ IsActive(b) /\ a # j /\ b # j /\ key[a] = key[b]
      BY <1>2, <1>3, <3>1 DEF IsActive
    <3>3. a \notin cancelRequested /\ b \notin cancelRequested
      BY <3>2 DEF Inv, Safe, StopIsRecorded
    <3> QED
      BY <3>1, <3>2, <3>3 DEF Inv, Safe, OneLiveJobPerKey
  <2> QED
    BY <2>1, <2>2
<1>9. StackShape(stack)' /\ StartingIdle'
  <2>1. Finishing(j, SessionOfJob(j)) \in Frames
    BY <1>1, FrameTypes DEF Inv, TypeOK
  <2>2. Fits(stack')
    BY <2>1, FitsPush DEF FinishRun, EndJob, Finishing
  <2> QED
    BY <1>4, <2>2 DEF Inv, Safe, Fits, StartingIdle
<1> QED
  BY <1>5, <1>6, <1>7, <1>8, <1>9 DEF Safe

\* The run is asked to stop; the engine may have marked it just before.
LEMMA StopSafe ==
  ASSUME Inv, HasRun, NEW e \in {"Cancelled", "Superseded"}, NEW r \in Runs,
         r = run \/ r = [run EXCEPT !.refused = TRUE, !.current = FALSE],
         run' = Stopped(r, e),
         cancelRequested' = cancelRequested \union {run.job},
         UNCHANGED <<state, key, nextId, thread, finishedPosts>>,
         Fits(stack'),
         \A k \in Keys : result'[k] \in {result[k], "none", "fresh"}
  PROVE  Safe'
<1>1. run \in Runs /\ RunIsHonest
  BY DEF Inv, Safe, TypeOK
<1>2. r.job = run.job /\ r.end = run.end /\ (r.refused \/ r.current)
  BY <1>1 DEF Runs, RunIsHonest
<1>3. /\ run'.job = run.job /\ run'.flag = TRUE
      /\ run'.end # NoEnd /\ run'.end # "Succeeded"
      /\ run'.refused \/ run'.current
  BY <1>1, <1>2 DEF Runs, Stopped, RunIsHonest, NoEnd
<1>4. OneWorker' /\ StopIsRecorded' /\ RunIsHonest'
  BY <1>3 DEF Inv, Safe, OneWorker, StopIsRecorded, RunIsHonest
<1>5. NeverStale' /\ IdsInOrder'
  BY DEF Inv, Safe, NeverStale, IdsInOrder
<1>6. RunningIsOldest' /\ OneLiveJobPerKey'
  BY <1>3 DEF Inv, Safe, RunningIsOldest, OneLiveJobPerKey, Queued, IsActive, HasRun
<1>7. StackShape(stack)' /\ StartingIdle'
  BY DEF Inv, Safe, Fits, StartingIdle
<1> QED
  BY <1>4, <1>5, <1>6, <1>7 DEF Safe

LEMMA RequestStopSafe ==
  ASSUME Inv, NEW e \in {"Cancelled", "Superseded"}, NEW below, Fits(below),
         RequestStop(e, below), UNCHANGED sessionVars
  PROVE  Safe'
<1>1. Fits(stack')
  BY FrameTypes, FitsPush DEF RequestStop, Signal, At
<1>2. /\ UNCHANGED <<state, key, nextId, thread, finishedPosts, result>>
      /\ HasRun
      /\ run' = Stopped(run, e)
      /\ cancelRequested' = cancelRequested \union {run.job}
  BY DEF RequestStop, queueVars, workerVars, sessionVars
<1>3. run \in Runs
  BY DEF Inv, TypeOK
<1> QED
  BY <1>1, <1>2, <1>3, StopSafe

\* The engine marks the run and the queue looks at it.
LEMMA StopRunIfRefusedSafe ==
  ASSUME Inv, NEW K, StopRunIfRefused(Marked(K)),
         \A k \in Keys : result'[k] \in {result[k], "none"}
  PROVE  Safe'
<1> DEFINE r == Marked(K)
<1>1. r \in Runs
  BY MarkedType DEF Inv
<1>2. r = run \/ (HasRun /\ r = [run EXCEPT !.refused = TRUE, !.current = FALSE])
  BY DEF Marked
<1>3. UNCHANGED <<state, key, nextId, thread, finishedPosts>>
  BY DEF StopRunIfRefused, queueVars, workerVars
<1>4. CASE r.job # NoJob /\ r.refused /\ r.end = NoEnd
  <2>1. r.job = run.job /\ HasRun
    BY <1>2, <1>4 DEF Inv, TypeOK, Runs, HasRun
  <2>2. Fits(stack')
    BY <1>4, FitsStack, FrameTypes, FitsPush DEF StopRunIfRefused, Signal, At
  <2>3. run' = Stopped(r, "Superseded") /\ cancelRequested' = cancelRequested \union {run.job}
    BY <1>4, <2>1 DEF StopRunIfRefused
  <2> QED
    BY <1>1, <1>2, <1>3, <2>1, <2>2, <2>3, StopSafe
<1>5. CASE ~(r.job # NoJob /\ r.refused /\ r.end = NoEnd)
  <2>1. run' = r /\ cancelRequested' = cancelRequested /\ stack' = stack
    BY <1>5 DEF StopRunIfRefused
  <2> QED
    BY <1>2, <1>3, <2>1, FitsStack, QuietSafe
<1> QED
  BY <1>4, <1>5

\* Only a run whose inputs are still those it computed from succeeds.
LEMMA VerdictIsHonest ==
  ASSUME Inv, HasRun
  PROVE  Verdict \in EndStates /\ (Verdict = "Succeeded" => run.current)
<1>1. Verdict \in EndStates
  BY VerdictType DEF Inv
<1>2. run.end # "Succeeded" /\ (run.refused \/ run.current)
  BY DEF Inv, Safe, RunIsHonest
<1>3. CASE run.end # NoEnd
  <2>1. Verdict = run.end
    BY <1>3 DEF Verdict
  <2> QED
    BY <1>1, <1>2, <2>1
<1>4. CASE run.end = NoEnd /\ run.refused
  <2>1. Verdict = "Superseded"
    BY <1>4 DEF Verdict
  <2> QED
    BY <1>1, <2>1
<1>5. CASE run.end = NoEnd /\ ~run.refused
  BY <1>1, <1>2, <1>5
<1> QED
  BY <1>3, <1>4, <1>5

-------------------------------------------------------------------------------
(* The steps *)

\* A step that only suspends, or only returns.
LEMMA StackOnlySafe ==
  ASSUME Inv, Fits(stack'), UNCHANGED <<modelVars, queueVars, run, workerVars, sessionVars>>
  PROVE  Safe'
BY QuietSafe DEF modelVars, queueVars, workerVars, sessionVars

\* Rows of finished jobs go.
LEMMA RemoveRowsSafe ==
  ASSUME Inv, NEW S \in SUBSET JobIds, \A j \in S : IsFinished(j), RemoveRows(S),
         UNCHANGED <<cancelRequested, nextId, run, thread, finishedPosts, result>>,
         Fits(stack')
  PROVE  Safe'
<1>1. ASSUME NEW j \in JobIds
      PROVE  \/ state'[j] = state[j] /\ key'[j] = key[j]
             \/ state[j] \in EndStates /\ state'[j] = "Removed"
  <2>1. CASE j \in S
    BY <2>1 DEF RemoveRows, IsFinished
  <2>2. CASE j \notin S
    BY <2>2 DEF RemoveRows
  <2> QED
    BY <2>1, <2>2
<1>2. \A j \in JobIds : \A v \in {"None", "Queued", "Running"} : state'[j] = v <=> state[j] = v
  BY <1>1 DEF EndStates
<1>3. OneWorker' /\ StopIsRecorded' /\ RunIsHonest' /\ NeverStale'
  BY <1>2 DEF Inv, Safe, OneWorker, StopIsRecorded, RunIsHonest, HasRun, NeverStale
<1>4. IdsInOrder'
  BY <1>2 DEF Inv, Safe, IdsInOrder, TypeOK
<1>5. RunningIsOldest'
  BY <1>2 DEF Inv, Safe, RunningIsOldest, Queued, HasRun
<1>6. OneLiveJobPerKey'
  <2>1. \A j \in JobIds : IsActive(j)' => IsActive(j) /\ key'[j] = key[j]
    BY <1>1 DEF IsActive
  <2> QED
    BY <2>1 DEF Inv, Safe, OneLiveJobPerKey
<1>7. StackShape(stack)' /\ StartingIdle'
  BY DEF Inv, Safe, Fits, StartingIdle
<1> QED
  BY <1>3, <1>4, <1>5, <1>6, <1>7 DEF Safe

LEMMA CancelJobSafe ==
  ASSUME Inv, NEW j \in JobIds, NEW below, Fits(below), CancelJob(j, below)
  PROVE  Safe'
<1>1. CASE Queued(j) /\ EndJob(j, "Cancelled", below) /\ UNCHANGED <<queueVars, run, workerVars, sessionVars>>
  BY <1>1, EndQueuedSafe DEF Queued, RecordReadsQueued, EndStates
<1>2. CASE RequestStop("Cancelled", below) /\ UNCHANGED sessionVars
  BY <1>2, RequestStopSafe
<1> QED
  BY <1>1, <1>2 DEF CancelJob

LEMMA EndQueuedOfSafe ==
  ASSUME Inv, NEW p, TopIs(p), p \notin {"startNext", "jobStarted"},
         NEW e \in EndStates, EndQueuedOf(e)
  PROVE  Safe'
<1> DEFINE j == Oldest(Top.rest)
           loop == Push([Top EXCEPT !.rest = @ \ {j}], Below)
<1>1. j \in JobIds /\ Fits(loop)
  BY FitsLoop DEF EndQueuedOf
<1>2. CASE RecordReadsQueued(j)
  BY <1>1, <1>2, EndQueuedSafe DEF EndQueuedOf
<1>3. CASE ~RecordReadsQueued(j)
  BY <1>1, <1>3, StackOnlySafe DEF EndQueuedOf
<1> QED
  BY <1>2, <1>3

LEMMA CallsSafe ==
  ASSUME Inv, Calls
  PROVE  Safe'
<1> USE FitsStack
<1>1. ASSUME NEW k \in Keys, Request(k)
      PROVE  Safe'
  <2> DEFINE j == nextId
  <2>1. j \in JobIds /\ state[j] = "None" /\ j \notin cancelRequested /\ run.job # j /\ j \notin finishedPosts
    BY <1>1 DEF Request, Inv, Safe, TypeOK, JobIds, IdsInOrder, OneWorker, StopIsRecorded
  <2>2. /\ state' = [state EXCEPT ![j] = "Queued"]
        /\ key' = [key EXCEPT ![j] = k]
        /\ nextId' = j + 1
        /\ UNCHANGED <<cancelRequested, run, thread, finishedPosts, result>>
    BY <1>1 DEF Request, workerVars
  <2>3. OneWorker' /\ StopIsRecorded' /\ RunIsHonest' /\ NeverStale'
    BY <2>1, <2>2 DEF Inv, Safe, TypeOK, RecordsOK, OneWorker, StopIsRecorded, RunIsHonest, HasRun, NeverStale
  <2>4. IdsInOrder'
    BY <2>1, <2>2 DEF Inv, Safe, TypeOK, RecordsOK, IdsInOrder, JobIds
  <2>5. RunningIsOldest'
    <3>1. HasRun => run.job < j
      BY <2>1 DEF Inv, Safe, TypeOK, Runs, HasRun, OneWorker, IdsInOrder, JobIds
    <3> QED
      BY <2>1, <2>2, <3>1 DEF Inv, Safe, TypeOK, RecordsOK, RunningIsOldest, Queued, HasRun
  <2>6. OneLiveJobPerKey'
    <3>1. \A i \in JobIds : IsActive(i) /\ key[i] = k => i \in cancelRequested
      BY <1>1 DEF Request, Live, Active
    <3> QED
      BY <2>1, <2>2, <3>1 DEF Inv, Safe, TypeOK, RecordsOK, OneLiveJobPerKey, IsActive
  <2>7. Fits(stack')
    BY <1>1, <2>1, FrameTypes, FitsPush DEF Request, Emissions, At
  <2>8. StackShape(stack)' /\ StartingIdle'
    BY <2>2, <2>7 DEF Inv, Safe, Fits, StartingIdle
  <2> QED
    BY <2>3, <2>4, <2>5, <2>6, <2>8 DEF Safe
<1>2. ASSUME NEW j \in JobIds, Cancel(j)
      PROVE  Safe'
  BY <1>2, CancelJobSafe DEF Cancel
<1>3. CASE CancelAll
  <2>1. PICK S \in SUBSET JobIds : stack' = Push(Over("cancelAll", S), stack)
    BY <1>3 DEF CancelAll, Active
  <2>2. Over("cancelAll", S) \in Frames /\ Over("cancelAll", S).at = "cancelAll"
    BY FrameTypes DEF Loops, Over
  <2> QED
    BY <1>3, <2>1, <2>2, FitsPush, StackOnlySafe DEF CancelAll
<1>4. CASE CancelUnwantedQueued
  <2>1. PICK S \in SUBSET JobIds : stack' = Push(Over("cancelUnwanted", S), stack)
    BY <1>4 DEF CancelUnwantedQueued, QueuedJobs
  <2>2. Over("cancelUnwanted", S) \in Frames /\ Over("cancelUnwanted", S).at = "cancelUnwanted"
    BY FrameTypes DEF Loops, Over
  <2> QED
    BY <1>4, <2>1, <2>2, FitsPush, StackOnlySafe DEF CancelUnwantedQueued
<1>5. CASE Shutdown
  <2>1. Over("shutdown", QueuedJobs) \in Frames /\ Over("shutdown", QueuedJobs).at = "shutdown"
    BY FrameTypes DEF Loops, Over, QueuedJobs
  <2>2. Fits(stack')
    BY <1>5, <2>1, FitsPush DEF Shutdown
  <2> QED
    BY <1>5, <2>2, QuietSafe DEF Shutdown, modelVars, workerVars, sessionVars
<1>6. ASSUME NEW S \in SUBSET JobIds, RemoveFinished(S)
      PROVE  Safe'
  BY <1>6, RemoveRowsSafe DEF RemoveFinished, queueVars, workerVars, sessionVars
<1> QED
  BY <1>1, <1>2, <1>3, <1>4, <1>5, <1>6 DEF Calls

\* startNext() takes the oldest queued job; it is at the bottom of the stack.
LEMMA StartedSafe ==
  ASSUME Inv, TopIs("startNext"), ~HasRun, NEW j \in JobIds, Queued(j),
         \A i \in QueuedJobs : j <= i,
         run' = NewRun(j),
         state' = [state EXCEPT ![j] = "Running"],
         stack' = Push(At("jobStarted", j), stack),
         UNCHANGED <<key, cancelRequested, queueVars, workerVars, sessionVars>>
  PROVE  Safe'
<1>1. /\ \A i \in JobIds : run.job # i
      /\ cancelRequested = {}
      /\ \A i \in JobIds : thread[i] = "none"
      /\ j \notin finishedPosts
  BY DEF Inv, Safe, TypeOK, RecordsOK, HasRun, NoJob, JobIds, OneWorker, StopIsRecorded, IdsInOrder, Queued
<1>2. OneWorker' /\ StopIsRecorded' /\ RunIsHonest' /\ NeverStale'
  BY <1>1 DEF workerVars, sessionVars, Inv, Safe, TypeOK, RecordsOK, OneWorker, StopIsRecorded, RunIsHonest,
              NeverStale, HasRun, NewRun, NoEnd
<1>3. IdsInOrder'
  BY <1>1 DEF queueVars, workerVars, Inv, Safe, TypeOK, RecordsOK, IdsInOrder, Queued
<1>4. RunningIsOldest'
  BY DEF Inv, TypeOK, RecordsOK, RunningIsOldest, Queued, QueuedJobs, NewRun, JobIds
<1>5. OneLiveJobPerKey'
  BY DEF Inv, Safe, TypeOK, RecordsOK, OneLiveJobPerKey, IsActive, Queued
<1>6. StackShape(stack)' /\ StartingIdle'
  <2> DEFINE f == At("jobStarted", j)
  <2>1. f \in Frames /\ f.at = "jobStarted" /\ f.job = j
    BY FrameTypes DEF Emissions, At
  <2>2. stack \in Seq(Frames) /\ stack # << >> /\ StackShape(stack)
    BY DEF Inv, Safe, TypeOK, FramesOK, TopIs
  <2>3. Len(stack) = 1 /\ stack[1].at = "startNext"
    <3>1. Len(stack) \in Nat \ {0} /\ Head(stack) = stack[1]
      BY <2>2, PopFrames
    <3>2. stack[1].at = "startNext" /\ 1 \in 1..Len(stack)
      BY <3>1 DEF TopIs, Top
    <3> QED
      BY <2>2, <3>2 DEF StackShape
  <2>4. Len(stack') = 2 /\ stack'[1] = f /\ stack'[2] = stack[1]
    <3>1. /\ Len(stack') = Len(stack) + 1
          /\ \A i \in 1..(Len(stack) + 1) : stack'[i] = IF i = 1 THEN f ELSE stack[i - 1]
      BY <2>1, <2>2, PushFrames
    <3>2. 1 \in 1..(Len(stack) + 1) /\ 2 \in 1..(Len(stack) + 1)
      BY <2>3
    <3> QED
      BY <2>3, <3>1, <3>2
  <2>5. StackShape(stack')
    <3>1. \A i \in 1..Len(stack') : i = 1 \/ i = 2
      <4>1. 1..Len(stack') = 1..2
        BY <2>4
      <4>2. \A i \in 1..2 : i = 1 \/ i = 2
        OBVIOUS
      <4> QED
        BY <4>1, <4>2
    <3>2. stack'[1].at = "jobStarted" /\ stack'[2].at = "startNext"
      BY <2>1, <2>3, <2>4
    <3>3. \A i \in 1..Len(stack') : stack'[i].at = "startNext" => i = Len(stack')
      BY <2>4, <3>1, <3>2
    <3>4. \A i \in 1..Len(stack') : stack'[i].at = "jobStarted" => i = 1
      BY <3>1, <3>2
    <3> QED
      BY <3>3, <3>4 DEF StackShape
  <2>6. Starting(stack') = {j}
    BY <2>1, <2>3, <2>4 DEF Starting, FramesOf
  <2> QED
    BY <1>1, <2>5, <2>6 DEF StartingIdle, workerVars
<1> QED
  BY <1>2, <1>3, <1>4, <1>5, <1>6 DEF Safe

LEMMA ResumeSafe ==
  ASSUME Inv, Resume
  PROVE  Safe'
<1> USE DEF Loops, Emissions
<1>1. CASE AfterRowsInserted
  <2>1. Top \in Frames /\ Fits(Below)
    BY <1>1, FitsPop DEF AfterRowsInserted, TopIs
  <2>2. At("jobQueued", Top.job) \in Frames /\ At("jobQueued", Top.job).at = "jobQueued"
    BY <2>1, FrameTypes DEF Frames, At
  <2> QED
    BY <1>1, <2>1, <2>2, FitsPush, StackOnlySafe DEF AfterRowsInserted
<1>2. CASE AfterJobQueued
  <2>1. Fits(Below)
    BY <1>2, FitsPop DEF AfterJobQueued, TopIs
  <2> QED
    BY <1>2, <2>1, QuietSafe DEF AfterJobQueued, modelVars, workerVars, sessionVars
<1>3. CASE AfterJobStarted
  <2>1. /\ Top.job \in JobIds
        /\ thread[Top.job] = "none"
        /\ Top.job \notin finishedPosts
        /\ Fits(Below)
        /\ Starting(Below) = {}
    <3>1. Top.job \in Starting(stack) /\ Fits(Below) /\ Starting(Below) = {}
      BY <1>3, FitsPop DEF AfterJobStarted, TopIs
    <3> QED
      BY <3>1 DEF Inv, Safe, StartingIdle
  <2>2. CASE stack' = Below /\ UNCHANGED <<modelVars, queueVars, run, workerVars, sessionVars>>
    BY <2>1, <2>2, StackOnlySafe
  <2>3. ASSUME NEW e \in EndStates, e = "Succeeded" => run.current,
               HasRun, run.job = Top.job, FinishRun(e, Below), UNCHANGED finishedPosts
        PROVE  Safe'
    <3>1. WorkerJoined
      BY <2>1, <2>3 DEF WorkerJoined
    <3> QED
      BY <2>1, <2>3, <3>1, FinishRunSafe
  <2>4. CASE /\ HasRun /\ run.job = Top.job
             /\ thread' = [thread EXCEPT ![run.job] = "computing"]
             /\ stack' = Below
             /\ UNCHANGED <<modelVars, queueVars, run, finishedPosts, progressPosts, sessionVars>>
    <3>1. OneWorker' /\ StopIsRecorded' /\ RunIsHonest' /\ NeverStale'
      BY <2>1, <2>4 DEF modelVars, sessionVars, Inv, Safe, TypeOK, OneWorker, StopIsRecorded, RunIsHonest, HasRun, NeverStale
    <3>2. IdsInOrder'
      BY <2>1, <2>4 DEF modelVars, queueVars, Inv, Safe, TypeOK, IdsInOrder
    <3>3. RunningIsOldest' /\ OneLiveJobPerKey'
      BY <2>4 DEF modelVars, Inv, Safe, RunningIsOldest, OneLiveJobPerKey, Queued, IsActive, HasRun
    <3>4. StackShape(stack)' /\ StartingIdle'
      BY <2>1, <2>4 DEF Fits, StartingIdle
    <3> QED
      BY <3>1, <3>2, <3>3, <3>4 DEF Safe
  <2>5. "Failed" \in EndStates
    BY DEF EndStates
  <2> QED
    BY <1>3, <2>2, <2>3, <2>4, <2>5, VerdictIsHonest DEF AfterJobStarted
<1>4. CASE AfterJobFinished
  <2>1. Fits(Below)
    BY <1>4, FitsPop DEF AfterJobFinished, TopIs
  <2>2. Fits(stack')
    BY <1>4, <2>1, FrameTypes, FitsPush DEF AfterJobFinished, Signal, At
  <2>3. Trimmed \in SUBSET JobIds /\ \A j \in Trimmed : IsFinished(j)
    BY DEF Trimmed
  <2> QED
    BY <1>4, <2>2, <2>3, RemoveRowsSafe DEF AfterJobFinished, workerVars
<1>5. CASE AfterSignal
  BY <1>5, FitsPop, StackOnlySafe DEF AfterSignal, TopIs
<1>6. CASE CancelAllStep
  <2>1. CASE Top.rest = {}
    BY <1>6, <2>1, FitsPop, StackOnlySafe DEF CancelAllStep, TopIs
  <2>2. CASE Top.rest # {}
    <3> DEFINE j == Oldest(Top.rest)
               loop == Push([Top EXCEPT !.rest = @ \ {j}], Below)
    <3>1. j \in JobIds /\ Fits(loop)
      BY <1>6, <2>2, FitsLoop DEF CancelAllStep
    <3>2. CASE CancelJob(j, loop)
      BY <3>1, <3>2, CancelJobSafe
    <3>3. CASE stack' = loop /\ UNCHANGED <<modelVars, queueVars, run, workerVars, sessionVars>>
      BY <3>1, <3>3, StackOnlySafe
    <3> QED
      BY <1>6, <2>2, <3>2, <3>3 DEF CancelAllStep
  <2> QED
    BY <2>1, <2>2
<1>7. CASE CancelUnwantedStep
  <2>1. CASE EndQueuedOf("Cancelled")
    BY <1>7, <2>1, EndQueuedOfSafe DEF CancelUnwantedStep, EndStates
  <2> QED
    BY <1>7, <2>1, FitsPop, StackOnlySafe DEF CancelUnwantedStep, TopIs
<1>8. CASE SessionRowsStep
  <2>1. CASE EndQueuedOf("Superseded")
    BY <1>8, <2>1, EndQueuedOfSafe DEF SessionRowsStep, EndStates
  <2>2. Fits(Below)
    BY <1>8, FitsPop DEF SessionRowsStep, TopIs
  <2> QED
    BY <1>8, <2>1, <2>2, RequestStopSafe, StackOnlySafe DEF SessionRowsStep
<1>9. CASE ShutdownStep
  <2>1. CASE EndQueuedOf("Cancelled")
    BY <1>9, <2>1, EndQueuedOfSafe DEF ShutdownStep, EndStates
  <2>2. Fits(Below)
    BY <1>9, FitsPop DEF ShutdownStep, TopIs
  <2>3. Fits(Push(At("shutdownWait", NoJob), Below))
    BY <2>2, FrameTypes, FitsPush DEF At
  <2> QED
    BY <1>9, <2>1, <2>2, <2>3, RequestStopSafe, StackOnlySafe DEF ShutdownStep
<1>10. CASE ShutdownWait
  BY <1>10, FitsPop, VerdictIsHonest, FinishRunSafe DEF ShutdownWait, TopIs
<1>11. CASE StartNextStep
  <2>1. Fits(Below)
    BY <1>11, FitsPop DEF StartNextStep, TopIs
  <2>2. CASE shutDown \/ HasRun \/ QueuedJobs = {}
    BY <1>11, <2>1, <2>2, StackOnlySafe DEF StartNextStep
  <2>3. CASE ~(shutDown \/ HasRun \/ QueuedJobs = {})
    <3> DEFINE j == Oldest(QueuedJobs)
    <3>1. j \in JobIds /\ Queued(j) /\ \A i \in QueuedJobs : j <= i
      BY <2>3, OldestIsLeast DEF QueuedJobs
    <3>2. CASE EndJob(j, "Superseded", stack) /\ UNCHANGED <<queueVars, run, workerVars, sessionVars>>
      BY <3>1, <3>2, FitsStack, EndQueuedSafe DEF Queued, RecordReadsQueued, EndStates
    <3>3. CASE /\ run' = NewRun(j)
               /\ state' = [state EXCEPT ![j] = "Running"]
               /\ progressShown' = progressShown \ {j}
               /\ stack' = Push(At("jobStarted", j), stack)
               /\ UNCHANGED <<key, cancelRequested, finishes, queueVars, workerVars, sessionVars>>
      BY <1>11, <2>3, <3>1, <3>3, StartedSafe DEF StartNextStep
    <3> QED
      BY <1>11, <2>3, <3>2, <3>3 DEF StartNextStep
  <2> QED
    BY <2>2, <2>3
<1> QED
  BY <1>1, <1>2, <1>3, <1>4, <1>5, <1>6, <1>7, <1>8, <1>9, <1>10, <1>11 DEF Resume

LEMMA EventsSafe ==
  ASSUME Inv, Events
  PROVE  Safe'
<1>1. CASE StartNext
  <2>1. stack' = Push(At("startNext", NoJob), << >>)
    BY <1>1 DEF StartNext, InEventLoop
  <2>2. At("startNext", NoJob) \in Frames
    BY FrameTypes DEF Loops
  <2>3. << >> \in Seq(Frames) /\ Len(<< >>) = 0
    BY EmptySeq
  <2>4. /\ stack' \in Seq(Frames)
        /\ Len(stack') = 1
        /\ \A i \in 1..1 : stack'[i] = At("startNext", NoJob)
    <3>1. /\ stack' \in Seq(Frames)
          /\ Len(stack') = Len(<< >>) + 1
          /\ \A i \in 1..(Len(<< >>) + 1) : stack'[i] = IF i = 1 THEN At("startNext", NoJob) ELSE << >>[i - 1]
      BY <2>1, <2>2, <2>3, PushFrames
    <3> QED
      BY <2>3, <3>1
  <2>5. StackShape(stack') /\ Starting(stack') = {}
    BY <2>4 DEF StackShape, Starting, FramesOf, At
  <2>6. Fits(stack')
    BY <2>4, <2>5 DEF Fits
  <2> QED
    BY <1>1, <2>6, QuietSafe DEF StartNext, modelVars, workerVars, sessionVars
<1>2. ASSUME NEW j \in JobIds, OnProgress(j)
      PROVE  Safe'
  <2>1. Fits(stack')
    BY <1>2, FitsStack, FrameTypes, FitsPush DEF OnProgress, Signal, At
  <2> QED
    BY <1>2, <2>1, QuietSafe DEF OnProgress, queueVars, sessionVars
<1>3. ASSUME NEW j \in JobIds, OnWorkerFinished(j)
      PROVE  Safe'
  <2>1. CASE run.job = j
    <3>1. HasRun /\ WorkerJoined
      BY <1>3, <2>1 DEF HasRun, NoJob, JobIds, WorkerJoined, OnWorkerFinished, Inv, Safe, IdsInOrder
    <3> QED
      BY <1>3, <2>1, <3>1, FitsStack, VerdictIsHonest, FinishRunSafe DEF OnWorkerFinished
  <2>2. CASE run.job # j
    <3>1. UNCHANGED <<state, key, cancelRequested, nextId, run, stack, thread, result>>
      BY <1>3, <2>2 DEF OnWorkerFinished, modelVars, queueVars, sessionVars
    <3>2. finishedPosts' \subseteq finishedPosts
      BY <1>3 DEF OnWorkerFinished
    <3> QED
      BY <3>1, <3>2 DEF Inv, Safe, OneWorker, StopIsRecorded, RunIsHonest, HasRun, NeverStale, IdsInOrder,
                        RunningIsOldest, OneLiveJobPerKey, Queued, IsActive, StartingIdle
  <2> QED
    BY <2>1, <2>2
<1> QED
  BY <1>1, <1>2, <1>3 DEF Events

LEMMA WorkerSafe ==
  ASSUME Inv, Worker
  PROVE  Safe'
<1>1. ASSUME NEW j \in JobIds, WorkerReport(j)
      PROVE  Safe'
  BY <1>1, FitsStack, QuietSafe DEF WorkerReport, modelVars, queueVars, sessionVars
<1>2. ASSUME NEW j \in JobIds, WorkerReturn(j)
      PROVE  Safe'
  <2>1. /\ UNCHANGED <<state, key, cancelRequested, nextId, run, stack, result>>
        /\ finishedPosts' = finishedPosts \union {j}
        /\ thread[j] = "computing"
    BY <1>2 DEF WorkerReturn, modelVars, queueVars, sessionVars
  <2>2. \A i \in JobIds : i # j => thread'[i] = thread[i]
    BY <1>2 DEF WorkerReturn, Inv, TypeOK
  <2>3. thread'[j] # "computing" /\ run.job = j /\ state[j] = "Running"
    BY <1>2, <2>1 DEF WorkerReturn, Outcomes, Inv, Safe, TypeOK, OneWorker
  <2>4. OneWorker' /\ IdsInOrder'
    BY <2>1, <2>2, <2>3 DEF Inv, Safe, TypeOK, OneWorker, IdsInOrder
  <2>5. StartingIdle'
    BY <2>1, <2>2 DEF Inv, Safe, StartingIdle
  <2> QED
    BY <2>1, <2>4, <2>5 DEF Inv, Safe, StopIsRecorded, RunIsHonest, HasRun, NeverStale,
                            RunningIsOldest, OneLiveJobPerKey, Queued, IsActive
<1> QED
  BY <1>1, <1>2 DEF Worker

LEMMA SessionRowsChangedFits ==
  ASSUME Inv, NEW r, NEW L, SessionRowsChanged(r, L)
  PROVE  Fits(stack')
<1> DEFINE f == Over("sessionRows", {j \in QueuedJobs : SessionOfJob(j) \notin L})
<1>1. {j \in QueuedJobs : SessionOfJob(j) \notin L} \in SUBSET JobIds
  BY DEF QueuedJobs
<1>2. f \in Frames /\ f.at = "sessionRows"
  BY <1>1, FrameTypes DEF Loops, Over
<1> QED
  BY <1>2, FitsStack, FitsPush DEF SessionRowsChanged

LEMMA SessionSideSafe ==
  ASSUME Inv, SessionSide
  PROVE  Safe'
<1> USE FitsStack
<1>1. ASSUME NEW K \in SUBSET Keys, EngineChange(K)
      PROVE  Safe'
  BY <1>1, StopRunIfRefusedSafe DEF EngineChange, Invalidated
<1>2. ASSUME NEW K \in SUBSET Keys, SilentChange(K)
      PROVE  Safe'
  BY <1>2, QuietSafe DEF SilentChange, Invalidated, Marked, modelVars, queueVars, workerVars
<1>3. ASSUME NEW k \in Keys, RequestSynchronously(k)
      PROVE  Safe'
  BY <1>3, QuietSafe DEF RequestSynchronously, modelVars, queueVars, workerVars, Inv, TypeOK
<1>4. ASSUME NEW s \in Sessions, RemoveSession(s)
      PROVE  Safe'
  BY <1>4, SessionRowsChangedFits, QuietSafe
     DEF RemoveSession, Invalidated, Marked, modelVars, queueVars, workerVars
<1>5. ASSUME NEW s \in Sessions, ReplaceSession(s)
      PROVE  Safe'
  BY <1>5, SessionRowsChangedFits, QuietSafe
     DEF ReplaceSession, Invalidated, Marked, modelVars, queueVars, workerVars
<1>6. ASSUME NEW s \in Sessions, LoadSession(s)
      PROVE  Safe'
  BY <1>6, QuietSafe DEF LoadSession, Invalidated, modelVars, queueVars, workerVars
<1>7. ASSUME NEW s \in Sessions, EvictSession(s)
      PROVE  Safe'
  BY <1>7, QuietSafe DEF EvictSession, Invalidated, Marked, modelVars, queueVars, workerVars
<1>8. CASE DestroySessionModel
  BY <1>8, StopRunIfRefusedSafe DEF DestroySessionModel, Invalidated
<1> QED
  BY <1>1, <1>2, <1>3, <1>4, <1>5, <1>6, <1>7, <1>8 DEF SessionSide

-------------------------------------------------------------------------------
LEMMA InitInv ==
  ASSUME Init
  PROVE  Inv
<1>1. TypeOK
  BY InitType
<1>2. run.job \notin JobIds /\ run.end = NoEnd
  BY DEF Init, NoRun, NoJob, JobIds
<1>3. OneWorker /\ StopIsRecorded /\ RunIsHonest /\ NeverStale
  BY <1>2 DEF Init, OneWorker, StopIsRecorded, RunIsHonest, HasRun, NoRun, NoEnd, NeverStale
<1>4. IdsInOrder
  BY DEF Init, IdsInOrder, JobIds
<1>5. RunningIsOldest /\ OneLiveJobPerKey
  BY DEF Init, RunningIsOldest, OneLiveJobPerKey, Queued, IsActive
<1>6. StackShape(stack) /\ Starting(stack) = {}
  BY DEF Init, StackShape, Starting, FramesOf
<1> QED
  BY <1>1, <1>3, <1>4, <1>5, <1>6 DEF Inv, Safe, StartingIdle

LEMMA NextInv ==
  ASSUME Inv, [Next]_vars
  PROVE  Inv'
<1>1. TypeOK'
  BY NextType DEF Inv
<1>2. CASE UNCHANGED vars
  BY <1>1, <1>2, FitsStack, StackOnlySafe DEF vars, Inv
<1> QED
  BY <1>1, <1>2, CallsSafe, ResumeSafe, EventsSafe, WorkerSafe, SessionSideSafe DEF Next, Inv

\* Inv holds of every state the queue, its worker, its slots and the session
\* model can reach together.
THEOREM QueueInvariant == Spec => []Inv
<1>1. Init => Inv
  BY InitInv
<1>2. Inv /\ [Next]_vars => Inv'
  BY NextInv
<1> QED
  BY <1>1, <1>2, PTL DEF Spec

\* One worker at a time, and none without its run: a ticket is never destroyed
\* under a thread that computes on it, whatever slots do while a start or a
\* shutdown is under way.
THEOREM WorkersDoNotOutliveRuns == Spec => []OneWorker
<1>1. Inv => OneWorker
  BY DEF Inv, Safe
<1> QED
  BY <1>1, QueueInvariant, PTL

\* The record's cancel mark, the pending end and the worker's flag agree.
THEOREM StopsAreRecorded == Spec => []StopIsRecorded
<1>1. Inv => StopIsRecorded
  BY DEF Inv, Safe
<1> QED
  BY <1>1, QueueInvariant, PTL

\* A running job is older than every queued one.
THEOREM FirstComeFirstServed == Spec => []RunningIsOldest
<1>1. Inv => RunningIsOldest
  BY DEF Inv, Safe
<1> QED
  BY <1>1, QueueInvariant, PTL

\* Requests are deduplicated.
THEOREM NoDuplicates == Spec => []OneLiveJobPerKey
<1>1. Inv => OneLiveJobPerKey
  BY DEF Inv, Safe
<1> QED
  BY <1>1, QueueInvariant, PTL

-------------------------------------------------------------------------------
(***************************************************************************)
(* How the queue moves.  It never strands a job, announces idle() when     *)
(* there is nothing to do, and leaves nothing behind when it is shut down. *)
(* From what a step does to the run and to the records follow the action   *)
(* properties of JobQueueProps and that it implements JobLifecycle.        *)
(***************************************************************************)

\* Each part is inductive; the first two concern different variables, the third
\* is what ShutdownLeavesNothing needs.
Moves == NoLostStart /\ IdleAnnouncedOnce /\ ShutdownGoesOn

\* The suspended functions the parts rely on.
Pending == {"rowsInserted", "jobQueued", "jobFinished", "startNext", "shutdown", "shutdownWait"}

\* None of them is lost when the stack becomes s.
Keeps(s) == \A f \in FramesOf(stack) : f.at \in Pending => f \in FramesOf(s)

-------------------------------------------------------------------------------
(* The stack *)

LEMMA KeepsPush ==
  ASSUME TypeOK, NEW f \in Frames
  PROVE  /\ Keeps(Push(f, stack))
         /\ f \in FramesOf(Push(f, stack))
<1>1. FramesOf(Push(f, stack)) = {f} \union FramesOf(stack)
  BY PushFrames DEF TypeOK, FramesOK
<1> QED
  BY <1>1 DEF Keeps

\* A function that is none of them returns, or gives way to another.
LEMMA KeepsPop ==
  ASSUME TypeOK, stack # << >>, Top.at \notin Pending
  PROVE  /\ Below \in Seq(Frames)
         /\ Keeps(Below)
         /\ \A f \in Frames : Keeps(Push(f, Below))
<1>1. /\ Below \in Seq(Frames)
      /\ FramesOf(stack) = {Top} \union FramesOf(Below)
  BY PopFrames DEF TypeOK, FramesOK, Top, Below
<1>2. Keeps(Below)
  BY <1>1 DEF Keeps
<1>3. \A f \in Frames : FramesOf(Push(f, Below)) = {f} \union FramesOf(Below)
  BY <1>1, PushFrames
<1>4. \A f \in Frames : Keeps(Push(f, Below))
  BY <1>1, <1>3 DEF Keeps
<1> QED
  BY <1>1, <1>2, <1>4

LEMMA PopMoves ==
  ASSUME TypeOK, stack # << >>
  PROVE  /\ Top \in Frames
         /\ Below \in Seq(Frames)
         /\ FramesOf(stack) = {Top} \union FramesOf(Below)
         /\ \A f \in Frames : FramesOf(Push(f, Below)) = {f} \union FramesOf(Below)
<1>1. /\ Top \in Frames
      /\ Below \in Seq(Frames)
      /\ FramesOf(stack) = {Top} \union FramesOf(Below)
  BY PopFrames DEF TypeOK, FramesOK, Top, Below
<1>2. \A f \in Frames : FramesOf(Push(f, Below)) = {f} \union FramesOf(Below)
  BY <1>1, PushFrames
<1> QED
  BY <1>1, <1>2

-------------------------------------------------------------------------------
(* What the steps do to the parts *)

\* Jobs neither come nor go, nor do the functions that see to them.
LEMMA QuietMoves ==
  ASSUME Moves, Keeps(stack'),
         Active' = Active, QueuedJobs' = QueuedJobs, HasRun' <=> HasRun,
         UNCHANGED <<startQueued, idleAnnounced, shutDown>>
  PROVE  Moves'
<1>1. NoLostStart'
  BY DEF Moves, NoLostStart, WillSchedule, Keeps, Pending
<1>2. IdleAnnouncedOnce'
  BY DEF Moves, IdleAnnouncedOnce, NothingActive, Keeps, Pending
<1>3. ShutdownGoesOn'
  BY DEF Moves, ShutdownGoesOn, NothingActive, Keeps, Pending
<1> QED
  BY <1>1, <1>2, <1>3 DEF Moves

\* A shutdown that is under way stays so while jobs end.
LEMMA ShutdownStays ==
  ASSUME Moves, Keeps(stack'),
         Active' \subseteq Active, QueuedJobs' \subseteq QueuedJobs, HasRun' => HasRun,
         shutDown' = shutDown
  PROVE  ShutdownGoesOn'
<1>1. CASE ~shutDown
  BY <1>1 DEF ShutdownGoesOn
<1>2. CASE NothingActive
  BY <1>2 DEF NothingActive, ShutdownGoesOn
<1>3. CASE \E f \in FramesOf(stack) :
             \/ f.at = "shutdown" /\ QueuedJobs \subseteq f.rest
             \/ f.at = "shutdownWait" /\ QueuedJobs = {}
  <2>1. PICK f \in FramesOf(stack) : \/ f.at = "shutdown" /\ QueuedJobs \subseteq f.rest
                                     \/ f.at = "shutdownWait" /\ QueuedJobs = {}
    BY <1>3
  <2>2. f \in FramesOf(stack')
    BY <2>1 DEF Keeps, Pending
  <2> QED
    BY <2>1, <2>2 DEF ShutdownGoesOn
<1> QED
  BY <1>1, <1>2, <1>3 DEF Moves, ShutdownGoesOn

\* A job ends and jobFinished is being emitted: endJob() is going to schedule
\* the next start or to announce that there is none.
LEMMA EndMoves ==
  ASSUME Moves, NEW g \in FramesOf(stack'), g.at = "jobFinished",
         Active' \subseteq Active, QueuedJobs' \subseteq QueuedJobs, HasRun' => HasRun,
         UNCHANGED <<startQueued, idleAnnounced, shutDown>>,
         ShutdownGoesOn'
  PROVE  Moves'
<1>1. NoLostStart'
  BY DEF NoLostStart, WillSchedule
<1>2. IdleAnnouncedOnce'
  BY DEF Moves, IdleAnnouncedOnce, NothingActive
<1> QED
  BY <1>1, <1>2 DEF Moves

LEMMA EndJobEnds ==
  ASSUME TypeOK, NEW j \in JobIds, NEW e \in EndStates, NEW below \in Seq(Frames),
         EndJob(j, e, below)
  PROVE  /\ Active' = Active \ {j}
         /\ QueuedJobs' = QueuedJobs \ {j}
         /\ \E g \in FramesOf(stack') : g.at = "jobFinished"
         /\ FramesOf(below) \subseteq FramesOf(stack')
<1>1. \A i \in JobIds : state'[i] = IF i = j /\ IsActive(j) THEN e ELSE state[i]
  BY DEF EndJob, TypeOK, RecordsOK
<1>2. e \notin {"Queued", "Running"}
  BY DEF EndStates
<1>3. Active' = Active \ {j} /\ QueuedJobs' = QueuedJobs \ {j}
  BY <1>1, <1>2 DEF Active, QueuedJobs, IsActive, Queued
<1> DEFINE g == Finishing(j, SessionOfJob(j))
<1>4. g \in Frames /\ g.at = "jobFinished" /\ stack' = Push(g, below)
  BY FrameTypes DEF TypeOK, EndJob, Finishing
<1>5. FramesOf(stack') = {g} \union FramesOf(below)
  BY <1>4, PushFrames
<1> QED
  BY <1>3, <1>4, <1>5

LEMMA EndQueuedMoves ==
  ASSUME TypeOK, Moves, NEW j \in JobIds, NEW e \in EndStates, NEW below \in Seq(Frames),
         EndJob(j, e, below), UNCHANGED <<queueVars, run>>, Keeps(below)
  PROVE  Moves'
<1>1. /\ Active' \subseteq Active /\ QueuedJobs' \subseteq QueuedJobs
      /\ \E g \in FramesOf(stack') : g.at = "jobFinished"
      /\ Keeps(stack')
  BY EndJobEnds DEF Keeps
<1>2. UNCHANGED <<startQueued, idleAnnounced, shutDown>> /\ (HasRun' <=> HasRun)
  BY DEF queueVars, HasRun
<1> QED
  BY <1>1, <1>2, ShutdownStays, EndMoves

LEMMA FinishRunMoves ==
  ASSUME TypeOK, Moves, HasRun, NEW e \in EndStates, NEW below \in Seq(Frames),
         FinishRun(e, below), Keeps(below)
  PROVE  Moves'
<1>1. run.job \in JobIds
  BY DEF TypeOK, Runs, HasRun
<1>2. /\ Active' \subseteq Active /\ QueuedJobs' \subseteq QueuedJobs
      /\ \E g \in FramesOf(stack') : g.at = "jobFinished"
      /\ Keeps(stack')
  BY <1>1, EndJobEnds DEF FinishRun, Keeps
<1>3. UNCHANGED <<startQueued, idleAnnounced, shutDown>>
  BY DEF FinishRun, queueVars
<1> QED
  BY <1>2, <1>3, ShutdownStays, EndMoves

\* No job comes or goes.
LEMMA RecordsStay ==
  ASSUME state' = state
  PROVE  Active' = Active /\ QueuedJobs' = QueuedJobs
BY DEF Active, QueuedJobs, IsActive, Queued

LEMMA StackOnlyMoves ==
  ASSUME Moves, Keeps(stack'), UNCHANGED <<state, queueVars>>, run'.job = run.job
  PROVE  Moves'
BY RecordsStay, QuietMoves DEF queueVars, HasRun

\* Rows of finished jobs go.
LEMMA RowsGo ==
  ASSUME NEW S, \A j \in S : IsFinished(j), RemoveRows(S)
  PROVE  Active' = Active /\ QueuedJobs' = QueuedJobs
<1>1. \A j \in JobIds : \A v \in {"Queued", "Running"} : state'[j] = v <=> state[j] = v
  BY DEF RemoveRows, IsFinished, EndStates
<1> QED
  BY <1>1 DEF Active, QueuedJobs, IsActive, Queued

LEMMA RequestStopMoves ==
  ASSUME TypeOK, Moves, NEW e \in EndStates, NEW below \in Seq(Frames), Keeps(below),
         RequestStop(e, below)
  PROVE  Moves'
<1>1. Keeps(stack')
  <2>1. FramesOf(Push(Signal, below)) = {Signal} \union FramesOf(below)
    BY FrameTypes, PushFrames
  <2> QED
    BY <2>1 DEF RequestStop, Keeps
<1>2. run'.job = run.job
  BY DEF RequestStop, Stopped, TypeOK, Runs
<1> QED
  BY <1>1, <1>2, StackOnlyMoves DEF RequestStop

LEMMA StopRunIfRefusedMoves ==
  ASSUME TypeOK, Moves, NEW K, StopRunIfRefused(Marked(K))
  PROVE  Moves'
<1>1. Keeps(stack')
  BY FrameTypes, KeepsPush DEF StopRunIfRefused, Keeps
<1>2. run'.job = run.job
  BY DEF StopRunIfRefused, Stopped, Marked, TypeOK, Runs
<1> QED
  BY <1>1, <1>2, StackOnlyMoves DEF StopRunIfRefused

-------------------------------------------------------------------------------
(* The steps *)

LEMMA CancelJobMoves ==
  ASSUME TypeOK, Moves, NEW j \in JobIds, NEW below \in Seq(Frames), Keeps(below),
         CancelJob(j, below)
  PROVE  Moves'
BY EndQueuedMoves, RequestStopMoves DEF CancelJob, EndStates

\* A loop over a snapshot of queued jobs looks at one of them.
LEMMA EndQueuedOfMoves ==
  ASSUME TypeOK, Moves, NEW p \in {"cancelUnwanted", "sessionRows", "shutdown"}, TopIs(p),
         NEW e \in EndStates, EndQueuedOf(e)
  PROVE  Moves'
<1> DEFINE j == Oldest(Top.rest)
           next == [Top EXCEPT !.rest = @ \ {j}]
           loop == Push(next, Below)
<1>1. j \in JobIds /\ loop \in Seq(Frames)
  BY LoopType DEF EndQueuedOf, TypeOK
<1>2. /\ next \in Frames /\ next.at = Top.at /\ next.rest = Top.rest \ {j}
      /\ FramesOf(stack) = {Top} \union FramesOf(Below)
      /\ FramesOf(loop) = {next} \union FramesOf(Below)
  BY PopMoves DEF TopIs, Frames
<1>3. /\ UNCHANGED <<startQueued, idleAnnounced, shutDown>>
      /\ HasRun' <=> HasRun
      /\ FramesOf(loop) \subseteq FramesOf(stack')
      /\ Active' \subseteq Active /\ QueuedJobs' = QueuedJobs \ {j}
      /\ \/ \E g \in FramesOf(stack') : g.at = "jobFinished"
         \/ Active' = Active /\ QueuedJobs' = QueuedJobs
  <2>1. UNCHANGED <<startQueued, idleAnnounced, shutDown>> /\ (HasRun' <=> HasRun)
    BY DEF EndQueuedOf, queueVars, HasRun
  <2>2. CASE RecordReadsQueued(j)
    <3>1. EndJob(j, e, loop)
      BY <2>2 DEF EndQueuedOf
    <3> QED
      BY <1>1, <2>1, <3>1, EndJobEnds
  <2>3. CASE ~RecordReadsQueued(j)
    <3>1. stack' = loop /\ state' = state
      BY <2>3 DEF EndQueuedOf, modelVars
    <3>2. j \notin QueuedJobs
      BY <2>3 DEF RecordReadsQueued, QueuedJobs, Queued
    <3> QED
      BY <2>1, <3>1, <3>2, RecordsStay
  <2> QED
    BY <2>2, <2>3
<1>4. \A f \in FramesOf(stack) : f.at \in Pending /\ f.at # "shutdown" => f \in FramesOf(stack')
  BY <1>2, <1>3 DEF TopIs, Pending
<1>5. ShutdownGoesOn'
  <2>1. CASE ~shutDown \/ NothingActive
    BY <1>3, <2>1 DEF ShutdownGoesOn, NothingActive
  <2>2. ASSUME NEW f \in FramesOf(stack), f.at = "shutdown", QueuedJobs \subseteq f.rest
        PROVE  \E g \in FramesOf(stack') : g.at = "shutdown" /\ QueuedJobs' \subseteq g.rest
    <3>1. CASE f = Top
      BY <1>2, <1>3, <2>2, <3>1
    <3>2. CASE f \in FramesOf(Below)
      BY <1>2, <1>3, <2>2, <3>2
    <3> QED
      BY <1>2, <3>1, <3>2
  <2>3. ASSUME NEW f \in FramesOf(stack), f.at = "shutdownWait", QueuedJobs = {}
        PROVE  f \in FramesOf(stack') /\ QueuedJobs' = {}
    BY <1>3, <1>4, <2>3 DEF Pending
  <2> QED
    BY <2>1, <2>2, <2>3 DEF Moves, ShutdownGoesOn
<1>6. CASE \E g \in FramesOf(stack') : g.at = "jobFinished"
  BY <1>3, <1>5, <1>6, EndMoves
<1>7. CASE Active' = Active /\ QueuedJobs' = QueuedJobs
  <2>1. NoLostStart'
    BY <1>3, <1>4, <1>7 DEF Moves, NoLostStart, WillSchedule, Pending
  <2>2. IdleAnnouncedOnce'
    BY <1>3, <1>4, <1>7 DEF Moves, IdleAnnouncedOnce, NothingActive, Pending
  <2> QED
    BY <1>5, <2>1, <2>2 DEF Moves
<1> QED
  BY <1>3, <1>6, <1>7

LEMMA CallsMove ==
  ASSUME TypeOK, Moves, Calls
  PROVE  Moves'
<1> USE DEF Loops, Emissions
<1>0. stack \in Seq(Frames) /\ Keeps(stack)
  BY DEF TypeOK, FramesOK, Keeps
<1>1. ASSUME NEW k \in Keys, Request(k)
      PROVE  Moves'
  <2> DEFINE f == At("rowsInserted", nextId)
  <2>1. nextId \in JobIds
    BY <1>1 DEF Request, TypeOK, JobIds
  <2>2. Active' = Active \union {nextId} /\ QueuedJobs' = QueuedJobs \union {nextId}
    BY <1>1, <2>1 DEF Request, TypeOK, RecordsOK, Active, QueuedJobs, IsActive, Queued
  <2>3. f \in FramesOf(stack') /\ f.at = "rowsInserted" /\ f.job = nextId
    BY <1>1, <2>1, FrameTypes, KeepsPush DEF Request, At
  <2>4. NoLostStart'
    BY <2>2, <2>3 DEF NoLostStart, WillSchedule
  <2>5. IdleAnnouncedOnce'
    BY <1>1, <2>2 DEF Request, IdleAnnouncedOnce, NothingActive
  <2>6. ShutdownGoesOn'
    BY <1>1 DEF Request, ShutdownGoesOn
  <2> QED
    BY <2>4, <2>5, <2>6 DEF Moves
<1>2. ASSUME NEW j \in JobIds, Cancel(j)
      PROVE  Moves'
  BY <1>0, <1>2, CancelJobMoves DEF Cancel
<1>3. CASE CancelAll
  <2>1. PICK S : S \subseteq JobIds /\ stack' = Push(Over("cancelAll", S), stack)
    BY <1>3 DEF CancelAll, Active
  <2>2. Over("cancelAll", S) \in Frames
    BY <2>1, FrameTypes
  <2> QED
    BY <1>3, <2>1, <2>2, KeepsPush, StackOnlyMoves DEF CancelAll, modelVars
<1>4. CASE CancelUnwantedQueued
  <2>1. PICK S : S \subseteq JobIds /\ stack' = Push(Over("cancelUnwanted", S), stack)
    BY <1>4 DEF CancelUnwantedQueued, QueuedJobs
  <2>2. Over("cancelUnwanted", S) \in Frames
    BY <2>1, FrameTypes
  <2> QED
    BY <1>4, <2>1, <2>2, KeepsPush, StackOnlyMoves DEF CancelUnwantedQueued, modelVars
<1>5. CASE Shutdown
  <2> DEFINE f == Over("shutdown", QueuedJobs)
  <2>1. f \in Frames /\ f.at = "shutdown" /\ f.rest = QueuedJobs
    BY FrameTypes DEF Over, QueuedJobs
  <2>2. f \in FramesOf(stack') /\ Keeps(stack')
    BY <1>5, <2>1, KeepsPush DEF Shutdown
  <2>3. /\ Active' = Active /\ QueuedJobs' = QueuedJobs /\ (HasRun' <=> HasRun)
        /\ UNCHANGED <<startQueued, idleAnnounced>> /\ ~shutDown
    BY <1>5, RecordsStay DEF Shutdown, modelVars, HasRun
  <2>4. NoLostStart'
    BY <2>2, <2>3 DEF Moves, NoLostStart, WillSchedule, Keeps, Pending
  <2>5. IdleAnnouncedOnce'
    BY <2>2, <2>3 DEF Moves, IdleAnnouncedOnce, NothingActive, Keeps, Pending
  <2>6. ShutdownGoesOn'
    BY <2>1, <2>2, <2>3 DEF ShutdownGoesOn
  <2> QED
    BY <2>4, <2>5, <2>6 DEF Moves
<1>6. ASSUME NEW S \in SUBSET JobIds, RemoveFinished(S)
      PROVE  Moves'
  BY <1>0, <1>6, RowsGo, QuietMoves DEF RemoveFinished, queueVars, HasRun, Keeps
<1> QED
  BY <1>1, <1>2, <1>3, <1>4, <1>5, <1>6 DEF Calls

\* A record reads Running only while there is a run.
LEMMA NothingLeft ==
  ASSUME Inv, ~HasRun, QueuedJobs = {}
  PROVE  NothingActive
BY DEF Inv, Safe, OneWorker, HasRun, NoJob, JobIds, NothingActive, Active, QueuedJobs, IsActive, Queued

\* The rest of endJob() schedules a start or has nothing to start.
LEMMA AfterJobFinishedMoves ==
  ASSUME TypeOK, Moves, AfterJobFinished
  PROVE  Moves'
<1>1. \A f \in FramesOf(stack) : f.at \in Pending /\ f.at # "jobFinished" => f \in FramesOf(stack')
  <2>1. /\ FramesOf(stack) = {Top} \union FramesOf(Below)
        /\ FramesOf(Push(Signal, Below)) = {Signal} \union FramesOf(Below)
        /\ Top.at = "jobFinished"
    BY PopMoves, FrameTypes DEF AfterJobFinished, TopIs
  <2> QED
    BY <2>1 DEF AfterJobFinished
<1>2. \A j \in Trimmed : IsFinished(j)
  BY DEF Trimmed
<1>3. Active' = Active /\ QueuedJobs' = QueuedJobs
  BY <1>2, RowsGo DEF AfterJobFinished
<1>4. (HasRun' <=> HasRun) /\ shutDown' = shutDown
  BY DEF AfterJobFinished, HasRun
<1>5. ShutdownGoesOn'
  BY <1>1, <1>3, <1>4 DEF Moves, ShutdownGoesOn, NothingActive, Pending
<1>6. CASE ~IsIdle /\ ScheduleStart /\ idleAnnounced' = idleAnnounced
  <2>1. NoLostStart'
    BY <1>4, <1>6 DEF NoLostStart, ScheduleStart
  <2>2. IdleAnnouncedOnce'
    BY <1>3, <1>4, <1>6 DEF Moves, IdleAnnouncedOnce, NothingActive, IsIdle
  <2> QED
    BY <1>5, <2>1, <2>2 DEF Moves
<1>7. CASE IsIdle /\ idleAnnounced' = TRUE
  <2>1. NoLostStart'
    BY <1>3, <1>7 DEF NoLostStart, IsIdle, Active, QueuedJobs, IsActive, Queued
  <2>2. IdleAnnouncedOnce'
    BY <1>3, <1>4, <1>7 DEF IdleAnnouncedOnce, NothingActive, IsIdle
  <2> QED
    BY <1>5, <2>1, <2>2 DEF Moves
<1> QED
  BY <1>6, <1>7 DEF AfterJobFinished

\* The oldest queued job starts, or ends because it cannot be prepared.
LEMMA StartNextStepMoves ==
  ASSUME TypeOK, Moves, StartNextStep
  PROVE  Moves'
<1> USE DEF Loops, Emissions
<1>1. /\ FramesOf(stack) = {Top} \union FramesOf(Below)
      /\ Top.at = "startNext"
      /\ stack \in Seq(Frames) /\ Keeps(stack)
  BY PopMoves DEF StartNextStep, TopIs, TypeOK, FramesOK, Keeps
<1>2. CASE shutDown \/ HasRun \/ QueuedJobs = {}
  <2>1. /\ stack' = Below
        /\ Active' = Active /\ QueuedJobs' = QueuedJobs /\ (HasRun' <=> HasRun)
        /\ UNCHANGED <<startQueued, idleAnnounced, shutDown>>
    BY <1>2, RecordsStay DEF StartNextStep, modelVars, queueVars, HasRun
  <2>2. NoLostStart'
    BY <1>2, <2>1 DEF NoLostStart
  <2>3. IdleAnnouncedOnce'
    BY <1>1, <2>1 DEF Moves, IdleAnnouncedOnce, NothingActive
  <2>4. ShutdownGoesOn'
    BY <1>1, <2>1 DEF Moves, ShutdownGoesOn, NothingActive
  <2> QED
    BY <2>2, <2>3, <2>4 DEF Moves
<1>3. CASE ~(shutDown \/ HasRun \/ QueuedJobs = {})
  <2> DEFINE j == Oldest(QueuedJobs)
  <2>1. j \in JobIds /\ Queued(j)
    BY <1>3, OldestIsLeast DEF QueuedJobs
  <2>2. CASE EndJob(j, "Superseded", stack) /\ UNCHANGED <<queueVars, run, workerVars, sessionVars>>
    BY <1>1, <2>1, <2>2, EndQueuedMoves DEF EndStates
  <2>3. CASE /\ run' = NewRun(j)
             /\ state' = [state EXCEPT ![j] = "Running"]
             /\ UNCHANGED queueVars
    <3>1. HasRun' /\ Active # {} /\ ~shutDown' /\ idleAnnounced' = idleAnnounced
      BY <1>3, <2>1, <2>3 DEF HasRun, NewRun, NoJob, JobIds, Active, IsActive, Queued, queueVars
    <3>2. Active' # {}
      BY <2>1, <2>3 DEF Active, IsActive, TypeOK, RecordsOK
    <3> QED
      BY <3>1, <3>2 DEF Moves, NoLostStart, IdleAnnouncedOnce, NothingActive, ShutdownGoesOn
  <2> QED
    BY <1>3, <2>2, <2>3 DEF StartNextStep
<1> QED
  BY <1>2, <1>3

\* shutdown() ends what is queued, then stops the run and waits for it.
LEMMA ShutdownStepMoves ==
  ASSUME Inv, Moves, ShutdownStep
  PROVE  Moves'
<1> USE DEF Loops, Emissions
<1>0. TypeOK
  BY DEF Inv
<1>1. /\ Below \in Seq(Frames)
      /\ FramesOf(stack) = {Top} \union FramesOf(Below)
      /\ Top.at = "shutdown"
  BY <1>0, PopMoves DEF ShutdownStep, TopIs
<1>2. CASE EndQueuedOf("Cancelled")
  BY <1>0, <1>2, EndQueuedOfMoves DEF ShutdownStep, EndStates
<1>3. CASE Top.rest = {} /\ ~HasRun /\ stack' = Below
           /\ UNCHANGED <<modelVars, queueVars, run, workerVars, sessionVars>>
  <2>1. /\ Active' = Active /\ QueuedJobs' = QueuedJobs /\ (HasRun' <=> HasRun)
        /\ UNCHANGED <<startQueued, idleAnnounced, shutDown>>
    BY <1>3, RecordsStay DEF modelVars, queueVars, HasRun
  <2>2. NoLostStart'
    BY <1>1, <1>3, <2>1 DEF Moves, NoLostStart, WillSchedule
  <2>3. IdleAnnouncedOnce'
    BY <1>1, <1>3, <2>1 DEF Moves, IdleAnnouncedOnce, NothingActive
  <2>4. ShutdownGoesOn'
    <3>1. CASE QueuedJobs = {}
      BY <1>3, <2>1, <3>1, NothingLeft DEF ShutdownGoesOn, NothingActive
    <3>2. CASE QueuedJobs # {}
      BY <1>1, <1>3, <2>1, <3>2 DEF Moves, ShutdownGoesOn, NothingActive
    <3> QED
      BY <3>1, <3>2
  <2> QED
    BY <2>2, <2>3, <2>4 DEF Moves
<1>4. CASE Top.rest = {} /\ RequestStop("Cancelled", Push(At("shutdownWait", NoJob), Below))
  <2> DEFINE f == At("shutdownWait", NoJob)
  <2>1. f \in Frames /\ f.at = "shutdownWait"
    BY FrameTypes DEF At
  <2>2. Push(f, Below) \in Seq(Frames) /\ FramesOf(Push(f, Below)) = {f} \union FramesOf(Below)
    BY <1>1, <2>1, PushFrames
  <2>3. {f} \union FramesOf(Below) \subseteq FramesOf(stack')
    <3>1. FramesOf(Push(Signal, Push(f, Below))) = {Signal} \union FramesOf(Push(f, Below))
      BY <2>2, FrameTypes, PushFrames
    <3> QED
      BY <1>4, <2>2, <3>1 DEF RequestStop
  <2>4. /\ Active' = Active /\ QueuedJobs' = QueuedJobs /\ HasRun /\ HasRun'
        /\ UNCHANGED <<startQueued, idleAnnounced, shutDown>>
    BY <1>0, <1>4, RecordsStay DEF RequestStop, queueVars, HasRun, Stopped, TypeOK, Runs
  <2>5. NoLostStart' /\ IdleAnnouncedOnce'
    BY <2>4 DEF Moves, NoLostStart, IdleAnnouncedOnce, NothingActive
  <2>6. ShutdownGoesOn'
    <3>1. CASE QueuedJobs = {}
      BY <2>1, <2>3, <2>4, <3>1 DEF ShutdownGoesOn
    <3>2. CASE QueuedJobs # {}
      BY <1>1, <1>4, <2>3, <2>4, <3>2 DEF Moves, ShutdownGoesOn, NothingActive
    <3> QED
      BY <3>1, <3>2
  <2> QED
    BY <2>5, <2>6 DEF Moves
<1> QED
  BY <1>2, <1>3, <1>4 DEF ShutdownStep

LEMMA ShutdownWaitMoves ==
  ASSUME Inv, Moves, ShutdownWait
  PROVE  Moves'
<1>0. TypeOK
  BY DEF Inv
<1>1. /\ Below \in Seq(Frames)
      /\ FramesOf(stack) = {Top} \union FramesOf(Below)
      /\ Top.at = "shutdownWait"
  BY <1>0, PopMoves DEF ShutdownWait, TopIs
<1>2. run.job \in JobIds /\ Verdict \in EndStates /\ HasRun /\ FinishRun(Verdict, Below)
  BY <1>0, VerdictType DEF TypeOK, Runs, HasRun, ShutdownWait
<1>3. /\ Active' = Active \ {run.job} /\ QueuedJobs' = QueuedJobs \ {run.job}
      /\ \E g \in FramesOf(stack') : g.at = "jobFinished"
      /\ FramesOf(Below) \subseteq FramesOf(stack')
  BY <1>0, <1>1, <1>2, EndJobEnds DEF FinishRun
<1>4. ~HasRun' /\ UNCHANGED <<startQueued, idleAnnounced, shutDown>>
  BY <1>2 DEF FinishRun, queueVars, HasRun, NoRun
<1>5. ShutdownGoesOn'
  <2>1. CASE QueuedJobs = {}
    <3>1. \A j \in Active : j = run.job
      BY <2>1 DEF Inv, Safe, OneWorker, Active, QueuedJobs, IsActive, Queued
    <3> QED
      BY <1>3, <1>4, <3>1 DEF ShutdownGoesOn, NothingActive
  <2>2. CASE QueuedJobs # {}
    BY <1>1, <1>2, <1>3, <1>4, <2>2 DEF Moves, ShutdownGoesOn, NothingActive
  <2> QED
    BY <2>1, <2>2
<1> QED
  BY <1>3, <1>4, <1>5, EndMoves

LEMMA ResumeMoves ==
  ASSUME Inv, Moves, Resume
  PROVE  Moves'
<1> USE DEF Loops, Emissions
<1>0. TypeOK
  BY DEF Inv
<1>1. CASE AfterRowsInserted
  <2> DEFINE f == At("jobQueued", Top.job)
  <2>1. /\ Top \in Frames /\ Top.at = "rowsInserted"
        /\ FramesOf(stack) = {Top} \union FramesOf(Below)
        /\ f \in Frames /\ f.at = "jobQueued"
        /\ FramesOf(Push(f, Below)) = {f} \union FramesOf(Below)
    BY <1>0, <1>1, PopMoves, FrameTypes DEF AfterRowsInserted, TopIs, Frames, At
  <2>2. /\ Active' = Active /\ QueuedJobs' = QueuedJobs /\ (HasRun' <=> HasRun)
        /\ UNCHANGED <<startQueued, idleAnnounced, shutDown>>
    BY <1>1, RecordsStay DEF AfterRowsInserted, modelVars, queueVars, HasRun
  <2>3. FramesOf(Below) \subseteq FramesOf(stack') /\ (Top.job \in Active => f \in FramesOf(stack'))
    BY <1>1, <2>1 DEF AfterRowsInserted, Active
  <2>4. NoLostStart'
    BY <2>1, <2>2, <2>3 DEF Moves, NoLostStart, WillSchedule
  <2>5. IdleAnnouncedOnce'
    BY <2>1, <2>2, <2>3 DEF Moves, IdleAnnouncedOnce, NothingActive
  <2>6. ShutdownGoesOn'
    BY <2>1, <2>2, <2>3 DEF Moves, ShutdownGoesOn, NothingActive
  <2> QED
    BY <2>4, <2>5, <2>6 DEF Moves
<1>2. CASE AfterJobQueued
  <2>1. /\ Top.at = "jobQueued" /\ stack' = Below
        /\ FramesOf(stack) = {Top} \union FramesOf(Below)
    BY <1>0, <1>2, PopMoves DEF AfterJobQueued, TopIs
  <2>2. /\ Active' = Active /\ QueuedJobs' = QueuedJobs /\ (HasRun' <=> HasRun)
        /\ UNCHANGED <<idleAnnounced, shutDown>>
    BY <1>2, RecordsStay DEF AfterJobQueued, modelVars, HasRun
  <2>3. NoLostStart'
    <3>1. ScheduleStart /\ shutDown' = shutDown
      BY <1>2 DEF AfterJobQueued
    <3> QED
      BY <3>1 DEF NoLostStart, ScheduleStart
  <2>4. IdleAnnouncedOnce'
    BY <2>1, <2>2 DEF Moves, IdleAnnouncedOnce, NothingActive
  <2>5. ShutdownGoesOn'
    BY <2>1, <2>2 DEF Moves, ShutdownGoesOn, NothingActive
  <2> QED
    BY <2>3, <2>4, <2>5 DEF Moves
<1>3. CASE AfterJobStarted
  <2>1. Below \in Seq(Frames) /\ Keeps(Below)
    BY <1>0, <1>3, KeepsPop DEF AfterJobStarted, TopIs, Pending
  <2>2. CASE stack' = Below /\ UNCHANGED <<modelVars, queueVars, run>>
    BY <2>1, <2>2, StackOnlyMoves DEF modelVars
  <2>3. ASSUME NEW e \in EndStates, HasRun, FinishRun(e, Below)
        PROVE  Moves'
    BY <1>0, <2>1, <2>3, FinishRunMoves
  <2> QED
    BY <1>0, <1>3, <2>2, <2>3, VerdictType DEF AfterJobStarted, EndStates
<1>4. CASE AfterJobFinished
  BY <1>0, <1>4, AfterJobFinishedMoves
<1>5. CASE AfterSignal
  BY <1>0, <1>5, KeepsPop, StackOnlyMoves DEF AfterSignal, TopIs, Pending, modelVars
<1>6. CASE CancelAllStep
  <2>1. Below \in Seq(Frames) /\ Keeps(Below) /\ Top \in Frames
    BY <1>0, <1>6, KeepsPop, PopMoves DEF CancelAllStep, TopIs, Pending
  <2>2. CASE Top.rest = {}
    BY <1>6, <2>1, <2>2, StackOnlyMoves DEF CancelAllStep, modelVars
  <2>3. CASE Top.rest # {}
    <3> DEFINE j == Oldest(Top.rest)
               next == [Top EXCEPT !.rest = @ \ {j}]
               loop == Push(next, Below)
    <3>1. j \in JobIds /\ loop \in Seq(Frames)
      BY <1>0, <1>6, <2>3, LoopType DEF CancelAllStep, TypeOK
    <3>2. next \in Frames
      BY <2>1 DEF Frames
    <3>3. Keeps(loop)
      BY <1>0, <1>6, <3>2, KeepsPop DEF CancelAllStep, TopIs, Pending
    <3>4. CASE CancelJob(j, loop)
      BY <1>0, <3>1, <3>3, <3>4, CancelJobMoves
    <3>5. CASE stack' = loop /\ UNCHANGED <<modelVars, queueVars, run, workerVars, sessionVars>>
      BY <3>3, <3>5, StackOnlyMoves DEF modelVars
    <3> QED
      BY <1>6, <2>3, <3>4, <3>5 DEF CancelAllStep
  <2> QED
    BY <2>2, <2>3
<1>7. CASE CancelUnwantedStep
  <2>1. CASE EndQueuedOf("Cancelled")
    BY <1>0, <1>7, <2>1, EndQueuedOfMoves DEF CancelUnwantedStep, EndStates
  <2> QED
    BY <1>0, <1>7, <2>1, KeepsPop, StackOnlyMoves DEF CancelUnwantedStep, TopIs, Pending, modelVars
<1>8. CASE SessionRowsStep
  <2>1. Below \in Seq(Frames) /\ Keeps(Below)
    BY <1>0, <1>8, KeepsPop DEF SessionRowsStep, TopIs, Pending
  <2>2. CASE EndQueuedOf("Superseded")
    BY <1>0, <1>8, <2>2, EndQueuedOfMoves DEF SessionRowsStep, EndStates
  <2>3. CASE RequestStop("Superseded", Below)
    BY <1>0, <2>1, <2>3, RequestStopMoves DEF EndStates
  <2>4. CASE stack' = Below /\ UNCHANGED <<modelVars, queueVars, run, workerVars, sessionVars>>
    BY <2>1, <2>4, StackOnlyMoves DEF modelVars
  <2> QED
    BY <1>8, <2>2, <2>3, <2>4 DEF SessionRowsStep
<1> QED
  BY <1>0, <1>1, <1>2, <1>3, <1>4, <1>5, <1>6, <1>7, <1>8,
     ShutdownStepMoves, ShutdownWaitMoves, StartNextStepMoves DEF Resume

LEMMA EventsMove ==
  ASSUME Inv, Moves, Events
  PROVE  Moves'
<1> USE DEF Loops, Emissions
<1>0. TypeOK /\ stack \in Seq(Frames) /\ Keeps(stack)
  BY DEF Inv, TypeOK, FramesOK, Keeps
<1>1. CASE StartNext
  <2> DEFINE f == At("startNext", NoJob)
  <2>1. f.at = "startNext" /\ f \in FramesOf(stack') /\ Keeps(stack')
    BY <1>0, <1>1, FrameTypes, KeepsPush DEF StartNext, At
  <2>2. /\ Active' = Active /\ QueuedJobs' = QueuedJobs /\ (HasRun' <=> HasRun)
        /\ UNCHANGED <<idleAnnounced, shutDown>>
    BY <1>1, RecordsStay DEF StartNext, modelVars, HasRun
  <2>3. NoLostStart'
    BY <2>1 DEF NoLostStart, WillSchedule
  <2>4. IdleAnnouncedOnce'
    BY <2>1, <2>2 DEF Moves, IdleAnnouncedOnce, NothingActive, Keeps, Pending
  <2>5. ShutdownGoesOn'
    BY <2>1, <2>2, ShutdownStays
  <2> QED
    BY <2>3, <2>4, <2>5 DEF Moves
<1>2. ASSUME NEW j \in JobIds, OnProgress(j)
      PROVE  Moves'
  <2>1. Keeps(stack')
    BY <1>0, <1>2, FrameTypes, KeepsPush DEF OnProgress
  <2> QED
    BY <1>2, <2>1, StackOnlyMoves DEF OnProgress
<1>3. ASSUME NEW j \in JobIds, OnWorkerFinished(j)
      PROVE  Moves'
  <2>1. CASE run.job = j
    BY <1>0, <1>3, <2>1, FinishRunMoves, VerdictType DEF OnWorkerFinished, HasRun, NoJob, JobIds
  <2>2. CASE run.job # j
    <3>1. stack' = stack /\ UNCHANGED <<state, queueVars, run>>
      BY <1>3, <2>2 DEF OnWorkerFinished, modelVars
    <3> QED
      BY <1>0, <3>1, StackOnlyMoves DEF Keeps
  <2> QED
    BY <2>1, <2>2
<1> QED
  BY <1>1, <1>2, <1>3 DEF Events

LEMMA WorkerMoves ==
  ASSUME Moves, Worker
  PROVE  Moves'
<1>1. stack' = stack /\ UNCHANGED <<state, queueVars, run>>
  BY DEF Worker, WorkerReport, WorkerReturn, modelVars
<1> QED
  BY <1>1, StackOnlyMoves DEF Keeps

LEMMA SessionRowsChangedKeeps ==
  ASSUME TypeOK, NEW r, NEW L, SessionRowsChanged(r, L)
  PROVE  Keeps(stack')
<1> DEFINE f == Over("sessionRows", {j \in QueuedJobs : SessionOfJob(j) \notin L})
<1>1. f \in Frames
  BY FrameTypes DEF Loops, QueuedJobs
<1> QED
  BY <1>1, KeepsPush DEF SessionRowsChanged, Keeps

LEMMA SessionSideMoves ==
  ASSUME TypeOK, Moves, SessionSide
  PROVE  Moves'
<1>0. \A K : Marked(K).job = run.job
  BY DEF Marked, TypeOK, Runs
<1>1. ASSUME NEW K \in SUBSET Keys, EngineChange(K)
      PROVE  Moves'
  BY <1>1, StopRunIfRefusedMoves DEF EngineChange
<1>2. ASSUME NEW K \in SUBSET Keys, SilentChange(K)
      PROVE  Moves'
  BY <1>0, <1>2, StackOnlyMoves DEF SilentChange, modelVars, Keeps
<1>3. ASSUME NEW k \in Keys, RequestSynchronously(k)
      PROVE  Moves'
  BY <1>3, StackOnlyMoves DEF RequestSynchronously, modelVars, Keeps
<1>4. ASSUME NEW s \in Sessions, RemoveSession(s)
      PROVE  Moves'
  BY <1>0, <1>4, SessionRowsChangedKeeps, StackOnlyMoves DEF RemoveSession, modelVars
<1>5. ASSUME NEW s \in Sessions, ReplaceSession(s)
      PROVE  Moves'
  BY <1>0, <1>5, SessionRowsChangedKeeps, StackOnlyMoves DEF ReplaceSession, modelVars
<1>6. ASSUME NEW s \in Sessions, LoadSession(s)
      PROVE  Moves'
  BY <1>6, StackOnlyMoves DEF LoadSession, modelVars, Keeps
<1>7. ASSUME NEW s \in Sessions, EvictSession(s)
      PROVE  Moves'
  BY <1>0, <1>7, StackOnlyMoves DEF EvictSession, modelVars, Keeps
<1>8. CASE DestroySessionModel
  BY <1>8, StopRunIfRefusedMoves DEF DestroySessionModel
<1> QED
  BY <1>1, <1>2, <1>3, <1>4, <1>5, <1>6, <1>7, <1>8 DEF SessionSide

-------------------------------------------------------------------------------
LEMMA InitMoves ==
  ASSUME Init
  PROVE  Moves
BY DEF Init, Moves, NoLostStart, IdleAnnouncedOnce, ShutdownGoesOn, NothingActive, HasRun, NoRun,
       Active, QueuedJobs, IsActive, Queued

LEMMA NextMoves ==
  ASSUME Inv, Moves, [Next]_vars
  PROVE  Moves'
<1>1. TypeOK
  BY DEF Inv
<1>2. CASE UNCHANGED vars
  BY <1>2, StackOnlyMoves DEF vars, modelVars, Keeps
<1> QED
  BY <1>1, <1>2, CallsMove, ResumeMoves, EventsMove, WorkerMoves, SessionSideMoves DEF Next

\* Whatever its slots call, the queue starts what is queued, announces idle()
\* once when nothing is, and is empty, with no worker, after shutdown() returned.
\* (scheduleStart, startNext, endJob, shutdown)
THEOREM QueueAlwaysMoves == Spec => []QueueMoves
<1>1. Init => Moves
  BY InitMoves
<1>2. Inv /\ Moves /\ [Next]_vars => Moves'
  BY NextMoves
<1>3. Inv /\ Moves => QueueMoves
  <2>1. ASSUME Inv, Moves
        PROVE  ShutdownLeavesNothing
    BY <2>1 DEF Moves, ShutdownLeavesNothing, ShutdownGoesOn, NothingActive, HasRun, NoJob, JobIds,
                Inv, Safe, OneWorker
  <2> QED
    BY <2>1 DEF Moves, QueueMoves
<1> QED
  BY <1>1, <1>2, <1>3, QueueInvariant, PTL DEF Spec


-------------------------------------------------------------------------------
(* What a step does to the run *)

\* The run stays, and a pending end stays what it is.
RunGoesOn ==
  /\ run'.job = run.job
  /\ state'[run.job] = "Running"
  /\ run.end # NoEnd => run'.end = run.end

\* The run ends, as its verdict says unless no end was pending.
RunEnds ==
  /\ run' = NoRun
  /\ state'[run.job] = Verdict \/ run.end = NoEnd

RunSteps == RunGoesOn \/ RunEnds

LEMMA RunningRecord ==
  ASSUME Inv, HasRun
  PROVE  run.job \in JobIds /\ state[run.job] = "Running" /\ run \in Runs
BY DEF Inv, Safe, TypeOK, Runs, HasRun, OneWorker

LEMMA RunUntouched ==
  ASSUME Inv, HasRun, state' = state,
         run' = run \/ run' = [run EXCEPT !.refused = TRUE, !.current = FALSE]
  PROVE  RunSteps
BY RunningRecord DEF RunSteps, RunGoesOn, Runs

LEMMA EndQueuedRun ==
  ASSUME Inv, HasRun, NEW j \in JobIds, RecordReadsQueued(j), NEW e, NEW below,
         EndJob(j, e, below), run' = run
  PROVE  RunSteps
<1>1. j # run.job /\ run.job \in JobIds /\ state[run.job] = "Running"
  BY RunningRecord DEF RecordReadsQueued
<1>2. state'[run.job] = state[run.job]
  BY <1>1 DEF EndJob, Inv, TypeOK, RecordsOK
<1> QED
  BY <1>1, <1>2 DEF RunSteps, RunGoesOn

LEMMA FinishRunRun ==
  ASSUME Inv, HasRun, NEW e \in EndStates, e = Verdict \/ run.end = NoEnd, NEW below,
         FinishRun(e, below)
  PROVE  RunSteps
<1>1. state'[run.job] = e
  BY RunningRecord DEF FinishRun, EndJob, IsActive, Inv, TypeOK, RecordsOK
<1> QED
  BY <1>1 DEF FinishRun, RunSteps, RunEnds

LEMMA StopRun ==
  ASSUME Inv, HasRun, state' = state, NEW e, NEW r \in Runs,
         r = run \/ r = [run EXCEPT !.refused = TRUE, !.current = FALSE],
         run' = Stopped(r, e)
  PROVE  RunSteps
<1>1. r.job = run.job /\ r.end = run.end
  BY RunningRecord DEF Runs
<1>2. run'.job = run.job /\ (run.end # NoEnd => run'.end = run.end)
  BY <1>1 DEF Stopped, Runs
<1> QED
  BY <1>2, RunningRecord DEF RunSteps, RunGoesOn

LEMMA RequestStopRun ==
  ASSUME Inv, NEW e, NEW below, RequestStop(e, below)
  PROVE  RunSteps
BY RunningRecord, StopRun DEF RequestStop

LEMMA StopRunIfRefusedRun ==
  ASSUME Inv, HasRun, NEW K, StopRunIfRefused(Marked(K))
  PROVE  RunSteps
<1>1. Marked(K) \in Runs /\ (Marked(K) = run \/ Marked(K) = [run EXCEPT !.refused = TRUE, !.current = FALSE])
  BY MarkedType DEF Inv, Marked
<1>2. state' = state /\ (run' = Marked(K) \/ run' = Stopped(Marked(K), "Superseded"))
  BY DEF StopRunIfRefused
<1> QED
  BY <1>1, <1>2, RunUntouched, StopRun

LEMMA CancelJobRun ==
  ASSUME Inv, HasRun, NEW j \in JobIds, NEW below, CancelJob(j, below)
  PROVE  RunSteps
BY EndQueuedRun, RequestStopRun DEF CancelJob, Queued, RecordReadsQueued

LEMMA EndQueuedOfRun ==
  ASSUME Inv, HasRun, NEW p, TopIs(p), NEW e, EndQueuedOf(e)
  PROVE  RunSteps
<1>1. Oldest(Top.rest) \in JobIds
  BY LoopType DEF EndQueuedOf, Inv, TypeOK
<1> QED
  BY <1>1, EndQueuedRun, RunUntouched DEF EndQueuedOf, modelVars

LEMMA RemoveRowsRun ==
  ASSUME Inv, HasRun, NEW S, \A j \in S : IsFinished(j), RemoveRows(S), run' = run
  PROVE  RunSteps
<1>1. run.job \notin S
  BY RunningRecord DEF IsFinished, EndStates
<1>2. state'[run.job] = "Running"
  BY <1>1, RunningRecord DEF RemoveRows
<1> QED
  BY <1>2 DEF RunSteps, RunGoesOn

LEMMA CallsRun ==
  ASSUME Inv, HasRun, Calls
  PROVE  RunSteps
<1>1. ASSUME NEW k \in Keys, Request(k)
      PROVE  RunSteps
  <2>1. nextId \in JobIds /\ state[nextId] = "None"
    BY <1>1 DEF Request, Inv, Safe, TypeOK, IdsInOrder, JobIds
  <2>2. state'[run.job] = "Running"
    BY <1>1, <2>1, RunningRecord DEF Request, Inv, TypeOK, RecordsOK
  <2> QED
    BY <1>1, <2>2 DEF Request, RunSteps, RunGoesOn
<1>2. ASSUME NEW j \in JobIds, Cancel(j)
      PROVE  RunSteps
  BY <1>2, CancelJobRun DEF Cancel
<1>3. CASE CancelAll
  BY <1>3, RunUntouched DEF CancelAll, modelVars
<1>4. CASE CancelUnwantedQueued
  BY <1>4, RunUntouched DEF CancelUnwantedQueued, modelVars
<1>5. CASE Shutdown
  BY <1>5, RunUntouched DEF Shutdown, modelVars
<1>6. ASSUME NEW S \in SUBSET JobIds, RemoveFinished(S)
      PROVE  RunSteps
  BY <1>6, RemoveRowsRun DEF RemoveFinished
<1> QED
  BY <1>1, <1>2, <1>3, <1>4, <1>5, <1>6 DEF Calls

LEMMA ResumeRun ==
  ASSUME Inv, HasRun, Resume
  PROVE  RunSteps
<1>1. CASE AfterRowsInserted \/ AfterJobQueued \/ AfterSignal
  BY <1>1, RunUntouched DEF AfterRowsInserted, AfterJobQueued, AfterSignal, modelVars
<1>2. CASE AfterJobStarted
  <2>1. Verdict \in EndStates /\ "Failed" \in EndStates
    BY VerdictType DEF Inv, EndStates
  <2> QED
    BY <1>2, <2>1, RunUntouched, FinishRunRun DEF AfterJobStarted, modelVars
<1>3. CASE AfterJobFinished
  <2>1. \A j \in Trimmed : IsFinished(j)
    BY DEF Trimmed
  <2> QED
    BY <1>3, <2>1, RemoveRowsRun DEF AfterJobFinished
<1>4. CASE CancelAllStep
  <2>1. CASE state' = state /\ run' = run
    BY <2>1, RunUntouched
  <2>2. CASE /\ Top.rest # {}
             /\ CancelJob(Oldest(Top.rest), Push([Top EXCEPT !.rest = @ \ {Oldest(Top.rest)}], Below))
    <3>1. Oldest(Top.rest) \in JobIds
      BY <1>4, <2>2, LoopType DEF CancelAllStep, Inv, TypeOK
    <3> QED
      BY <2>2, <3>1, CancelJobRun
  <2> QED
    BY <1>4, <2>1, <2>2 DEF CancelAllStep, modelVars
<1>5. CASE CancelUnwantedStep
  BY <1>5, EndQueuedOfRun, RunUntouched DEF CancelUnwantedStep, modelVars
<1>6. CASE SessionRowsStep
  BY <1>6, EndQueuedOfRun, RequestStopRun, RunUntouched DEF SessionRowsStep, modelVars
<1>7. CASE ShutdownStep
  BY <1>7, EndQueuedOfRun, RequestStopRun, RunUntouched DEF ShutdownStep, modelVars
<1>8. CASE ShutdownWait
  BY <1>8, VerdictType, FinishRunRun DEF ShutdownWait, Inv
<1>9. CASE StartNextStep
  BY <1>9, RunUntouched DEF StartNextStep, modelVars
<1> QED
  BY <1>1, <1>2, <1>3, <1>4, <1>5, <1>6, <1>7, <1>8, <1>9 DEF Resume

LEMMA OthersRun ==
  ASSUME Inv, HasRun, Events \/ Worker \/ SessionSide
  PROVE  RunSteps
<1>1. CASE Events
  <2>1. CASE StartNext
    BY <2>1, RunUntouched DEF StartNext, modelVars
  <2>2. ASSUME NEW j \in JobIds, OnProgress(j)
        PROVE  RunSteps
    BY <2>2, RunUntouched DEF OnProgress
  <2>3. ASSUME NEW j \in JobIds, OnWorkerFinished(j)
        PROVE  RunSteps
    BY <2>3, VerdictType, RunUntouched, FinishRunRun DEF OnWorkerFinished, modelVars, Inv
  <2> QED
    BY <1>1, <2>1, <2>2, <2>3 DEF Events
<1>2. CASE Worker
  BY <1>2, RunUntouched DEF Worker, WorkerReport, WorkerReturn, modelVars
<1>3. CASE SessionSide
  <2>1. ASSUME NEW K \in SUBSET Keys, EngineChange(K)
        PROVE  RunSteps
    BY <2>1, StopRunIfRefusedRun DEF EngineChange
  <2>2. ASSUME NEW K \in SUBSET Keys, SilentChange(K)
        PROVE  RunSteps
    BY <2>2, RunUntouched DEF SilentChange, Marked, modelVars
  <2>3. ASSUME NEW k \in Keys, RequestSynchronously(k)
        PROVE  RunSteps
    BY <2>3, RunUntouched DEF RequestSynchronously, modelVars
  <2>4. ASSUME NEW s \in Sessions, RemoveSession(s) \/ ReplaceSession(s) \/ LoadSession(s) \/ EvictSession(s)
        PROVE  RunSteps
    BY <2>4, RunUntouched DEF RemoveSession, ReplaceSession, LoadSession, EvictSession, Marked, modelVars
  <2>5. CASE DestroySessionModel
    BY <2>5, StopRunIfRefusedRun DEF DestroySessionModel
  <2> QED
    BY <1>3, <2>1, <2>2, <2>3, <2>4, <2>5 DEF SessionSide
<1> QED
  BY <1>1, <1>2, <1>3

LEMMA RunStep ==
  ASSUME Inv, HasRun, [Next]_vars
  PROVE  RunSteps
<1>1. CASE UNCHANGED vars
  BY <1>1, RunUntouched DEF vars, modelVars
<1> QED
  BY <1>1, CallsRun, ResumeRun, OthersRun DEF Next

\* Cancel wins over a completed compute, for every order in which the request
\* to stop, the return of the worker and its posted event may come.
THEOREM CancelAlwaysWins == Spec => CancelWins
<1>1. Inv /\ [Next]_vars => [\A j \in cancelRequested : state'[j] # "Succeeded"]_vars
  <2> SUFFICES ASSUME Inv, [Next]_vars, NEW j \in cancelRequested
               PROVE  state'[j] # "Succeeded"
    OBVIOUS
  <2>1. HasRun /\ run.job = j /\ run.end # NoEnd /\ run.end # "Succeeded"
    BY DEF Inv, Safe, TypeOK, RecordsOK, StopIsRecorded, RunIsHonest, HasRun, NoJob, JobIds
  <2>2. Verdict = run.end
    BY <2>1 DEF Verdict
  <2> QED
    BY <2>1, <2>2, RunStep DEF RunSteps, RunGoesOn, RunEnds
<1> QED
  BY <1>1, QueueInvariant, PTL DEF Spec, CancelWins

\* Of several reasons to stop one run the first decides how its job ends.
THEOREM FirstStopAlwaysDecides == Spec => FirstStopDecides
<1> DEFINE Decides == HasRun /\ run.end # NoEnd =>
                        IF run'.job = run.job THEN run'.end = run.end ELSE state'[run.job] = run.end
<1>1. Inv /\ [Next]_vars => [Decides]_vars
  <2> SUFFICES ASSUME Inv, [Next]_vars, HasRun, run.end # NoEnd
               PROVE  IF run'.job = run.job THEN run'.end = run.end ELSE state'[run.job] = run.end
    OBVIOUS
  <2>1. Verdict = run.end
    BY DEF Verdict
  <2>2. run' = NoRun => run'.job # run.job
    BY DEF NoRun, HasRun
  <2> QED
    BY <2>1, <2>2, RunStep DEF RunSteps, RunGoesOn, RunEnds
<1> QED
  BY <1>1, QueueInvariant, PTL DEF Spec, FirstStopDecides

\* What a user or the program asked a run to do is not undone: not by a later
\* reason to stop and not by the result that was on its way.
\* (requestStop, finishRun)
THEOREM StopsAlwaysStand == Spec => StopsStand
BY CancelAlwaysWins, FirstStopAlwaysDecides DEF StopsStand

-------------------------------------------------------------------------------
(* The queue implements its lifecycle *)

LifecycleStep == [Lifecycle!Next]_(Lifecycle!vars)

LEMMA Stutter ==
  ASSUME UNCHANGED <<state, cancelRequested, shutDown>>
  PROVE  LifecycleStep
BY DEF LifecycleStep, Lifecycle!vars

\* A job that ended although its row was gone has not been seen to end.
LEMMA EndQueuedDrops ==
  ASSUME Inv, NEW j \in JobIds, RecordReadsQueued(j), NEW e \in {"Cancelled", "Superseded"},
         NEW below, EndJob(j, e, below), UNCHANGED queueVars
  PROVE  LifecycleStep
<1>1. j \notin cancelRequested
  BY DEF Inv, Safe, OneWorker, StopIsRecorded, RecordReadsQueued
<1>2. cancelRequested' = cancelRequested /\ shutDown' = shutDown
  BY <1>1 DEF EndJob, queueVars
<1>3. CASE state[j] = "Queued"
  <2>1. state' = [state EXCEPT ![j] = e]
    BY <1>3 DEF EndJob, IsActive
  <2>2. Lifecycle!Drop(j)
    BY <1>2, <1>3, <2>1 DEF Lifecycle!Drop
  <2> QED
    BY <2>2 DEF LifecycleStep, Lifecycle!Next, Lifecycle!Jobs, JobIds
<1>4. CASE state[j] = "Removed"
  <2>1. state' = state
    BY <1>4 DEF EndJob, IsActive, Inv, TypeOK, RecordsOK
  <2> QED
    BY <1>2, <2>1, Stutter
<1> QED
  BY <1>3, <1>4 DEF RecordReadsQueued

LEMMA FinishRunFinishes ==
  ASSUME Inv, HasRun, NEW e \in EndStates, e = Verdict \/ (e = "Failed" /\ run.end = NoEnd),
         NEW below, FinishRun(e, below)
  PROVE  LifecycleStep
<1> DEFINE j == run.job
<1>1. j \in JobIds /\ state[j] = "Running"
  BY RunningRecord
<1>2. state' = [state EXCEPT ![j] = e] /\ cancelRequested' = cancelRequested \ {j} /\ shutDown' = shutDown
  BY <1>1 DEF FinishRun, EndJob, IsActive, queueVars
<1>3. j \in cancelRequested => e # "Succeeded"
  <2>1. j \in cancelRequested => run.end # NoEnd /\ run.end # "Succeeded"
    BY <1>1 DEF Inv, Safe, StopIsRecorded, RunIsHonest
  <2> QED
    BY <2>1 DEF Verdict
<1>4. Lifecycle!Finish(j)
  BY <1>1, <1>2, <1>3 DEF Lifecycle!Finish, Lifecycle!Ended, EndStates
<1> QED
  BY <1>1, <1>4 DEF LifecycleStep, Lifecycle!Next, Lifecycle!Jobs, JobIds

LEMMA StopAsks ==
  ASSUME Inv, HasRun, UNCHANGED <<state, shutDown>>,
         cancelRequested' = cancelRequested \union {run.job}
  PROVE  LifecycleStep
<1>1. run.job \in JobIds /\ state[run.job] = "Running"
  BY RunningRecord
<1>2. Lifecycle!AskToStop(run.job)
  BY <1>1 DEF Lifecycle!AskToStop
<1> QED
  BY <1>1, <1>2 DEF LifecycleStep, Lifecycle!Next, Lifecycle!Jobs, JobIds

LEMMA RequestStopAsks ==
  ASSUME Inv, NEW e, NEW below, RequestStop(e, below)
  PROVE  LifecycleStep
BY StopAsks DEF RequestStop, queueVars

LEMMA StopRunIfRefusedAsks ==
  ASSUME Inv, NEW K, StopRunIfRefused(Marked(K))
  PROVE  LifecycleStep
<1>1. Marked(K).job = run.job
  BY DEF Marked, Inv, TypeOK, Runs
<1>2. UNCHANGED <<state, shutDown>>
  BY DEF StopRunIfRefused, queueVars
<1>3. CASE Marked(K).job # NoJob /\ Marked(K).refused /\ Marked(K).end = NoEnd
  BY <1>1, <1>2, <1>3, StopAsks DEF StopRunIfRefused, HasRun
<1>4. CASE ~(Marked(K).job # NoJob /\ Marked(K).refused /\ Marked(K).end = NoEnd)
  BY <1>2, <1>4, Stutter DEF StopRunIfRefused
<1> QED
  BY <1>3, <1>4

LEMMA RemoveRowsForgets ==
  ASSUME Inv, NEW S \in SUBSET JobIds, \A j \in S : IsFinished(j), RemoveRows(S),
         UNCHANGED <<cancelRequested, shutDown>>
  PROVE  LifecycleStep
<1>1. state' = [j \in JobIds |-> IF j \in S THEN "Removed" ELSE state[j]]
  BY DEF RemoveRows
<1>2. S \in SUBSET {j \in JobIds : state[j] \in EndStates}
  BY DEF IsFinished
<1>3. Lifecycle!Forget
  BY <1>1, <1>2 DEF Lifecycle!Forget, Lifecycle!Jobs, Lifecycle!Ended, JobIds, EndStates
<1> QED
  BY <1>3 DEF LifecycleStep, Lifecycle!Next

LEMMA CancelJobImplements ==
  ASSUME Inv, NEW j \in JobIds, NEW below, CancelJob(j, below)
  PROVE  LifecycleStep
BY EndQueuedDrops, RequestStopAsks DEF CancelJob, Queued, RecordReadsQueued

LEMMA EndQueuedOfImplements ==
  ASSUME Inv, NEW p, TopIs(p), NEW e \in {"Cancelled", "Superseded"}, EndQueuedOf(e)
  PROVE  LifecycleStep
<1>1. Oldest(Top.rest) \in JobIds
  BY LoopType DEF EndQueuedOf, Inv, TypeOK
<1> QED
  BY <1>1, EndQueuedDrops, Stutter DEF EndQueuedOf, modelVars, queueVars

LEMMA CallsImplement ==
  ASSUME Inv, Calls
  PROVE  LifecycleStep
<1>1. ASSUME NEW k \in Keys, Request(k)
      PROVE  LifecycleStep
  <2>1. nextId \in JobIds /\ state[nextId] = "None" /\ \A i \in JobIds : i < nextId => state[i] # "None"
    BY <1>1 DEF Request, Inv, Safe, TypeOK, IdsInOrder, JobIds
  <2>2. Lifecycle!Submit(nextId)
    BY <1>1, <2>1 DEF Request, Lifecycle!Submit, Lifecycle!Jobs, JobIds
  <2> QED
    BY <2>1, <2>2 DEF LifecycleStep, Lifecycle!Next, Lifecycle!Jobs, JobIds
<1>2. ASSUME NEW j \in JobIds, Cancel(j)
      PROVE  LifecycleStep
  BY <1>2, CancelJobImplements DEF Cancel
<1>3. CASE CancelAll
  BY <1>3, Stutter DEF CancelAll, modelVars, queueVars
<1>4. CASE CancelUnwantedQueued
  BY <1>4, Stutter DEF CancelUnwantedQueued, modelVars, queueVars
<1>5. CASE Shutdown
  <2>1. Lifecycle!Close
    BY <1>5 DEF Shutdown, modelVars, Lifecycle!Close
  <2> QED
    BY <2>1 DEF LifecycleStep, Lifecycle!Next
<1>6. ASSUME NEW S \in SUBSET JobIds, RemoveFinished(S)
      PROVE  LifecycleStep
  BY <1>6, RemoveRowsForgets DEF RemoveFinished, queueVars
<1> QED
  BY <1>1, <1>2, <1>3, <1>4, <1>5, <1>6 DEF Calls

LEMMA ResumeImplements ==
  ASSUME Inv, Resume
  PROVE  LifecycleStep
<1>1. CASE AfterRowsInserted \/ AfterJobQueued \/ AfterSignal
  BY <1>1, Stutter DEF AfterRowsInserted, AfterJobQueued, AfterSignal, modelVars, queueVars
<1>2. CASE AfterJobStarted
  <2>1. Verdict \in EndStates /\ "Failed" \in EndStates
    BY VerdictType DEF Inv, EndStates
  <2> QED
    BY <1>2, <2>1, Stutter, FinishRunFinishes DEF AfterJobStarted, modelVars, queueVars
<1>3. CASE AfterJobFinished
  <2>1. Trimmed \in SUBSET JobIds /\ \A j \in Trimmed : IsFinished(j)
    BY DEF Trimmed
  <2> QED
    BY <1>3, <2>1, RemoveRowsForgets DEF AfterJobFinished
<1>4. CASE CancelAllStep
  <2>1. CASE UNCHANGED <<modelVars, queueVars>>
    BY <2>1, Stutter DEF modelVars, queueVars
  <2>2. CASE /\ Top.rest # {}
             /\ CancelJob(Oldest(Top.rest), Push([Top EXCEPT !.rest = @ \ {Oldest(Top.rest)}], Below))
    <3>1. Oldest(Top.rest) \in JobIds
      BY <1>4, <2>2, LoopType DEF CancelAllStep, Inv, TypeOK
    <3> QED
      BY <2>2, <3>1, CancelJobImplements
  <2> QED
    BY <1>4, <2>1, <2>2 DEF CancelAllStep
<1>5. CASE CancelUnwantedStep
  BY <1>5, EndQueuedOfImplements, Stutter DEF CancelUnwantedStep, modelVars, queueVars
<1>6. CASE SessionRowsStep
  BY <1>6, EndQueuedOfImplements, RequestStopAsks, Stutter DEF SessionRowsStep, modelVars, queueVars
<1>7. CASE ShutdownStep
  BY <1>7, EndQueuedOfImplements, RequestStopAsks, Stutter DEF ShutdownStep, modelVars, queueVars
<1>8. CASE ShutdownWait
  BY <1>8, VerdictType, FinishRunFinishes DEF ShutdownWait, Inv
<1>9. CASE StartNextStep
  <2>1. CASE shutDown \/ HasRun \/ QueuedJobs = {}
    BY <1>9, <2>1, Stutter DEF StartNextStep, modelVars, queueVars
  <2>2. CASE ~(shutDown \/ HasRun \/ QueuedJobs = {})
    <3> DEFINE j == Oldest(QueuedJobs)
    <3>1. j \in JobIds /\ Queued(j) /\ \A i \in QueuedJobs : j <= i
      BY <2>2, OldestIsLeast DEF QueuedJobs
    <3>2. CASE EndJob(j, "Superseded", stack) /\ UNCHANGED queueVars
      BY <3>1, <3>2, EndQueuedDrops DEF Queued, RecordReadsQueued
    <3>3. CASE state' = [state EXCEPT ![j] = "Running"] /\ UNCHANGED <<cancelRequested, queueVars>>
      <4>1. \A i \in JobIds : state[i] # "Running" /\ (i < j => state[i] # "Queued")
        BY <2>2, <3>1 DEF QueuedJobs, Queued, Inv, Safe, OneWorker, HasRun, NoJob, JobIds
      <4>2. Lifecycle!Start(j)
        BY <2>2, <3>1, <3>3, <4>1 DEF Queued, queueVars, Lifecycle!Start, Lifecycle!Jobs, JobIds
      <4> QED
        BY <3>1, <4>2 DEF LifecycleStep, Lifecycle!Next, Lifecycle!Jobs, JobIds
    <3> QED
      BY <1>9, <2>2, <3>2, <3>3 DEF StartNextStep
  <2> QED
    BY <2>1, <2>2
<1> QED
  BY <1>1, <1>2, <1>3, <1>4, <1>5, <1>6, <1>7, <1>8, <1>9 DEF Resume

LEMMA OthersImplement ==
  ASSUME Inv, Events \/ Worker \/ SessionSide
  PROVE  LifecycleStep
<1> USE DEF modelVars, queueVars
<1>1. CASE Events
  <2>1. CASE StartNext
    BY <2>1, Stutter DEF StartNext
  <2>2. ASSUME NEW j \in JobIds, OnProgress(j)
        PROVE  LifecycleStep
    BY <2>2, Stutter DEF OnProgress
  <2>3. ASSUME NEW j \in JobIds, OnWorkerFinished(j)
        PROVE  LifecycleStep
    <3>1. run.job = j => HasRun
      BY DEF HasRun, NoJob, JobIds
    <3> QED
      BY <2>3, <3>1, VerdictType, Stutter, FinishRunFinishes DEF OnWorkerFinished, Inv
  <2> QED
    BY <1>1, <2>1, <2>2, <2>3 DEF Events
<1>2. CASE Worker
  BY <1>2, Stutter DEF Worker, WorkerReport, WorkerReturn
<1>3. CASE SessionSide
  <2>1. ASSUME NEW K \in SUBSET Keys, EngineChange(K)
        PROVE  LifecycleStep
    BY <2>1, StopRunIfRefusedAsks DEF EngineChange
  <2>2. ASSUME NEW K \in SUBSET Keys, SilentChange(K)
        PROVE  LifecycleStep
    BY <2>2, Stutter DEF SilentChange
  <2>3. ASSUME NEW k \in Keys, RequestSynchronously(k)
        PROVE  LifecycleStep
    BY <2>3, Stutter DEF RequestSynchronously
  <2>4. ASSUME NEW s \in Sessions, RemoveSession(s) \/ ReplaceSession(s) \/ LoadSession(s) \/ EvictSession(s)
        PROVE  LifecycleStep
    BY <2>4, Stutter DEF RemoveSession, ReplaceSession, LoadSession, EvictSession
  <2>5. CASE DestroySessionModel
    BY <2>5, StopRunIfRefusedAsks DEF DestroySessionModel
  <2> QED
    BY <1>3, <2>1, <2>2, <2>3, <2>4, <2>5 DEF SessionSide
<1> QED
  BY <1>1, <1>2, <1>3

\* Every behaviour of the queue, with whatever its slots, its worker and the
\* session model do, is one its users are promised by JobLifecycle.
THEOREM QueueImplementsLifecycle == Spec => ImplementsLifecycle
<1>1. Init => Lifecycle!Init
  BY DEF Init, Lifecycle!Init, Lifecycle!Jobs, JobIds
<1>2. Inv /\ [Next]_vars => [Lifecycle!Next]_(Lifecycle!vars)
  <2> SUFFICES ASSUME Inv, [Next]_vars
               PROVE  LifecycleStep
    BY DEF LifecycleStep
  <2>1. CASE UNCHANGED vars
    BY <2>1, Stutter DEF vars, modelVars, queueVars
  <2> QED
    BY <2>1, CallsImplement, ResumeImplements, OthersImplement DEF Next
<1> QED
  BY <1>1, <1>2, QueueInvariant, PTL DEF Spec, ImplementsLifecycle, Lifecycle!Spec

-------------------------------------------------------------------------------
(* Sessions are held *)

\* the pins a session owes to its active jobs
JobsOf(s) == {j \in Active : SessionOfJob(j) = s}

\* the frames of st that are still going to unpin the session
Owed(st, s) == {i \in 1..Len(st) : st[i].at = "jobFinished" /\ st[i].session = s}
Count(st, s) == Cardinality(Owed(st, s))

\* The session model takes its sessions with it.
NothingWithoutModel == ~alive => loaded = {}

\* A row that is gone reads as a default record.
RemovedRowsAreBlank == \A j \in JobIds : state[j] = "Removed" => key[j] = NoKey

PendingIsFlagged == run.end # NoEnd => run.flag

\* A job whose session was removed is in the snapshot that is being walked, or is
\* the run that is stopped after it.
OrphansAreSeen ==
  alive => \A j \in Active :
             \/ SessionLoaded(j)
             \/ j \in cancelRequested
             \/ \E f \in FramesOf(stack) : f.at = "sessionRows" /\ (j \in f.rest \/ run.job = j)

\* Each part of it is inductive relative to the others: eviction looks at the
\* pins, and whether a queued job is passed over decides which pins are owed.
Held ==
  /\ PinsBalanced
  /\ NothingWithoutModel
  /\ RemovedRowsAreBlank
  /\ PendingIsFlagged
  /\ OrphansAreSeen
  /\ StaleRunIsStopped

-------------------------------------------------------------------------------
(* Counting *)

\* Moving every index up by one moves no element out of the set.
LEMMA ShiftedCount ==
  ASSUME NEW S \in SUBSET Int, IsFiniteSet(S)
  PROVE  LET T == {i + 1 : i \in S} IN IsFiniteSet(T) /\ Cardinality(T) = Cardinality(S)
<1> DEFINE T == {i + 1 : i \in S}
           m == [i \in S |-> i + 1]
<1>1. m \in [S -> T]
  OBVIOUS
<1>2. \A a, b \in S : m[a] = m[b] => a = b
  OBVIOUS
<1>3. \A t \in T : \E i \in S : m[i] = t
  OBVIOUS
<1>4. m \in Bijection(S, T)
  BY <1>1, <1>2, <1>3 DEF Bijection, Injection, Surjection, IsInjective
<1>5. ExistsBijection(S, T)
  BY <1>4 DEF ExistsBijection
<1> QED
  BY <1>5, FS_Bijection

LEMMA OwedIsFinite ==
  ASSUME NEW st \in Seq(Frames), NEW s
  PROVE  /\ Owed(st, s) \in SUBSET Int
         /\ IsFiniteSet(Owed(st, s))
         /\ Count(st, s) \in Nat
<1>1. Len(st) \in Int
  BY LenProperties
<1>2. IsFiniteSet(1..Len(st))
  BY <1>1, FS_Interval
<1>3. Owed(st, s) \in SUBSET (1..Len(st))
  BY DEF Owed
<1>4. IsFiniteSet(Owed(st, s))
  BY <1>2, <1>3, FS_Subset
<1> QED
  BY <1>1, <1>3, <1>4, FS_CardinalityType DEF Count

\* A frame that is pushed owes a pin if it is about to signal the end of a job.
LEMMA CountPush ==
  ASSUME NEW st \in Seq(Frames), NEW f \in Frames, NEW s
  PROVE  Count(Push(f, st), s)
           = IF f.at = "jobFinished" /\ f.session = s THEN Count(st, s) + 1 ELSE Count(st, s)
<1> DEFINE U == Owed(st, s)
           V == Owed(Push(f, st), s)
           W == {i + 1 : i \in U}
<1>1. /\ Len(st) \in Nat
      /\ Len(Push(f, st)) = Len(st) + 1
      /\ \A i \in 1..(Len(st) + 1) : Push(f, st)[i] = IF i = 1 THEN f ELSE st[i - 1]
  BY PushFrames, LenProperties
<1>2. U \in SUBSET Int /\ IsFiniteSet(U) /\ Cardinality(U) \in Nat
  BY OwedIsFinite, FS_CardinalityType
<1>3. IsFiniteSet(W) /\ Cardinality(W) = Cardinality(U)
  BY <1>2, ShiftedCount
<1>4. 1 \notin W
  BY DEF Owed
<1>5. \A i \in V : i # 1 => i \in W
  <2>1. SUFFICES ASSUME NEW i \in V, i # 1
                 PROVE  i \in W
    OBVIOUS
  <2>2. i \in 1..(Len(st) + 1) /\ i - 1 \in 1..Len(st) /\ Push(f, st)[i] = st[i - 1]
    BY <1>1, <2>1 DEF Owed
  <2>3. i - 1 \in U /\ (i - 1) + 1 = i
    BY <2>1, <2>2 DEF Owed
  <2> QED
    BY <2>3
<1>6. W \subseteq V
  <2>1. SUFFICES ASSUME NEW i \in U
                 PROVE  i + 1 \in V
    OBVIOUS
  <2>2. i \in 1..Len(st) /\ i + 1 \in 1..(Len(st) + 1) /\ Push(f, st)[i + 1] = st[i]
    BY <1>1, <2>1 DEF Owed
  <2> QED
    BY <1>1, <2>1, <2>2 DEF Owed
<1>7. 1 \in V <=> f.at = "jobFinished" /\ f.session = s
  <2>1. 1 \in 1..(Len(st) + 1) /\ Push(f, st)[1] = f
    BY <1>1
  <2> QED
    BY <1>1, <2>1 DEF Owed
<1>8. CASE f.at = "jobFinished" /\ f.session = s
  <2>1. V = W \cup {1}
    BY <1>5, <1>6, <1>7, <1>8
  <2> QED
    BY <1>3, <1>4, <1>8, <2>1, FS_AddElement DEF Count
<1>9. CASE ~(f.at = "jobFinished" /\ f.session = s)
  <2>1. V = W
    BY <1>5, <1>6, <1>7, <1>9
  <2> QED
    BY <1>3, <1>9, <2>1 DEF Count
<1> QED
  BY <1>8, <1>9

LEMMA CountPop ==
  ASSUME TypeOK, stack # << >>, NEW s
  PROVE  /\ Count(Below, s) \in Nat
         /\ Count(stack, s)
              = IF Top.at = "jobFinished" /\ Top.session = s THEN Count(Below, s) + 1 ELSE Count(Below, s)
<1>1. Top \in Frames /\ Below \in Seq(Frames) /\ stack \in Seq(Frames)
  BY PopMoves DEF TypeOK, FramesOK
<1>2. stack = Push(Top, Below)
  BY <1>1, HeadTailProperties DEF Push, Top, Below
<1> QED
  BY <1>1, <1>2, CountPush, OwedIsFinite

LEMMA JobsOfIsFinite ==
  ASSUME NEW s
  PROVE  IsFiniteSet(JobsOf(s)) /\ Cardinality(JobsOf(s)) \in Nat
<1>1. IsFiniteSet(JobIds)
  BY ConstantsAssumption, FS_Interval DEF JobIds
<1>2. JobsOf(s) \in SUBSET JobIds
  BY DEF JobsOf, Active
<1> QED
  BY <1>1, <1>2, FS_Subset, FS_CardinalityType

\* What a session is pinned for.
LEMMA PinsAreOwed ==
  PinsBalanced <=> (alive => \A s \in Sessions : pins[s] = Cardinality(JobsOf(s)) + Count(stack, s))
BY DEF PinsBalanced, JobsOf, Count, Owed, Unpinning

-------------------------------------------------------------------------------
(* The stack *)

\* st owes the pins the stack owes.
OwesTheSame(st) == st \in Seq(Frames) /\ \A s \in Sessions : Count(st, s) = Count(stack, s)

\* The walk over a snapshot of orphans goes on in st, except for the jobs S.
RowsKept(st, S) ==
  \A f \in FramesOf(stack) : f.at = "sessionRows" =>
    \E g \in FramesOf(st) : g.at = "sessionRows" /\ f.rest \ S \subseteq g.rest

LEMMA StackHeld ==
  ASSUME TypeOK
  PROVE  OwesTheSame(stack) /\ \A S : RowsKept(stack, S)
BY DEF TypeOK, FramesOK, OwesTheSame, RowsKept

LEMMA PushHeld ==
  ASSUME NEW st, OwesTheSame(st), NEW f \in Frames, f.at # "jobFinished"
  PROVE  /\ OwesTheSame(Push(f, st))
         /\ FramesOf(Push(f, st)) = {f} \union FramesOf(st)
         /\ \A S : RowsKept(st, S) => RowsKept(Push(f, st), S)
<1>1. st \in Seq(Frames)
  BY DEF OwesTheSame
<1>2. Push(f, st) \in Seq(Frames) /\ FramesOf(Push(f, st)) = {f} \union FramesOf(st)
  BY <1>1, PushFrames
<1>3. \A s \in Sessions : Count(Push(f, st), s) = Count(st, s)
  BY <1>1, CountPush
<1>4. OwesTheSame(Push(f, st))
  BY <1>2, <1>3 DEF OwesTheSame
<1>5. \A S : RowsKept(st, S) => RowsKept(Push(f, st), S)
  BY <1>2 DEF RowsKept
<1> QED
  BY <1>2, <1>4, <1>5

LEMMA PopHeld ==
  ASSUME TypeOK, stack # << >>, Top.at # "jobFinished"
  PROVE  /\ OwesTheSame(Below)
         /\ Top.at # "sessionRows" => \A S : RowsKept(Below, S)
<1>1. Below \in Seq(Frames) /\ FramesOf(stack) = {Top} \union FramesOf(Below)
  BY PopMoves
<1>2. \A s \in Sessions : Count(Below, s) = Count(stack, s)
  BY CountPop
<1>3. OwesTheSame(Below)
  BY <1>1, <1>2 DEF OwesTheSame
<1>4. Top.at # "sessionRows" => \A S : RowsKept(Below, S)
  BY <1>1 DEF RowsKept
<1> QED
  BY <1>3, <1>4

\* A loop goes on with the rest of its snapshot.
LEMMA LoopHeld ==
  ASSUME TypeOK, stack # << >>, Top.at # "jobFinished", Top.rest # {}
  PROVE  LET j == Oldest(Top.rest)
             loop == Push([Top EXCEPT !.rest = @ \ {j}], Below)
         IN  /\ j \in JobIds /\ j \in Top.rest
             /\ OwesTheSame(loop)
             /\ RowsKept(loop, {j})
             /\ Top.at # "sessionRows" => RowsKept(loop, {})
<1> DEFINE j == Oldest(Top.rest)
           next == [Top EXCEPT !.rest = @ \ {j}]
           loop == Push(next, Below)
<1>1. Top \in Frames /\ FramesOf(stack) = {Top} \union FramesOf(Below)
  BY PopMoves
<1>2. Top.rest \in SUBSET JobIds
  BY <1>1 DEF Frames
<1>3. j \in Top.rest /\ j \in JobIds
  BY <1>2, OldestIsLeast
<1>4. next \in Frames /\ next.at = Top.at /\ next.rest = Top.rest \ {j}
  BY <1>1 DEF Frames
<1>5. OwesTheSame(loop) /\ FramesOf(loop) = {next} \union FramesOf(Below)
  BY <1>4, PopHeld, PushHeld
<1>6. RowsKept(loop, {j})
  BY <1>1, <1>4, <1>5 DEF RowsKept
<1>7. Top.at # "sessionRows" => RowsKept(loop, {})
  BY <1>1, <1>5 DEF RowsKept
<1> QED
  BY <1>3, <1>5, <1>6, <1>7

-------------------------------------------------------------------------------
(* What the steps do to the parts *)

\* Jobs neither come nor go and no pin is taken or given back.
LEMMA QuietPins ==
  ASSUME PinsBalanced, OwesTheSame(stack'), UNCHANGED <<pins, alive>>,
         \A s \in Sessions : JobsOf(s)' = JobsOf(s)
  PROVE  PinsBalanced'
<1>1. \A s \in Sessions : Count(stack', s) = Count(stack, s)
  BY DEF OwesTheSame
<1>2. \A s \in Sessions : pins'[s] = Cardinality(JobsOf(s)') + Count(stack', s)  \/ ~alive
  BY <1>1, PinsAreOwed
<1> QED
  BY <1>2, PinsAreOwed DEF PinsBalanced, JobsOf, Count, Owed, Unpinning

LEMMA RecordsHeld ==
  ASSUME UNCHANGED <<state, key>>
  PROVE  /\ Active' = Active
         /\ \A j \in JobIds : SessionOfJob(j)' = SessionOfJob(j)
         /\ \A s : JobsOf(s)' = JobsOf(s)
BY DEF Active, IsActive, SessionOfJob, JobsOf

\* The jobs that have lost their session are still seen to.
LEMMA SeenStays ==
  ASSUME OrphansAreSeen, NEW S, RowsKept(stack', S),
         alive' => alive, loaded \subseteq loaded',
         \A j \in Active' : /\ j \in Active
                            /\ SessionOfJob(j)' = SessionOfJob(j)
                            /\ j \in S => run.job = j
                            /\ j \in cancelRequested => j \in cancelRequested'
                            /\ run.job = j => run'.job = j
  PROVE  OrphansAreSeen'
<1>1. SUFFICES ASSUME alive', NEW j \in Active'
               PROVE  \/ SessionLoaded(j)'
                      \/ j \in cancelRequested'
                      \/ \E f \in FramesOf(stack') : f.at = "sessionRows" /\ (j \in f.rest \/ run'.job = j)
  BY DEF OrphansAreSeen
<1>2. CASE SessionLoaded(j)
  BY <1>1, <1>2 DEF SessionLoaded
<1>3. CASE j \in cancelRequested
  BY <1>1, <1>3
<1>4. ASSUME NEW f \in FramesOf(stack), f.at = "sessionRows", j \in f.rest \/ run.job = j
      PROVE  \E g \in FramesOf(stack') : g.at = "sessionRows" /\ (j \in g.rest \/ run'.job = j)
  <2>1. PICK g \in FramesOf(stack') : g.at = "sessionRows" /\ f.rest \ S \subseteq g.rest
    BY <1>4 DEF RowsKept
  <2>2. j \in g.rest \/ run'.job = j
    BY <1>1, <1>4, <2>1
  <2> QED
    BY <2>1, <2>2
<1> QED
  BY <1>1, <1>2, <1>3, <1>4 DEF OrphansAreSeen

\* The run that computes on changed inputs is still seen to.
LEMMA StaleStays ==
  ASSUME StaleRunIsStopped, NEW S, RowsKept(stack', S),
         HasRun' => HasRun /\ (run'.refused => run.refused) /\ (run.end # NoEnd => run'.end # NoEnd)
  PROVE  StaleRunIsStopped'
<1>1. (\E f \in FramesOf(stack) : f.at = "sessionRows") => \E g \in FramesOf(stack') : g.at = "sessionRows"
  BY DEF RowsKept
<1> QED
  BY <1>1 DEF StaleRunIsStopped

\* A step that leaves the records alone.
LEMMA QuietHeld ==
  ASSUME Held, OwesTheSame(stack'), NEW S, RowsKept(stack', S),
         UNCHANGED <<state, key, pins, alive>>,
         loaded \subseteq loaded', alive \/ loaded' = loaded,
         cancelRequested \subseteq cancelRequested',
         run'.job = run.job, PendingIsFlagged',
         \A j \in S : IsActive(j) => run.job = j,
         StaleRunIsStopped'
  PROVE  Held'
<1>1. PinsBalanced'
  BY RecordsHeld, QuietPins DEF Held
<1>2. NothingWithoutModel' /\ RemovedRowsAreBlank'
  BY DEF Held, NothingWithoutModel, RemovedRowsAreBlank
<1>3. Active' = Active /\ \A j \in JobIds : SessionOfJob(j)' = SessionOfJob(j)
  BY RecordsHeld
<1>4. OrphansAreSeen'
  BY <1>3, SeenStays DEF Held, Active
<1> QED
  BY <1>1, <1>2, <1>4 DEF Held

\* A step that concerns neither the records nor the sessions nor the run.
LEMMA StackOnlyHeld ==
  ASSUME Held, OwesTheSame(stack'), NEW S, RowsKept(stack', S),
         UNCHANGED <<state, key, cancelRequested, run, pins, alive, loaded>>,
         \A j \in S : IsActive(j) => run.job = j
  PROVE  Held'
<1>1. StaleRunIsStopped'
  BY StaleStays DEF Held, HasRun
<1>2. PendingIsFlagged'
  BY DEF Held, PendingIsFlagged
<1> QED
  BY <1>1, <1>2, QuietHeld

\* A job ends: what it was pinned for, it is going to be unpinned for.
LEMMA EndPins ==
  ASSUME TypeOK, PinsBalanced, NEW j \in JobIds, NEW e \in EndStates, NEW below,
         OwesTheSame(below), EndJob(j, e, below), IsActive(j) \/ key[j] = NoKey,
         UNCHANGED <<pins, alive>>
  PROVE  PinsBalanced'
<1> DEFINE g == Finishing(j, SessionOfJob(j))
<1>1. below \in Seq(Frames) /\ \A s \in Sessions : Count(below, s) = Count(stack, s)
  BY DEF OwesTheSame
<1>2. /\ g \in Frames /\ g.at = "jobFinished" /\ g.session = SessionOfJob(j)
      /\ stack' = Push(g, below)
  BY FrameTypes DEF TypeOK, EndJob, Finishing
<1>3. Active' = Active \ {j}
  BY <1>1, EndJobEnds
<1>4. \A i \in JobIds : SessionOfJob(i)' = SessionOfJob(i)
  BY DEF EndJob, SessionOfJob
<1>5. \A s \in Sessions : JobsOf(s)' = JobsOf(s) \ {j}
  BY <1>3, <1>4 DEF JobsOf, Active
<1>6. \A s \in Sessions : Cardinality(JobsOf(s)') + Count(stack', s) = Cardinality(JobsOf(s)) + Count(stack, s)
  <2>1. SUFFICES ASSUME NEW s \in Sessions
                 PROVE  Cardinality(JobsOf(s)') + Count(stack', s) = Cardinality(JobsOf(s)) + Count(stack, s)
    OBVIOUS
  <2>2. Count(stack', s) = IF SessionOfJob(j) = s THEN Count(stack, s) + 1 ELSE Count(stack, s)
    BY <1>1, <1>2, CountPush
  <2>3. Cardinality(JobsOf(s)') = IF j \in JobsOf(s) THEN Cardinality(JobsOf(s)) - 1 ELSE Cardinality(JobsOf(s))
    BY <1>5, JobsOfIsFinite, FS_RemoveElement
  <2>4. j \in JobsOf(s) <=> SessionOfJob(j) = s
    BY ConstantsAssumption DEF JobsOf, Active, SessionOfJob
  <2>5. Cardinality(JobsOf(s)) \in Nat /\ Count(stack, s) \in Nat
    BY <1>1, JobsOfIsFinite, OwedIsFinite
  <2> QED
    BY <2>2, <2>3, <2>4, <2>5
<1>7. \A s \in Sessions : pins'[s] = Cardinality(JobsOf(s)') + Count(stack', s)  \/ ~alive
  BY <1>6, PinsAreOwed
<1> QED
  BY <1>7 DEF PinsBalanced, JobsOf, Count, Owed, Unpinning

\* The run ends with its job or it goes on.
LEMMA EndHeld ==
  ASSUME Inv, Held, NEW j \in JobIds, NEW e \in EndStates, NEW below,
         OwesTheSame(below), RowsKept(below, {j}), EndJob(j, e, below),
         IsActive(j) \/ state[j] = "Removed",
         run' = run \/ (run.job = j /\ run' = NoRun),
         UNCHANGED <<pins, alive, loaded>>
  PROVE  Held'
<1>0. TypeOK
  BY DEF Inv
<1>1. PinsBalanced'
  BY <1>0, EndPins DEF Held, RemovedRowsAreBlank
<1>2. NothingWithoutModel' /\ PendingIsFlagged'
  BY DEF Held, NothingWithoutModel, PendingIsFlagged, NoRun
<1>3. RemovedRowsAreBlank'
  BY <1>0 DEF Held, RemovedRowsAreBlank, EndJob, EndStates, TypeOK, RecordsOK
<1>4. below \in Seq(Frames)
  BY DEF OwesTheSame
<1>5. Active' = Active \ {j} /\ FramesOf(below) \subseteq FramesOf(stack')
  BY <1>0, <1>4, EndJobEnds
<1>6. RowsKept(stack', {j})
  BY <1>5 DEF RowsKept
<1>7. \A i \in JobIds : SessionOfJob(i)' = SessionOfJob(i)
  BY DEF EndJob, SessionOfJob
<1>8. \A i \in Active' : /\ i \in Active /\ i # j
                         /\ SessionOfJob(i)' = SessionOfJob(i)
                         /\ i \in cancelRequested => i \in cancelRequested'
                         /\ run.job = i => run'.job = i
  BY <1>5, <1>7 DEF Active, EndJob
<1>9. OrphansAreSeen'
  BY <1>6, <1>8, SeenStays DEF Held
<1>10. StaleRunIsStopped'
  BY <1>6, StaleStays DEF Held, HasRun, NoRun
<1> QED
  BY <1>1, <1>2, <1>3, <1>9, <1>10 DEF Held

LEMMA FinishRunHeld ==
  ASSUME Inv, Held, HasRun, NEW e \in EndStates, NEW below,
         OwesTheSame(below), RowsKept(below, {}), FinishRun(e, below)
  PROVE  Held'
<1>1. run.job \in JobIds /\ IsActive(run.job)
  BY DEF Inv, Safe, TypeOK, Runs, HasRun, OneWorker, IsActive
<1>2. RowsKept(below, {run.job})
  BY DEF RowsKept
<1>3. EndJob(run.job, e, below) /\ run' = NoRun /\ UNCHANGED <<pins, alive, loaded>>
  BY DEF FinishRun
<1> QED
  BY <1>1, <1>2, <1>3, EndHeld

LEMMA RequestStopHeld ==
  ASSUME TypeOK, Held, NEW e \in EndStates, NEW below,
         OwesTheSame(below), RowsKept(below, {}), RequestStop(e, below), UNCHANGED sessionVars
  PROVE  Held'
<1> USE DEF Emissions
<1>1. OwesTheSame(stack') /\ RowsKept(stack', {})
  <2>1. Signal \in Frames /\ Signal.at # "jobFinished"
    BY FrameTypes DEF Signal, At
  <2>2. OwesTheSame(Push(Signal, below)) /\ RowsKept(Push(Signal, below), {})
    BY <2>1, PushHeld
  <2> QED
    BY <2>2 DEF RequestStop
<1>2. run'.job = run.job /\ run'.end # NoEnd /\ run'.flag
  BY DEF RequestStop, Stopped, TypeOK, Runs, EndStates, NoEnd
<1>3. PendingIsFlagged' /\ StaleRunIsStopped'
  BY <1>2 DEF PendingIsFlagged, StaleRunIsStopped
<1> QED
  BY <1>1, <1>2, <1>3, QuietHeld DEF RequestStop, sessionVars

\* The engine marks the ticket and the queue stops the run in one step.
LEMMA RefusedIsStopped ==
  ASSUME TypeOK, Held, NEW K, StopRunIfRefused(Marked(K))
  PROVE  /\ run'.job = run.job
         /\ PendingIsFlagged'
         /\ StaleRunIsStopped'
         /\ OwesTheSame(stack') /\ RowsKept(stack', {})
         /\ UNCHANGED <<state, key>> /\ cancelRequested \subseteq cancelRequested'
<1> USE DEF Emissions
<1>1. OwesTheSame(stack') /\ RowsKept(stack', {})
  <2>1. Signal \in Frames /\ Signal.at # "jobFinished"
    BY FrameTypes DEF Signal, At
  <2>2. OwesTheSame(Push(Signal, stack)) /\ RowsKept(Push(Signal, stack), {})
    BY <2>1, StackHeld, PushHeld
  <2> QED
    BY <2>2, StackHeld DEF StopRunIfRefused
<1>2. Marked(K) \in Runs /\ Marked(K).job = run.job /\ Marked(K).end = run.end /\ Marked(K).flag = run.flag
  BY DEF Marked, TypeOK, Runs
<1>3. /\ run' \in Runs /\ run'.job = run.job
      /\ run'.end # NoEnd => run'.flag
      /\ HasRun' /\ run'.refused => run'.end # NoEnd
  BY <1>2 DEF StopRunIfRefused, Stopped, Runs, Held, PendingIsFlagged, HasRun, NoEnd, EndStates
<1>4. PendingIsFlagged' /\ StaleRunIsStopped'
  BY <1>3 DEF PendingIsFlagged, StaleRunIsStopped
<1> QED
  BY <1>1, <1>3, <1>4 DEF StopRunIfRefused

\* Rows of finished jobs go.
LEMMA RowsHeld ==
  ASSUME TypeOK, Held, NEW S, \A j \in S : IsFinished(j), RemoveRows(S)
  PROVE  /\ Active' = Active
         /\ \A j \in Active : SessionOfJob(j)' = SessionOfJob(j)
         /\ \A s : JobsOf(s)' = JobsOf(s)
         /\ RemovedRowsAreBlank'
<1>1. Active' = Active
  BY RowsGo
<1>2. \A j \in Active : j \notin S
  BY DEF Active, IsActive, IsFinished, EndStates
<1>3. \A j \in Active : SessionOfJob(j)' = SessionOfJob(j)
  BY <1>2 DEF RemoveRows, SessionOfJob, Active
<1>4. \A s : JobsOf(s)' = JobsOf(s)
  BY <1>1, <1>3 DEF JobsOf
<1>5. RemovedRowsAreBlank'
  BY DEF RemoveRows, Held, RemovedRowsAreBlank
<1> QED
  BY <1>1, <1>3, <1>4, <1>5

-------------------------------------------------------------------------------
(* The steps *)

LEMMA CancelJobHeld ==
  ASSUME Inv, Held, NEW j \in JobIds, NEW below, OwesTheSame(below), RowsKept(below, {}),
         CancelJob(j, below)
  PROVE  Held'
<1>1. CASE Queued(j) /\ EndJob(j, "Cancelled", below) /\ UNCHANGED <<queueVars, run, workerVars, sessionVars>>
  <2>1. RowsKept(below, {j})
    BY DEF RowsKept
  <2>2. "Cancelled" \in EndStates /\ IsActive(j)
    BY <1>1 DEF EndStates, IsActive, Queued
  <2> QED
    BY <1>1, <2>1, <2>2, EndHeld DEF sessionVars
<1>2. CASE RequestStop("Cancelled", below) /\ UNCHANGED sessionVars
  BY <1>2, RequestStopHeld DEF EndStates, Inv
<1> QED
  BY <1>1, <1>2 DEF CancelJob

\* A job of a snapshot that is passed over has a session or runs.
LEMMA EndQueuedOfHeld ==
  ASSUME Inv, Held, stack # << >>, Top.at # "jobFinished", NEW e \in EndStates, EndQueuedOf(e)
  PROVE  Held'
<1> DEFINE j == Oldest(Top.rest)
           loop == Push([Top EXCEPT !.rest = @ \ {j}], Below)
<1>1. j \in JobIds /\ OwesTheSame(loop) /\ RowsKept(loop, {j})
  BY LoopHeld DEF EndQueuedOf, Inv
<1>2. CASE RecordReadsQueued(j)
  <2>1. EndJob(j, e, loop) /\ (IsActive(j) \/ state[j] = "Removed")
    BY <1>2 DEF EndQueuedOf, RecordReadsQueued, IsActive
  <2>2. run' = run /\ UNCHANGED <<pins, alive, loaded>>
    BY DEF EndQueuedOf, sessionVars
  <2> QED
    BY <1>1, <2>1, <2>2, EndHeld
<1>3. CASE ~RecordReadsQueued(j)
  <2>1. stack' = loop /\ UNCHANGED <<state, key, cancelRequested, run, pins, alive, loaded>>
    BY <1>3 DEF EndQueuedOf, modelVars, sessionVars
  <2>2. \A i \in {j} : IsActive(i) => run.job = i
    BY <1>1, <1>3 DEF RecordReadsQueued, IsActive, Inv, Safe, OneWorker
  <2>3. PICK S : S = {j}
    OBVIOUS
  <2>4. OwesTheSame(stack') /\ RowsKept(stack', S) /\ \A i \in S : IsActive(i) => run.job = i
    BY <1>1, <2>1, <2>2, <2>3
  <2> QED
    BY <2>1, <2>4, StackOnlyHeld
<1> QED
  BY <1>2, <1>3

LEMMA RequestHeld ==
  ASSUME Inv, Held, NEW k \in Keys, Request(k)
  PROVE  Held'
<1> USE DEF Emissions
<1>0. TypeOK
  BY DEF Inv
<1>1. PICK n \in JobIds : n = nextId /\ state[n] = "None" /\ n \notin Active
  BY <1>0 DEF Request, TypeOK, JobIds, Inv, Safe, IdsInOrder, Active, IsActive
<1>2. Active' = Active \union {n}
  BY <1>0, <1>1 DEF Request, TypeOK, RecordsOK, Active, IsActive
<1>3. \A j \in Active : SessionOfJob(j)' = SessionOfJob(j)
  BY <1>0, <1>1 DEF Request, SessionOfJob, Active, TypeOK, RecordsOK
<1>4. SessionOfJob(n)' = SessionOf[k]
  BY <1>0, <1>1, ConstantsAssumption DEF Request, SessionOfJob, TypeOK, RecordsOK
<1>5. \A s : JobsOf(s)' = IF s = SessionOf[k] THEN JobsOf(s) \union {n} ELSE JobsOf(s)
  BY <1>1, <1>2, <1>3, <1>4 DEF JobsOf
<1>6. OwesTheSame(stack') /\ RowsKept(stack', {}) /\ FramesOf(stack) \subseteq FramesOf(stack')
  <2>1. At("rowsInserted", nextId) \in Frames /\ At("rowsInserted", nextId).at # "jobFinished"
    BY <1>1, FrameTypes DEF At
  <2>2. stack' = Push(At("rowsInserted", nextId), stack)
    BY DEF Request
  <2> QED
    BY <1>0, <2>1, <2>2, StackHeld, PushHeld
<1>7. PinsBalanced'
  <2>1. SUFFICES ASSUME NEW s \in Sessions
                 PROVE  pins'[s] = Cardinality(JobsOf(s)') + Count(stack', s)
    BY DEF PinsBalanced, JobsOf, Count, Owed, Unpinning
  <2>2. pins[s] = Cardinality(JobsOf(s)) + Count(stack, s)
    BY PinsAreOwed DEF Request, Held
  <2>3. Count(stack', s) = Count(stack, s) /\ Count(stack, s) \in Nat
    BY <1>0, <1>6, OwedIsFinite DEF OwesTheSame, TypeOK, FramesOK
  <2>4. Cardinality(JobsOf(s) \union {n}) = Cardinality(JobsOf(s)) + 1
    <3>1. n \notin JobsOf(s)
      BY <1>1 DEF JobsOf
    <3> QED
      BY <3>1, JobsOfIsFinite, FS_AddElement
  <2>5. pins'[s] = IF s = SessionOf[k] THEN pins[s] + 1 ELSE pins[s]
    BY <1>0, ConstantsAssumption DEF Request, TypeOK
  <2>6. Cardinality(JobsOf(s)) \in Nat
    BY JobsOfIsFinite
  <2>7. JobsOf(s)' = IF s = SessionOf[k] THEN JobsOf(s) \union {n} ELSE JobsOf(s)
    BY <1>5
  <2>8. CASE s = SessionOf[k]
    BY <2>2, <2>3, <2>4, <2>5, <2>6, <2>7, <2>8
  <2>9. CASE s # SessionOf[k]
    BY <2>2, <2>3, <2>5, <2>7, <2>9
  <2> QED
    BY <2>8, <2>9
<1>8. NothingWithoutModel' /\ PendingIsFlagged'
  BY DEF Request, Held, NothingWithoutModel, PendingIsFlagged
<1>9. RemovedRowsAreBlank'
  BY <1>0 DEF Request, Held, RemovedRowsAreBlank, TypeOK, RecordsOK
<1>10. OrphansAreSeen'
  <2>1. \A j \in Active : SessionLoaded(j)' <=> SessionLoaded(j)
    BY <1>3 DEF Request, SessionLoaded
  <2>2. SessionLoaded(n)'
    BY <1>4 DEF Request, SessionLoaded
  <2>3. UNCHANGED <<alive, cancelRequested, run>>
    BY DEF Request
  <2> QED
    BY <1>2, <1>6, <2>1, <2>2, <2>3 DEF Held, OrphansAreSeen
<1>11. StaleRunIsStopped'
  BY <1>6, StaleStays DEF Request, Held, HasRun
<1> QED
  BY <1>7, <1>8, <1>9, <1>10, <1>11 DEF Held

LEMMA CallsHeld ==
  ASSUME Inv, Held, Calls
  PROVE  Held'
<1> USE DEF Loops, Emissions
<1>0. TypeOK /\ OwesTheSame(stack) /\ \A S : RowsKept(stack, S)
  BY StackHeld DEF Inv
<1>1. ASSUME NEW k \in Keys, Request(k)
      PROVE  Held'
  BY <1>1, RequestHeld
<1>2. ASSUME NEW j \in JobIds, Cancel(j)
      PROVE  Held'
  BY <1>0, <1>2, CancelJobHeld DEF Cancel
<1>3. ASSUME NEW p \in {"cancelAll", "cancelUnwanted", "shutdown"}, NEW S \in SUBSET JobIds,
             stack' = Push(Over(p, S), stack), UNCHANGED <<modelVars, run, sessionVars>>
      PROVE  Held'
  <2>1. Over(p, S) \in Frames /\ Over(p, S).at # "jobFinished"
    BY FrameTypes DEF Over
  <2>2. OwesTheSame(stack') /\ RowsKept(stack', {})
    BY <1>0, <1>3, <2>1, PushHeld
  <2> QED
    BY <1>3, <2>2, StackOnlyHeld DEF modelVars, sessionVars
<1>4. CASE CancelAll
  BY <1>3, <1>4 DEF CancelAll, Active
<1>5. CASE CancelUnwantedQueued
  BY <1>3, <1>5 DEF CancelUnwantedQueued, QueuedJobs
<1>6. CASE Shutdown
  BY <1>3, <1>6 DEF Shutdown, QueuedJobs
<1>7. ASSUME NEW S \in SUBSET JobIds, RemoveFinished(S)
      PROVE  Held'
  <2>1. /\ \A j \in S : IsFinished(j)
        /\ RemoveRows(S)
        /\ UNCHANGED <<cancelRequested, run, stack, pins, alive, loaded>>
    BY <1>7 DEF RemoveFinished, sessionVars
  <2>2. /\ Active' = Active
        /\ \A j \in Active : SessionOfJob(j)' = SessionOfJob(j)
        /\ \A s : JobsOf(s)' = JobsOf(s)
        /\ RemovedRowsAreBlank'
    BY <1>0, <2>1, RowsHeld
  <2>3. OwesTheSame(stack') /\ RowsKept(stack', {})
    BY <1>0, <2>1
  <2>4. PinsBalanced'
    BY <2>1, <2>2, <2>3, QuietPins DEF Held
  <2>5. NothingWithoutModel' /\ PendingIsFlagged'
    BY <2>1 DEF Held, NothingWithoutModel, PendingIsFlagged
  <2>6. OrphansAreSeen'
    BY <2>1, <2>2, <2>3, SeenStays DEF Held
  <2>7. StaleRunIsStopped'
    BY <2>1, <2>3, StaleStays DEF Held, HasRun
  <2> QED
    BY <2>2, <2>4, <2>5, <2>6, <2>7 DEF Held
<1> QED
  BY <1>1, <1>2, <1>4, <1>5, <1>6, <1>7 DEF Calls

\* The rest of endJob() gives one pin back.
LEMMA AfterJobFinishedHeld ==
  ASSUME Inv, Held, AfterJobFinished
  PROVE  Held'
<1> USE DEF Emissions
<1>0. TypeOK
  BY DEF Inv
<1>1. /\ stack # << >> /\ Top.at = "jobFinished"
      /\ Top \in Frames /\ Below \in Seq(Frames)
      /\ FramesOf(stack) = {Top} \union FramesOf(Below)
  BY <1>0, PopMoves DEF AfterJobFinished, TopIs
<1>2. /\ stack' \in Seq(Frames)
      /\ FramesOf(Below) \subseteq FramesOf(stack')
      /\ \A s \in Sessions : Count(stack', s) = Count(Below, s)
  <2>1. Signal \in Frames /\ Signal.at # "jobFinished"
    BY FrameTypes DEF Signal, At
  <2>2. /\ Push(Signal, Below) \in Seq(Frames)
        /\ FramesOf(Push(Signal, Below)) = {Signal} \union FramesOf(Below)
    BY <1>1, <2>1, PushFrames
  <2>3. \A s \in Sessions : Count(Push(Signal, Below), s) = Count(Below, s)
    BY <1>1, <2>1, CountPush
  <2> QED
    BY <1>1, <2>2, <2>3 DEF AfterJobFinished
<1>3. RowsKept(stack', {})
  BY <1>1, <1>2 DEF RowsKept
<1>4. (\A j \in Trimmed : IsFinished(j)) /\ RemoveRows(Trimmed)
  BY DEF Trimmed, AfterJobFinished
<1>5. UNCHANGED <<cancelRequested, run, alive, loaded>>
  BY DEF AfterJobFinished
<1>6. /\ Active' = Active
      /\ \A j \in Active : SessionOfJob(j)' = SessionOfJob(j)
      /\ \A s : JobsOf(s)' = JobsOf(s)
      /\ RemovedRowsAreBlank'
  BY <1>0, <1>4, RowsHeld
<1>7. PinsBalanced'
  <2>1. SUFFICES ASSUME alive, NEW s \in Sessions
                 PROVE  pins'[s] = Cardinality(JobsOf(s)') + Count(stack', s)
    BY <1>5 DEF PinsBalanced, JobsOf, Count, Owed, Unpinning
  <2>2. pins[s] = Cardinality(JobsOf(s)) + Count(stack, s)
    BY <2>1, PinsAreOwed DEF Held
  <2>3. /\ Count(Below, s) \in Nat
        /\ Count(stack, s) = IF Top.session = s THEN Count(Below, s) + 1 ELSE Count(Below, s)
    BY <1>0, <1>1, CountPop
  <2>4. Cardinality(JobsOf(s)) \in Nat
    BY JobsOfIsFinite
  <2>5. pins \in [Sessions -> Nat] /\ NoSession \notin Sessions
    BY <1>0, ConstantsAssumption DEF TypeOK
  <2>6. pins' = IF Top.session # NoSession /\ pins[Top.session] > 0
                THEN [pins EXCEPT ![Top.session] = @ - 1] ELSE pins
    BY <2>1 DEF AfterJobFinished
  <2>7. CASE Top.session = s
    <3>1. pins'[s] = pins[s] - 1
      BY <2>2, <2>3, <2>4, <2>5, <2>6, <2>7
    <3> QED
      BY <1>2, <1>6, <2>2, <2>3, <2>4, <2>7, <3>1
  <2>8. CASE Top.session # s
    <3>1. pins'[s] = pins[s]
      BY <2>5, <2>6, <2>8
    <3> QED
      BY <1>2, <1>6, <2>2, <2>3, <2>4, <2>8, <3>1
  <2> QED
    BY <2>7, <2>8
<1>8. NothingWithoutModel' /\ PendingIsFlagged'
  BY <1>5 DEF Held, NothingWithoutModel, PendingIsFlagged
<1>9. OrphansAreSeen'
  BY <1>3, <1>5, <1>6, SeenStays DEF Held
<1>10. StaleRunIsStopped'
  BY <1>3, <1>5, StaleStays DEF Held, HasRun
<1> QED
  BY <1>6, <1>7, <1>8, <1>9, <1>10 DEF Held

\* A job whose session is loaded starts.
LEMMA StartNextStepHeld ==
  ASSUME Inv, Held, StartNextStep
  PROVE  Held'
<1> USE DEF Emissions
<1>0. TypeOK /\ stack # << >> /\ Top.at = "startNext"
  BY DEF Inv, StartNextStep, TopIs
<1>1. CASE shutDown \/ HasRun \/ QueuedJobs = {}
  <2>1. stack' = Below /\ UNCHANGED <<modelVars, run, sessionVars>>
    BY <1>1 DEF StartNextStep
  <2>2. OwesTheSame(stack') /\ RowsKept(stack', {})
    BY <1>0, <2>1, PopHeld
  <2> QED
    BY <2>1, <2>2, StackOnlyHeld DEF modelVars, sessionVars
<1>2. CASE ~(shutDown \/ HasRun \/ QueuedJobs = {})
  <2>1. PICK j \in JobIds : j = Oldest(QueuedJobs) /\ Queued(j)
    BY <1>2, OldestIsLeast DEF QueuedJobs
  <2>2. CASE EndJob(j, "Superseded", stack) /\ UNCHANGED <<run, sessionVars>>
    <3>1. OwesTheSame(stack) /\ RowsKept(stack, {j}) /\ "Superseded" \in EndStates /\ IsActive(j)
      BY <1>0, <2>1, StackHeld DEF EndStates, IsActive, Queued
    <3> QED
      BY <2>2, <3>1, EndHeld DEF sessionVars
  <2>3. CASE /\ SessionLoaded(j)
             /\ run' = NewRun(j)
             /\ state' = [state EXCEPT ![j] = "Running"]
             /\ stack' = Push(At("jobStarted", j), stack)
             /\ UNCHANGED <<key, cancelRequested, sessionVars>>
    <3>1. Active' = Active /\ \A i \in JobIds : SessionOfJob(i)' = SessionOfJob(i)
      BY <1>0, <2>1, <2>3 DEF Active, IsActive, Queued, SessionOfJob, TypeOK, RecordsOK
    <3>2. \A s : JobsOf(s)' = JobsOf(s)
      BY <3>1 DEF JobsOf, Active
    <3>3. OwesTheSame(stack') /\ FramesOf(stack) \subseteq FramesOf(stack')
      <4>1. At("jobStarted", j) \in Frames /\ At("jobStarted", j).at # "jobFinished"
        BY FrameTypes DEF At
      <4> QED
        BY <1>0, <2>3, <4>1, StackHeld, PushHeld
    <3>4. UNCHANGED <<pins, alive, loaded>>
      BY <2>3 DEF sessionVars
    <3>5. PinsBalanced'
      BY <3>2, <3>3, <3>4, QuietPins DEF Held
    <3>6. NothingWithoutModel' /\ PendingIsFlagged' /\ StaleRunIsStopped'
      BY <2>3, <3>4 DEF Held, NothingWithoutModel, PendingIsFlagged, StaleRunIsStopped, NewRun
    <3>7. RemovedRowsAreBlank'
      BY <1>0, <2>3 DEF Held, RemovedRowsAreBlank, TypeOK, RecordsOK
    <3>8. OrphansAreSeen'
      <4>1. \A i \in Active : SessionLoaded(i)' <=> SessionLoaded(i)
        BY <3>1, <3>4 DEF SessionLoaded, Active
      <4>2. \A i \in Active : run.job # i
        BY <1>2 DEF HasRun, NoJob, Active, JobIds
      <4> QED
        BY <2>3, <3>1, <3>3, <3>4, <4>1, <4>2 DEF Held, OrphansAreSeen
    <3> QED
      BY <3>5, <3>6, <3>7, <3>8 DEF Held
  <2> QED
    BY <1>2, <2>1, <2>2, <2>3 DEF StartNextStep
<1> QED
  BY <1>1, <1>2

\* The walk over the orphans is over: the run is stopped or has its session.
LEMMA SessionRowsStepHeld ==
  ASSUME Inv, Held, SessionRowsStep
  PROVE  Held'
<1> USE DEF Emissions
<1>0. TypeOK /\ stack # << >> /\ Top.at = "sessionRows"
  BY DEF Inv, SessionRowsStep, TopIs
<1>1. /\ Top \in Frames /\ FramesOf(stack) = {Top} \union FramesOf(Below)
      /\ OwesTheSame(Below)
  BY <1>0, PopMoves, PopHeld
<1>2. CASE EndQueuedOf("Superseded")
  BY <1>0, <1>2, EndQueuedOfHeld DEF EndStates
<1>3. CASE Top.rest = {} /\ HasRun /\ RequestStop("Superseded", Below) /\ UNCHANGED sessionVars
  <2>1. OwesTheSame(stack') /\ FramesOf(Below) \subseteq FramesOf(stack')
    <3>1. Signal \in Frames /\ Signal.at # "jobFinished"
      BY FrameTypes DEF Signal, At
    <3> QED
      BY <1>1, <1>3, <3>1, PushHeld DEF RequestStop
  <2>2. /\ run'.job = run.job /\ run'.end # NoEnd /\ run'.flag
        /\ cancelRequested' = cancelRequested \union {run.job}
        /\ UNCHANGED <<state, key, pins, alive, loaded>>
    BY <1>0, <1>3 DEF RequestStop, Stopped, TypeOK, Runs, EndStates, NoEnd, sessionVars
  <2>3. PinsBalanced'
    BY <2>1, <2>2, RecordsHeld, QuietPins DEF Held
  <2>4. NothingWithoutModel' /\ RemovedRowsAreBlank' /\ PendingIsFlagged' /\ StaleRunIsStopped'
    BY <2>2 DEF Held, NothingWithoutModel, RemovedRowsAreBlank, PendingIsFlagged, StaleRunIsStopped
  <2>5. OrphansAreSeen'
    <3>1. Active' = Active /\ \A i \in Active : SessionLoaded(i)' <=> SessionLoaded(i)
      BY <2>2, RecordsHeld DEF SessionLoaded, Active
    <3> QED
      BY <1>1, <1>3, <2>1, <2>2, <3>1 DEF Held, OrphansAreSeen
  <2> QED
    BY <2>3, <2>4, <2>5 DEF Held
<1>4. CASE /\ Top.rest = {}
           /\ ~(HasRun /\ (~SessionLoaded(run.job) \/ (run.refused /\ run.end = NoEnd)))
           /\ stack' = Below
           /\ UNCHANGED <<modelVars, queueVars, run, workerVars, sessionVars>>
  <2>1. UNCHANGED <<state, key, cancelRequested, run, pins, alive, loaded>>
    BY <1>4 DEF modelVars, sessionVars
  <2>2. PinsBalanced'
    BY <1>1, <1>4, <2>1, RecordsHeld, QuietPins DEF Held
  <2>3. NothingWithoutModel' /\ RemovedRowsAreBlank' /\ PendingIsFlagged'
    BY <2>1 DEF Held, NothingWithoutModel, RemovedRowsAreBlank, PendingIsFlagged
  <2>4. StaleRunIsStopped'
    BY <1>4, <2>1 DEF StaleRunIsStopped, HasRun
  <2>5. OrphansAreSeen'
    <3>1. Active' = Active /\ \A i \in Active : SessionLoaded(i)' <=> SessionLoaded(i)
      BY <2>1, RecordsHeld DEF SessionLoaded, Active
    <3>2. \A i \in Active : run.job = i => SessionLoaded(i)
      BY <1>4 DEF HasRun, NoJob, Active, JobIds
    <3> QED
      BY <1>1, <1>4, <2>1, <3>1, <3>2 DEF Held, OrphansAreSeen
  <2> QED
    BY <2>2, <2>3, <2>4, <2>5 DEF Held
<1> QED
  BY <1>2, <1>3, <1>4 DEF SessionRowsStep

LEMMA ResumeHeld ==
  ASSUME Inv, Held, Resume
  PROVE  Held'
<1> USE DEF Loops, Emissions
<1>0. TypeOK
  BY DEF Inv
\* a function returns
<1>a. ASSUME stack # << >>, Top.at \notin {"jobFinished", "sessionRows"}, stack' = Below,
             UNCHANGED <<modelVars, run, sessionVars>>
      PROVE  Held'
  <2>1. OwesTheSame(stack') /\ RowsKept(stack', {})
    BY <1>0, <1>a, PopHeld
  <2> QED
    BY <1>a, <2>1, StackOnlyHeld DEF modelVars, sessionVars
\* a run ends
<1>b. ASSUME stack # << >>, Top.at \notin {"jobFinished", "sessionRows"}, HasRun,
             NEW e \in EndStates, FinishRun(e, Below)
      PROVE  Held'
  <2>1. OwesTheSame(Below) /\ RowsKept(Below, {})
    BY <1>0, <1>b, PopHeld
  <2> QED
    BY <1>b, <2>1, FinishRunHeld
<1>1. CASE AfterRowsInserted
  <2>1. stack # << >> /\ Top.at = "rowsInserted" /\ UNCHANGED <<modelVars, run, sessionVars>>
    BY <1>1 DEF AfterRowsInserted, TopIs
  <2>2. CASE stack' = Below
    BY <1>a, <2>1, <2>2
  <2>3. CASE stack' = Push(At("jobQueued", Top.job), Below)
    <3>1. OwesTheSame(Below) /\ RowsKept(Below, {}) /\ Top \in Frames
      BY <1>0, <2>1, PopHeld, PopMoves
    <3>2. At("jobQueued", Top.job) \in Frames /\ At("jobQueued", Top.job).at # "jobFinished"
      BY <3>1, FrameTypes DEF At, Frames
    <3>3. OwesTheSame(stack') /\ RowsKept(stack', {})
      BY <2>3, <3>1, <3>2, PushHeld
    <3> QED
      BY <2>1, <3>3, StackOnlyHeld DEF modelVars, sessionVars
  <2> QED
    BY <1>1, <2>2, <2>3 DEF AfterRowsInserted
<1>2. CASE AfterJobQueued
  BY <1>a, <1>2 DEF AfterJobQueued, TopIs
<1>3. CASE AfterJobStarted
  <2>1. stack # << >> /\ Top.at = "jobStarted"
    BY <1>3 DEF AfterJobStarted, TopIs
  <2>2. CASE stack' = Below /\ UNCHANGED <<modelVars, run, sessionVars>>
    BY <1>a, <2>1, <2>2
  <2>3. CASE HasRun /\ (FinishRun(Verdict, Below) \/ FinishRun("Failed", Below))
    BY <1>0, <1>b, <2>1, <2>3, VerdictType DEF EndStates
  <2> QED
    BY <1>3, <2>2, <2>3 DEF AfterJobStarted
<1>4. CASE AfterJobFinished
  BY <1>4, AfterJobFinishedHeld
<1>5. CASE AfterSignal
  BY <1>a, <1>5 DEF AfterSignal, TopIs
<1>6. CASE CancelAllStep
  <2>1. stack # << >> /\ Top.at = "cancelAll"
    BY <1>6 DEF CancelAllStep, TopIs
  <2>2. CASE Top.rest = {}
    BY <1>a, <1>6, <2>1, <2>2 DEF CancelAllStep
  <2>3. CASE Top.rest # {}
    <3> DEFINE j == Oldest(Top.rest)
               loop == Push([Top EXCEPT !.rest = @ \ {j}], Below)
    <3>1. j \in JobIds /\ OwesTheSame(loop) /\ RowsKept(loop, {})
      BY <1>0, <2>1, <2>3, LoopHeld
    <3>2. CASE CancelJob(j, loop)
      BY <3>1, <3>2, CancelJobHeld
    <3>3. CASE stack' = loop /\ UNCHANGED <<modelVars, queueVars, run, workerVars, sessionVars>>
      BY <3>1, <3>3, StackOnlyHeld DEF modelVars, sessionVars
    <3> QED
      BY <1>6, <2>3, <3>2, <3>3 DEF CancelAllStep
  <2> QED
    BY <2>2, <2>3
<1>7. CASE CancelUnwantedStep
  <2>1. stack # << >> /\ Top.at = "cancelUnwanted"
    BY <1>7 DEF CancelUnwantedStep, TopIs
  <2>2. CASE EndQueuedOf("Cancelled")
    BY <2>1, <2>2, EndQueuedOfHeld DEF EndStates
  <2> QED
    BY <1>a, <1>7, <2>1, <2>2 DEF CancelUnwantedStep
<1>8. CASE SessionRowsStep
  BY <1>8, SessionRowsStepHeld
<1>9. CASE ShutdownStep
  <2>1. stack # << >> /\ Top.at = "shutdown"
    BY <1>9 DEF ShutdownStep, TopIs
  <2>2. CASE EndQueuedOf("Cancelled")
    BY <2>1, <2>2, EndQueuedOfHeld DEF EndStates
  <2>3. CASE RequestStop("Cancelled", Push(At("shutdownWait", NoJob), Below)) /\ UNCHANGED sessionVars
    <3>1. OwesTheSame(Below) /\ RowsKept(Below, {})
      BY <1>0, <2>1, PopHeld
    <3>2. At("shutdownWait", NoJob) \in Frames /\ At("shutdownWait", NoJob).at # "jobFinished"
      BY FrameTypes DEF At
    <3>3. /\ OwesTheSame(Push(At("shutdownWait", NoJob), Below))
          /\ RowsKept(Push(At("shutdownWait", NoJob), Below), {})
      BY <3>1, <3>2, PushHeld
    <3> QED
      BY <1>0, <2>3, <3>3, RequestStopHeld DEF EndStates
  <2> QED
    BY <1>a, <1>9, <2>1, <2>2, <2>3 DEF ShutdownStep
<1>10. CASE ShutdownWait
  BY <1>0, <1>b, <1>10, VerdictType DEF ShutdownWait, TopIs
<1>11. CASE StartNextStep
  BY <1>11, StartNextStepHeld
<1> QED
  BY <1>1, <1>2, <1>3, <1>4, <1>5, <1>6, <1>7, <1>8, <1>9, <1>10, <1>11 DEF Resume

LEMMA EventsHeld ==
  ASSUME Inv, Held, Events
  PROVE  Held'
<1> USE DEF Loops, Emissions
<1>0. TypeOK /\ OwesTheSame(stack) /\ \A S : RowsKept(stack, S)
  BY StackHeld DEF Inv
<1>1. CASE StartNext
  <2>1. At("startNext", NoJob) \in Frames /\ At("startNext", NoJob).at # "jobFinished"
    BY FrameTypes DEF At
  <2>2. OwesTheSame(stack') /\ RowsKept(stack', {})
    BY <1>0, <1>1, <2>1, PushHeld DEF StartNext
  <2> QED
    BY <1>1, <2>2, StackOnlyHeld DEF StartNext, modelVars, sessionVars
<1>2. ASSUME NEW j \in JobIds, OnProgress(j)
      PROVE  Held'
  <2>1. Signal \in Frames /\ Signal.at # "jobFinished"
    BY FrameTypes DEF Signal, At
  <2>2. OwesTheSame(stack') /\ RowsKept(stack', {})
    BY <1>0, <1>2, <2>1, PushHeld DEF OnProgress
  <2> QED
    BY <1>2, <2>2, StackOnlyHeld DEF OnProgress, sessionVars
<1>3. ASSUME NEW j \in JobIds, OnWorkerFinished(j)
      PROVE  Held'
  <2>1. CASE run.job = j
    BY <1>0, <1>3, <2>1, FinishRunHeld, VerdictType DEF OnWorkerFinished, HasRun, NoJob, JobIds
  <2>2. CASE run.job # j
    <3>1. stack' = stack /\ UNCHANGED <<state, key, cancelRequested, run, pins, alive, loaded>>
      BY <1>3, <2>2 DEF OnWorkerFinished, modelVars, sessionVars
    <3>2. OwesTheSame(stack') /\ RowsKept(stack', {})
      BY <1>0, <3>1
    <3> QED
      BY <3>1, <3>2, StackOnlyHeld
  <2> QED
    BY <2>1, <2>2
<1> QED
  BY <1>1, <1>2, <1>3 DEF Events

LEMMA WorkerHeld ==
  ASSUME Inv, Held, Worker
  PROVE  Held'
<1>1. stack' = stack /\ UNCHANGED <<state, key, cancelRequested, run, pins, alive, loaded>>
  BY DEF Worker, WorkerReport, WorkerReturn, modelVars, sessionVars
<1>2. OwesTheSame(stack') /\ RowsKept(stack', {})
  BY <1>1, StackHeld DEF Inv
<1> QED
  BY <1>1, <1>2, StackOnlyHeld

\* A session without a pin has no active job.
LEMMA EvictableIsIdle ==
  ASSUME TypeOK, Held, NEW s \in Sessions, s \in loaded, ~Pinned(s)
  PROVE  \A j \in Active : SessionOfJob(j) # s
<1>1. alive
  BY DEF Held, NothingWithoutModel
<1>2. pins[s] = Cardinality(JobsOf(s)) + Count(stack, s)
  BY <1>1, PinsAreOwed DEF Held
<1>3. /\ IsFiniteSet(JobsOf(s)) /\ Cardinality(JobsOf(s)) \in Nat
      /\ Count(stack, s) \in Nat
      /\ pins[s] = 0
  BY JobsOfIsFinite, OwedIsFinite DEF TypeOK, FramesOK, Pinned
<1>4. Cardinality(JobsOf(s)) = 0
  BY <1>2, <1>3
<1>5. JobsOf(s) = {}
  BY <1>3, <1>4, FS_EmptySet
<1> QED
  BY <1>5 DEF JobsOf

\* The engine of a session marks the run of that session only.
LEMMA MarkedRun ==
  ASSUME TypeOK, NEW K \in SUBSET Keys
  PROVE  /\ Marked(K).job = run.job /\ Marked(K).end = run.end /\ Marked(K).flag = run.flag
         /\ ~(HasRun /\ key[run.job] \in K) => Marked(K) = run
BY DEF Marked, TypeOK, Runs

LEMMA EvictHeld ==
  ASSUME Inv, Held, NEW s \in Sessions, EvictSession(s)
  PROVE  Held'
<1>0. TypeOK
  BY DEF Inv
<1>1. \A j \in Active : SessionOfJob(j) # s
  BY <1>0, EvictableIsIdle DEF EvictSession
<1>2. UNCHANGED <<state, key, cancelRequested, stack, pins, alive>> /\ loaded' = loaded \ {s}
  BY DEF EvictSession, modelVars
<1>3. run' = run
  <2>1. run' = Marked(KeysOf(s)) /\ KeysOf(s) \in SUBSET Keys
    BY DEF EvictSession, KeysOf
  <2>2. ~(HasRun /\ key[run.job] \in KeysOf(s))
    <3>1. SUFFICES ASSUME HasRun, key[run.job] \in KeysOf(s)
                   PROVE  FALSE
      OBVIOUS
    <3>2. run.job \in Active
      BY <3>1 DEF Inv, Safe, TypeOK, Runs, HasRun, OneWorker, Active, IsActive
    <3>3. SessionOfJob(run.job) = s
      BY <3>1, ConstantsAssumption DEF KeysOf, SessionOfJob
    <3> QED
      BY <1>1, <3>2, <3>3
  <2> QED
    BY <1>0, <2>1, <2>2, MarkedRun
<1>4. OwesTheSame(stack')
  BY <1>0, <1>2, StackHeld
<1>5. Active' = Active /\ (\A j \in Active : SessionOfJob(j)' = SessionOfJob(j))
  BY <1>2, RecordsHeld DEF Active
<1>6. PinsBalanced'
  BY <1>2, <1>4, RecordsHeld, QuietPins DEF Held
<1>7. NothingWithoutModel' /\ RemovedRowsAreBlank' /\ PendingIsFlagged' /\ StaleRunIsStopped'
  BY <1>2, <1>3 DEF Held, NothingWithoutModel, RemovedRowsAreBlank, PendingIsFlagged, StaleRunIsStopped, HasRun
<1>8. OrphansAreSeen'
  <2>1. \A j \in Active : SessionLoaded(j) => SessionLoaded(j)'
    BY <1>1, <1>2, <1>5 DEF SessionLoaded
  <2> QED
    BY <1>2, <1>3, <1>5, <2>1 DEF Held, OrphansAreSeen
<1> QED
  BY <1>6, <1>7, <1>8 DEF Held

\* The session goes or its engine is replaced: a walk over the orphans begins,
\* unless there is nothing to end and nothing to stop.
LEMMA RowsChangedHeld ==
  ASSUME Inv, Held, InEventLoop, NEW s \in Sessions, NEW L \in SUBSET loaded,
         \A r \in loaded : r \in L \/ r = s,
         loaded' = L, run' = Marked(KeysOf(s)), SessionRowsChanged(Marked(KeysOf(s)), L),
         UNCHANGED <<modelVars, alive, pins>>
  PROVE  Held'
<1> USE DEF Loops
<1> DEFINE orphans == {j \in QueuedJobs : SessionOfJob(j) \notin L}
           f == Over("sessionRows", orphans)
<1>0. TypeOK
  BY DEF Inv
<1>1. f \in Frames /\ f.at = "sessionRows" /\ f.rest = orphans
  BY FrameTypes DEF Over, QueuedJobs
<1>2. /\ OwesTheSame(stack) /\ OwesTheSame(Push(f, stack))
      /\ FramesOf(Push(f, stack)) = {f} \union FramesOf(stack)
  BY <1>0, <1>1, StackHeld, PushHeld
<1>3. OwesTheSame(stack')
  BY <1>2 DEF SessionRowsChanged
<1>4. UNCHANGED <<state, key, cancelRequested, alive, pins>>
  BY DEF modelVars
<1>5. run'.job = run.job /\ run'.end = run.end /\ run'.flag = run.flag
  BY <1>0, MarkedRun DEF KeysOf
<1>6. orphans # {} \/ (run'.job # NoJob /\ run'.refused /\ run'.end = NoEnd) => f \in FramesOf(stack')
  BY <1>2 DEF SessionRowsChanged
<1>7. PinsBalanced'
  BY <1>3, <1>4, RecordsHeld, QuietPins DEF Held
<1>8. NothingWithoutModel' /\ RemovedRowsAreBlank' /\ PendingIsFlagged'
  BY <1>4, <1>5 DEF Held, NothingWithoutModel, RemovedRowsAreBlank, PendingIsFlagged
<1>9. StaleRunIsStopped'
  BY <1>1, <1>6 DEF StaleRunIsStopped, HasRun
<1>10. OrphansAreSeen'
  <2>1. SUFFICES ASSUME alive, NEW j \in Active
                 PROVE  \/ SessionOfJob(j) \in L
                        \/ j \in cancelRequested
                        \/ \E g \in FramesOf(stack') : g.at = "sessionRows" /\ (j \in g.rest \/ run.job = j)
    BY <1>4, <1>5, RecordsHeld DEF OrphansAreSeen, SessionLoaded, Active
  <2>2. SessionLoaded(j) \/ j \in cancelRequested
    BY <2>1 DEF Held, OrphansAreSeen, InEventLoop, FramesOf
  <2>3. CASE SessionOfJob(j) \in loaded \ L /\ j \notin cancelRequested
    <3>1. j \in JobIds /\ SessionOfJob(j) = s
      BY <2>1, <2>3 DEF Active
    <3>2. CASE Queued(j)
      BY <1>1, <1>6, <2>3, <3>1, <3>2 DEF QueuedJobs
    <3>3. CASE state[j] = "Running"
      <4>1. run.job = j /\ HasRun
        BY <3>1, <3>3 DEF Inv, Safe, OneWorker, HasRun, NoJob, JobIds
      <4>2. key[j] \in KeysOf(s)
        BY <1>0, <3>1, ConstantsAssumption DEF SessionOfJob, KeysOf, TypeOK, RecordsOK
      <4>3. run'.refused
        BY <1>0, <4>1, <4>2 DEF Marked, TypeOK, Runs
      <4>4. run'.end = NoEnd
        BY <1>5, <2>3, <3>1, <4>1 DEF Held, PendingIsFlagged, Inv, Safe, StopIsRecorded
      <4>5. f \in FramesOf(stack')
        BY <1>5, <1>6, <4>1, <4>3, <4>4 DEF HasRun
      <4> QED
        BY <1>1, <4>1, <4>5
    <3> QED
      BY <2>1, <3>2, <3>3 DEF Active, IsActive, Queued
  <2> QED
    BY <2>2, <2>3 DEF SessionLoaded
<1> QED
  BY <1>7, <1>8, <1>9, <1>10 DEF Held

LEMMA SessionSideHeld ==
  ASSUME Inv, Held, SessionSide
  PROVE  Held'
<1>0. TypeOK /\ OwesTheSame(stack) /\ \A S : RowsKept(stack, S)
  BY StackHeld DEF Inv
<1>1. ASSUME NEW K \in SUBSET Keys, EngineChange(K)
      PROVE  Held'
  <2>1. StopRunIfRefused(Marked(K)) /\ UNCHANGED <<alive, loaded, pins>>
    BY <1>1 DEF EngineChange
  <2>2. /\ run'.job = run.job
        /\ PendingIsFlagged' /\ StaleRunIsStopped'
        /\ OwesTheSame(stack') /\ RowsKept(stack', {})
        /\ UNCHANGED <<state, key>> /\ cancelRequested \subseteq cancelRequested'
    BY <1>0, <2>1, RefusedIsStopped
  <2> QED
    BY <2>1, <2>2, QuietHeld
<1>2. ASSUME NEW K \in SUBSET Keys, SilentChange(K)
      PROVE  Held'
  <2>1. /\ SilentChanges /\ run' = Marked(K)
        /\ UNCHANGED <<state, key, cancelRequested, stack, alive, loaded, pins>>
    BY <1>2 DEF SilentChange, modelVars
  <2>2. run'.job = run.job /\ PendingIsFlagged' /\ StaleRunIsStopped'
    BY <1>0, <2>1, MarkedRun DEF Held, PendingIsFlagged, StaleRunIsStopped
  <2>3. OwesTheSame(stack') /\ RowsKept(stack', {})
    BY <1>0, <2>1
  <2> QED
    BY <2>1, <2>2, <2>3, QuietHeld
<1>3. ASSUME NEW k \in Keys, RequestSynchronously(k)
      PROVE  Held'
  <2>1. UNCHANGED <<state, key, cancelRequested, run, stack, pins, alive, loaded>>
    BY <1>3 DEF RequestSynchronously, modelVars
  <2>2. OwesTheSame(stack') /\ RowsKept(stack', {})
    BY <1>0, <2>1
  <2> QED
    BY <2>1, <2>2, StackOnlyHeld
<1>4. ASSUME NEW s \in Sessions, RemoveSession(s)
      PROVE  Held'
  BY <1>4, RowsChangedHeld DEF RemoveSession
<1>5. ASSUME NEW s \in Sessions, ReplaceSession(s)
      PROVE  Held'
  BY <1>5, RowsChangedHeld DEF ReplaceSession
<1>6. ASSUME NEW s \in Sessions, LoadSession(s)
      PROVE  Held'
  <2>1. alive /\ loaded \subseteq loaded' /\ UNCHANGED <<state, key, cancelRequested, run, stack, pins, alive>>
    BY <1>6 DEF LoadSession, modelVars
  <2>2. OwesTheSame(stack') /\ RowsKept(stack', {})
    BY <1>0, <2>1
  <2>3. PendingIsFlagged' /\ StaleRunIsStopped'
    BY <2>1 DEF Held, PendingIsFlagged, StaleRunIsStopped, HasRun
  <2> QED
    BY <2>1, <2>2, <2>3, QuietHeld
<1>7. ASSUME NEW s \in Sessions, EvictSession(s)
      PROVE  Held'
  BY <1>7, EvictHeld
<1>8. CASE DestroySessionModel
  <2>1. StopRunIfRefused(Marked(Keys)) /\ ~alive' /\ loaded' = {}
    BY <1>8 DEF DestroySessionModel
  <2>2. PendingIsFlagged' /\ StaleRunIsStopped' /\ UNCHANGED <<state, key>>
    BY <1>0, <2>1, RefusedIsStopped
  <2>3. RemovedRowsAreBlank'
    BY <2>2 DEF Held, RemovedRowsAreBlank
  <2> QED
    BY <2>1, <2>2, <2>3 DEF Held, PinsBalanced, NothingWithoutModel, OrphansAreSeen
<1> QED
  BY <1>1, <1>2, <1>3, <1>4, <1>5, <1>6, <1>7, <1>8 DEF SessionSide

-------------------------------------------------------------------------------
(* How often the end of a job is signalled *)

\* jobFinished has been emitted for the jobs that ended, whether or not their
\* row is still there.
FinishesCounted ==
  \A j \in JobIds : finishes[j] = IF state[j] \in {"None", "Queued", "Running"} THEN 0 ELSE 1

\* The loops that take a row that is gone for one that is queued.
Walks == {"cancelUnwanted", "sessionRows", "shutdown"}

Walkable(f) == f.at \in Walks => \A j \in f.rest : state[j] # "Removed"

\* No row of a snapshot that is being walked has been removed.
SnapshotsStand == \A f \in FramesOf(stack) : Walkable(f)

LEMMA QuietCounts ==
  ASSUME FinishesCounted, UNCHANGED <<state, finishes>>
  PROVE  FinishesCounted'
BY DEF FinishesCounted

LEMMA EndCounts ==
  ASSUME TypeOK, FinishesCounted, NEW j \in JobIds, IsActive(j), NEW e \in EndStates, NEW below,
         EndJob(j, e, below)
  PROVE  FinishesCounted'
<1>1. e \notin {"None", "Queued", "Running"}
  BY DEF EndStates
<1>2. finishes[j] = 0
  BY DEF FinishesCounted, IsActive
<1>3. state' = [state EXCEPT ![j] = e] /\ finishes' = [finishes EXCEPT ![j] = 1]
  BY <1>2 DEF EndJob, TypeOK, RecordsOK
<1> QED
  BY <1>1, <1>3 DEF FinishesCounted, TypeOK, RecordsOK

LEMMA FinishRunCounts ==
  ASSUME Inv, FinishesCounted, HasRun, NEW e \in EndStates, NEW below, FinishRun(e, below)
  PROVE  FinishesCounted'
<1>1. TypeOK /\ run.job \in JobIds /\ IsActive(run.job)
  BY DEF Inv, Safe, TypeOK, Runs, HasRun, OneWorker, IsActive
<1> QED
  BY <1>1, EndCounts DEF FinishRun

LEMMA RowsCounts ==
  ASSUME TypeOK, FinishesCounted, NEW S, \A j \in S : IsFinished(j), RemoveRows(S), UNCHANGED finishes
  PROVE  FinishesCounted'
BY DEF FinishesCounted, RemoveRows, IsFinished, EndStates

LEMMA CancelJobCounts ==
  ASSUME Inv, FinishesCounted, NEW j \in JobIds, NEW below, CancelJob(j, below)
  PROVE  FinishesCounted'
<1>1. CASE Queued(j) /\ EndJob(j, "Cancelled", below)
  BY <1>1, EndCounts DEF Inv, EndStates, Queued, IsActive
<1>2. CASE RequestStop("Cancelled", below)
  BY <1>2, QuietCounts DEF RequestStop
<1> QED
  BY <1>1, <1>2 DEF CancelJob

\* What a snapshot holds is queued or is passed over.
LEMMA EndQueuedOfCounts ==
  ASSUME Inv, FinishesCounted, SnapshotsStand, stack # << >>, Top.at \in Walks,
         NEW e \in EndStates, EndQueuedOf(e)
  PROVE  FinishesCounted'
<1>1. TypeOK /\ Top \in Frames /\ Walkable(Top)
  BY PopMoves DEF Inv, SnapshotsStand
<1>2. Top.rest \in SUBSET JobIds /\ Top.rest # {}
  BY <1>1 DEF Frames, EndQueuedOf
<1>3. PICK j \in JobIds : j = Oldest(Top.rest) /\ j \in Top.rest /\ state[j] # "Removed"
  BY <1>1, <1>2, OldestIsLeast DEF Walkable
<1>4. CASE RecordReadsQueued(j)
  BY <1>1, <1>3, <1>4, EndCounts DEF EndQueuedOf, RecordReadsQueued, IsActive
<1>5. CASE ~RecordReadsQueued(j)
  BY <1>3, <1>5, QuietCounts DEF EndQueuedOf, modelVars
<1> QED
  BY <1>4, <1>5

LEMMA ResumeCounts ==
  ASSUME Inv, FinishesCounted, SnapshotsStand, Resume
  PROVE  FinishesCounted'
<1>0. TypeOK
  BY DEF Inv
<1>1. CASE AfterRowsInserted \/ AfterJobQueued \/ AfterSignal
  BY <1>1, QuietCounts DEF AfterRowsInserted, AfterJobQueued, AfterSignal, modelVars
<1>2. CASE AfterJobStarted
  <2>1. CASE UNCHANGED modelVars
    BY <2>1, QuietCounts DEF modelVars
  <2>2. ASSUME NEW e \in EndStates, HasRun, FinishRun(e, Below)
        PROVE  FinishesCounted'
    BY <2>2, FinishRunCounts
  <2> QED
    BY <1>0, <1>2, <2>1, <2>2, VerdictType DEF AfterJobStarted, EndStates
<1>3. CASE AfterJobFinished
  BY <1>0, <1>3, RowsCounts DEF AfterJobFinished, Trimmed
<1>4. CASE CancelAllStep
  <2>1. CASE UNCHANGED modelVars
    BY <2>1, QuietCounts DEF modelVars
  <2>2. ASSUME Top.rest # {}, NEW below, CancelJob(Oldest(Top.rest), below)
        PROVE  FinishesCounted'
    <3>1. Oldest(Top.rest) \in JobIds
      <4>1. Top \in Frames
        BY <1>0, <1>4, PopMoves DEF CancelAllStep, TopIs
      <4> QED
        BY <2>2, <4>1, OldestIsLeast DEF Frames
    <3> QED
      BY <2>2, <3>1, CancelJobCounts
  <2> QED
    BY <1>4, <2>1, <2>2 DEF CancelAllStep
<1>5. ASSUME NEW e \in EndStates, NEW p \in Walks, TopIs(p), EndQueuedOf(e)
      PROVE  FinishesCounted'
  BY <1>5, EndQueuedOfCounts DEF TopIs
<1>6. CASE CancelUnwantedStep
  BY <1>5, <1>6, QuietCounts DEF CancelUnwantedStep, Walks, EndStates, modelVars
<1>7. CASE SessionRowsStep
  BY <1>5, <1>7, QuietCounts DEF SessionRowsStep, RequestStop, Walks, EndStates, modelVars
<1>8. CASE ShutdownStep
  BY <1>5, <1>8, QuietCounts DEF ShutdownStep, RequestStop, Walks, EndStates, modelVars
<1>9. CASE ShutdownWait
  BY <1>0, <1>9, FinishRunCounts, VerdictType DEF ShutdownWait
<1>10. CASE StartNextStep
  <2>1. CASE UNCHANGED modelVars
    BY <2>1, QuietCounts DEF modelVars
  <2>2. CASE QueuedJobs # {}
    <3>1. PICK j \in JobIds : j = Oldest(QueuedJobs) /\ Queued(j)
      BY <2>2, OldestIsLeast DEF QueuedJobs
    <3>2. CASE EndJob(j, "Superseded", stack)
      BY <1>0, <3>1, <3>2, EndCounts DEF EndStates, Queued, IsActive
    <3>3. CASE state' = [state EXCEPT ![j] = "Running"] /\ UNCHANGED finishes
      BY <1>0, <3>1, <3>3 DEF FinishesCounted, Queued, TypeOK, RecordsOK
    <3> QED
      BY <1>10, <2>1, <3>1, <3>2, <3>3 DEF StartNextStep
  <2> QED
    BY <1>10, <2>1, <2>2 DEF StartNextStep
<1> QED
  BY <1>1, <1>2, <1>3, <1>4, <1>6, <1>7, <1>8, <1>9, <1>10 DEF Resume

LEMMA NextCounts ==
  ASSUME Inv, FinishesCounted, SnapshotsStand, [Next]_vars
  PROVE  FinishesCounted'
<1>0. TypeOK
  BY DEF Inv
<1>1. ASSUME NEW k \in Keys, Request(k)
      PROVE  FinishesCounted'
  <2>1. nextId \in JobIds /\ state[nextId] = "None"
    BY <1>0, <1>1 DEF Request, TypeOK, JobIds, Inv, Safe, IdsInOrder
  <2> QED
    BY <1>0, <1>1, <2>1 DEF Request, FinishesCounted, TypeOK, RecordsOK
<1>2. ASSUME NEW j \in JobIds, Cancel(j)
      PROVE  FinishesCounted'
  BY <1>2, CancelJobCounts DEF Cancel
<1>3. ASSUME NEW S \in SUBSET JobIds, RemoveFinished(S)
      PROVE  FinishesCounted'
  BY <1>0, <1>3, RowsCounts DEF RemoveFinished
<1>4. CASE CancelAll \/ CancelUnwantedQueued \/ Shutdown
  BY <1>4, QuietCounts DEF CancelAll, CancelUnwantedQueued, Shutdown, modelVars
<1>5. CASE Events
  <2>1. CASE StartNext \/ \E j \in JobIds : OnProgress(j)
    BY <2>1, QuietCounts DEF StartNext, OnProgress, modelVars
  <2>2. ASSUME NEW j \in JobIds, OnWorkerFinished(j)
        PROVE  FinishesCounted'
    <3>1. CASE run.job = j
      BY <1>0, <2>2, <3>1, FinishRunCounts, VerdictType DEF OnWorkerFinished, HasRun, NoJob, JobIds
    <3>2. CASE run.job # j
      BY <2>2, <3>2, QuietCounts DEF OnWorkerFinished, modelVars
    <3> QED
      BY <3>1, <3>2
  <2> QED
    BY <1>5, <2>1, <2>2 DEF Events
<1>6. CASE Worker
  BY <1>6, QuietCounts DEF Worker, WorkerReport, WorkerReturn, modelVars
<1>7. CASE SessionSide
  <2>1. UNCHANGED <<state, finishes>>
    BY <1>7 DEF SessionSide, EngineChange, StopRunIfRefused, SilentChange, RequestSynchronously, RemoveSession,
                ReplaceSession, LoadSession, EvictSession, DestroySessionModel, modelVars
  <2> QED
    BY <2>1, QuietCounts
<1>8. CASE UNCHANGED vars
  BY <1>8, QuietCounts DEF vars, modelVars
<1> QED
  BY <1>1, <1>2, <1>3, <1>4, <1>5, <1>6, <1>7, <1>8, ResumeCounts DEF Next, Calls

-------------------------------------------------------------------------------
(* When the snapshots stand *)

\* No slot removes rows, and the model keeps as many finished rows as there are
\* jobs.
RowsStay == ~SlotsRemoveRows /\ FinishedLimit >= MaxJobs

\* st could be the stack: its snapshots hold no row that is gone.
Stands(st) == st \in Seq(Frames) /\ \A f \in FramesOf(st) : Walkable(f)

RowsRemain == \A j \in JobIds : state'[j] = "Removed" => state[j] = "Removed"

LEMMA TrimsNothing ==
  ASSUME RowsStay
  PROVE  Trimmed = {}
<1>1. SUFFICES ASSUME NEW j \in JobIds
               PROVE  ~(Cardinality({i \in JobIds : IsFinished(i) /\ i > j}) >= FinishedLimit)
  BY DEF Trimmed
<1> DEFINE newer == {i \in JobIds : IsFinished(i) /\ i > j}
<1>2. /\ j \in Nat /\ j >= 1 /\ j <= MaxJobs
      /\ MaxJobs \in Nat /\ FinishedLimit \in Nat /\ FinishedLimit >= MaxJobs
  BY ConstantsAssumption DEF JobIds, RowsStay
<1>3. /\ IsFiniteSet((j + 1)..MaxJobs)
      /\ Cardinality((j + 1)..MaxJobs) = IF j + 1 > MaxJobs THEN 0 ELSE MaxJobs - (j + 1) + 1
  BY <1>2, FS_Interval
<1>4. newer \in SUBSET ((j + 1)..MaxJobs)
  BY <1>2 DEF JobIds
<1>5. Cardinality(newer) <= Cardinality((j + 1)..MaxJobs) /\ Cardinality(newer) \in Nat
  BY <1>3, <1>4, FS_Subset, FS_CardinalityType
<1> HIDE DEF newer
<1>6. ~(Cardinality(newer) >= FinishedLimit)
  BY <1>2, <1>3, <1>5
<1> QED
  BY <1>6 DEF newer

LEMMA StandsAfter ==
  ASSUME Stands(stack'), RowsRemain
  PROVE  SnapshotsStand'
<1>1. \A f \in FramesOf(stack') : f \in Frames
  BY ElementOfSeq DEF Stands, FramesOf
<1>2. \A f \in FramesOf(stack') : f.rest \subseteq JobIds
  BY <1>1 DEF Frames
<1> QED
  BY <1>2 DEF Stands, RowsRemain, SnapshotsStand, Walkable

LEMMA PushStands ==
  ASSUME NEW st, Stands(st), NEW f \in Frames, Walkable(f)
  PROVE  Stands(Push(f, st))
<1>1. Push(f, st) \in Seq(Frames) /\ FramesOf(Push(f, st)) = {f} \union FramesOf(st)
  BY PushFrames DEF Stands
<1> QED
  BY <1>1 DEF Stands

LEMMA PopStands ==
  ASSUME TypeOK, SnapshotsStand, stack # << >>
  PROVE  Stands(Below) /\ Walkable(Top)
BY PopMoves DEF Stands, SnapshotsStand

LEMMA LoopStands ==
  ASSUME TypeOK, SnapshotsStand, stack # << >>, Top.rest # {}
  PROVE  LET j == Oldest(Top.rest)
         IN  j \in JobIds /\ Stands(Push([Top EXCEPT !.rest = @ \ {j}], Below))
<1> DEFINE j == Oldest(Top.rest)
           next == [Top EXCEPT !.rest = @ \ {j}]
<1>1. Top \in Frames /\ Stands(Below) /\ Walkable(Top)
  BY PopMoves, PopStands
<1>2. j \in JobIds
  BY <1>1, OldestIsLeast DEF Frames
<1>3. next \in Frames /\ next.at = Top.at /\ next.rest = Top.rest \ {j}
  BY <1>1 DEF Frames
<1>4. Walkable(next)
  BY <1>1, <1>3 DEF Walkable
<1> QED
  BY <1>1, <1>2, <1>3, <1>4, PushStands

LEMMA EndStands ==
  ASSUME TypeOK, NEW j \in JobIds, NEW e \in EndStates, NEW below, Stands(below), EndJob(j, e, below)
  PROVE  Stands(stack') /\ RowsRemain
<1>1. RowsRemain
  BY DEF RowsRemain, EndJob, EndStates, TypeOK, RecordsOK
<1> DEFINE g == Finishing(j, SessionOfJob(j))
<1>2. g \in Frames /\ Walkable(g) /\ stack' = Push(g, below)
  BY FrameTypes DEF TypeOK, EndJob, Finishing, Walkable, Walks
<1> QED
  BY <1>1, <1>2, PushStands

LEMMA FinishRunStands ==
  ASSUME TypeOK, HasRun, NEW e \in EndStates, NEW below, Stands(below), FinishRun(e, below)
  PROVE  Stands(stack') /\ RowsRemain
BY EndStands DEF FinishRun, TypeOK, Runs, HasRun

LEMMA SignalStands ==
  ASSUME NEW st, Stands(st)
  PROVE  Stands(Push(Signal, st))
BY FrameTypes, PushStands DEF Signal, At, Walkable, Walks

LEMMA RequestStopStands ==
  ASSUME NEW e, NEW below, Stands(below), RequestStop(e, below)
  PROVE  Stands(stack') /\ RowsRemain
BY SignalStands DEF RequestStop, RowsRemain

LEMMA CancelJobStands ==
  ASSUME TypeOK, NEW j \in JobIds, NEW below, Stands(below), CancelJob(j, below)
  PROVE  Stands(stack') /\ RowsRemain
BY EndStands, RequestStopStands DEF CancelJob, EndStates

LEMMA EndQueuedOfStands ==
  ASSUME TypeOK, SnapshotsStand, stack # << >>, NEW e \in EndStates, EndQueuedOf(e)
  PROVE  Stands(stack') /\ RowsRemain
<1> DEFINE j == Oldest(Top.rest)
           loop == Push([Top EXCEPT !.rest = @ \ {j}], Below)
<1>1. j \in JobIds /\ Stands(loop)
  BY LoopStands DEF EndQueuedOf
<1>2. CASE RecordReadsQueued(j)
  BY <1>1, <1>2, EndStands DEF EndQueuedOf
<1>3. CASE ~RecordReadsQueued(j)
  BY <1>1, <1>3 DEF EndQueuedOf, modelVars, RowsRemain
<1> QED
  BY <1>2, <1>3

LEMMA ResumeStands ==
  ASSUME TypeOK, RowsStay, SnapshotsStand, Resume
  PROVE  Stands(stack') /\ RowsRemain
<1> USE DEF Loops, Emissions
<1>1. stack # << >>
  BY DEF Resume, AfterRowsInserted, AfterJobQueued, AfterJobStarted, AfterJobFinished, AfterSignal, CancelAllStep,
         CancelUnwantedStep, SessionRowsStep, ShutdownStep, ShutdownWait, StartNextStep, TopIs
<1>2. /\ Stands(stack) /\ Stands(Below) /\ Top \in Frames
      /\ Stands(Push(Signal, Below))
  BY <1>1, PopStands, PopMoves, SignalStands DEF Stands, SnapshotsStand, TypeOK, FramesOK
<1>3. CASE AfterRowsInserted
  <2>1. At("jobQueued", Top.job) \in Frames /\ Walkable(At("jobQueued", Top.job))
    BY <1>2, FrameTypes DEF At, Frames, Walkable, Walks
  <2> QED
    BY <1>2, <1>3, <2>1, PushStands DEF AfterRowsInserted, modelVars, RowsRemain
<1>4. CASE AfterJobQueued \/ AfterSignal
  BY <1>2, <1>4 DEF AfterJobQueued, AfterSignal, modelVars, RowsRemain
<1>5. CASE AfterJobStarted
  BY <1>2, <1>5, FinishRunStands, VerdictType DEF AfterJobStarted, EndStates, modelVars, RowsRemain
<1>6. CASE AfterJobFinished
  <2>1. RowsRemain
    BY <1>6, TrimsNothing DEF AfterJobFinished, RemoveRows, RowsRemain
  <2> QED
    BY <1>2, <1>6, <2>1 DEF AfterJobFinished
<1>7. CASE CancelAllStep
  <2>1. CASE Top.rest = {}
    BY <1>2, <1>7, <2>1 DEF CancelAllStep, modelVars, RowsRemain
  <2>2. CASE Top.rest # {}
    BY <1>1, <1>7, <2>2, LoopStands, CancelJobStands DEF CancelAllStep, modelVars, RowsRemain
  <2> QED
    BY <2>1, <2>2
<1>8. CASE CancelUnwantedStep
  BY <1>1, <1>2, <1>8, EndQueuedOfStands DEF CancelUnwantedStep, EndStates, modelVars, RowsRemain
<1>9. CASE SessionRowsStep
  BY <1>1, <1>2, <1>9, EndQueuedOfStands, RequestStopStands DEF SessionRowsStep, EndStates, modelVars, RowsRemain
<1>10. CASE ShutdownStep
  <2>1. At("shutdownWait", NoJob) \in Frames /\ Walkable(At("shutdownWait", NoJob))
    BY FrameTypes DEF At, Walkable, Walks
  <2>2. Stands(Push(At("shutdownWait", NoJob), Below))
    BY <1>2, <2>1, PushStands
  <2> QED
    BY <1>1, <1>2, <1>10, <2>2, EndQueuedOfStands, RequestStopStands
       DEF ShutdownStep, EndStates, modelVars, RowsRemain
<1>11. CASE ShutdownWait
  BY <1>2, <1>11, FinishRunStands, VerdictType DEF ShutdownWait
<1>12. CASE StartNextStep
  <2>1. CASE UNCHANGED modelVars /\ stack' = Below
    BY <1>2, <2>1 DEF modelVars, RowsRemain
  <2>2. CASE QueuedJobs # {}
    <3>1. PICK j \in JobIds : j = Oldest(QueuedJobs)
      BY <2>2, OldestIsLeast DEF QueuedJobs
    <3>2. CASE EndJob(j, "Superseded", stack)
      BY <1>2, <3>1, <3>2, EndStands DEF EndStates
    <3>3. CASE state' = [state EXCEPT ![j] = "Running"] /\ stack' = Push(At("jobStarted", j), stack)
      <4>1. At("jobStarted", j) \in Frames /\ Walkable(At("jobStarted", j))
        BY FrameTypes DEF At, Walkable, Walks
      <4> QED
        BY <1>2, <3>3, <4>1, PushStands DEF RowsRemain, TypeOK, RecordsOK
    <3> QED
      BY <1>12, <2>1, <3>1, <3>2, <3>3 DEF StartNextStep
  <2> QED
    BY <1>12, <2>1, <2>2 DEF StartNextStep
<1> QED
  BY <1>3, <1>4, <1>5, <1>6, <1>7, <1>8, <1>9, <1>10, <1>11, <1>12 DEF Resume

LEMMA NextStands ==
  ASSUME TypeOK, RowsStay, SnapshotsStand, [Next]_vars
  PROVE  SnapshotsStand'
<1> USE DEF Loops, Emissions
<1>0. Stands(stack) /\ Stands(Push(Signal, stack))
  BY SignalStands DEF Stands, SnapshotsStand, TypeOK, FramesOK
\* a loop begins
<1>a. ASSUME NEW p \in Loops, NEW S \in SUBSET JobIds, \A j \in S : state[j] # "Removed",
             stack' = Push(Over(p, S), stack), UNCHANGED state
      PROVE  SnapshotsStand'
  <2>1. Over(p, S) \in Frames /\ Walkable(Over(p, S))
    BY <1>a, FrameTypes DEF Over, Walkable
  <2> QED
    BY <1>0, <1>a, <2>1, PushStands, StandsAfter DEF RowsRemain
<1>b. ASSUME stack' = stack \/ stack' = Push(Signal, stack), UNCHANGED state
      PROVE  SnapshotsStand'
  BY <1>0, <1>b, StandsAfter DEF RowsRemain
<1>1. ASSUME NEW k \in Keys, Request(k)
      PROVE  SnapshotsStand'
  <2>1. At("rowsInserted", nextId) \in Frames /\ Walkable(At("rowsInserted", nextId))
    BY <1>1, FrameTypes DEF Request, TypeOK, JobIds, At, Walkable, Walks
  <2>2. RowsRemain
    BY <1>1 DEF Request, RowsRemain, TypeOK, RecordsOK
  <2> QED
    BY <1>0, <1>1, <2>1, <2>2, PushStands, StandsAfter DEF Request
<1>2. ASSUME NEW j \in JobIds, Cancel(j)
      PROVE  SnapshotsStand'
  BY <1>0, <1>2, CancelJobStands, StandsAfter DEF Cancel
<1>3. CASE CancelAll
  <2>1. PICK S \in SUBSET JobIds : S \subseteq Active /\ stack' = Push(Over("cancelAll", S), stack)
    BY <1>3 DEF CancelAll, Active
  <2> QED
    BY <1>a, <1>3, <2>1 DEF CancelAll, modelVars, Active, IsActive
<1>4. CASE CancelUnwantedQueued
  <2>1. PICK S \in SUBSET JobIds : S \subseteq QueuedJobs /\ stack' = Push(Over("cancelUnwanted", S), stack)
    BY <1>4 DEF CancelUnwantedQueued, QueuedJobs
  <2> QED
    BY <1>a, <1>4, <2>1 DEF CancelUnwantedQueued, modelVars, QueuedJobs, Queued
<1>5. CASE Shutdown
  BY <1>a, <1>5 DEF Shutdown, modelVars, QueuedJobs, Queued
<1>6. ASSUME NEW S \in SUBSET JobIds, RemoveFinished(S)
      PROVE  SnapshotsStand'
  BY <1>6 DEF RemoveFinished, RowsStay, InEventLoop, SnapshotsStand, FramesOf
<1>7. CASE StartNext
  <2>1. At("startNext", NoJob) \in Frames /\ Walkable(At("startNext", NoJob))
    BY FrameTypes DEF At, Walkable, Walks
  <2> QED
    BY <1>0, <1>7, <2>1, PushStands, StandsAfter DEF StartNext, modelVars, RowsRemain
<1>8. ASSUME NEW j \in JobIds, OnProgress(j)
      PROVE  SnapshotsStand'
  BY <1>b, <1>8 DEF OnProgress
<1>9. ASSUME NEW j \in JobIds, OnWorkerFinished(j)
      PROVE  SnapshotsStand'
  <2>1. CASE run.job = j
    BY <1>0, <1>9, <2>1, FinishRunStands, VerdictType, StandsAfter DEF OnWorkerFinished, HasRun, NoJob, JobIds
  <2>2. CASE run.job # j
    BY <1>b, <1>9, <2>2 DEF OnWorkerFinished, modelVars
  <2> QED
    BY <2>1, <2>2
<1>10. CASE Worker
  BY <1>b, <1>10 DEF Worker, WorkerReport, WorkerReturn, modelVars
<1>11. CASE SessionSide
  <2>1. ASSUME NEW r, NEW L, SessionRowsChanged(r, L), UNCHANGED state
        PROVE  SnapshotsStand'
    BY <1>a, <1>b, <2>1 DEF SessionRowsChanged, QueuedJobs, Queued
  <2>2. ASSUME NEW s \in Sessions, RemoveSession(s) \/ ReplaceSession(s)
        PROVE  SnapshotsStand'
    BY <2>1, <2>2 DEF RemoveSession, ReplaceSession, modelVars
  <2>3. ASSUME NEW s \in Sessions, LoadSession(s) \/ EvictSession(s)
        PROVE  SnapshotsStand'
    BY <1>b, <2>3 DEF LoadSession, EvictSession, modelVars
  <2>4. CASE \/ \E K \in SUBSET Keys : EngineChange(K) \/ SilentChange(K)
             \/ \E k \in Keys : RequestSynchronously(k)
             \/ DestroySessionModel
    BY <1>b, <2>4 DEF EngineChange, SilentChange, RequestSynchronously, DestroySessionModel, StopRunIfRefused, modelVars
  <2> QED
    BY <1>11, <2>2, <2>3, <2>4 DEF SessionSide
<1>12. CASE Resume
  BY <1>12, ResumeStands, StandsAfter
<1>13. CASE UNCHANGED vars
  BY <1>b, <1>13 DEF vars, modelVars
<1> QED
  BY <1>1, <1>2, <1>3, <1>4, <1>5, <1>6, <1>7, <1>8, <1>9, <1>10, <1>11, <1>12, <1>13 DEF Next, Calls, Events

-------------------------------------------------------------------------------
LEMMA InitHeld ==
  ASSUME Init
  PROVE  Held /\ FinishesCounted /\ SnapshotsStand
<1>1. Active = {} /\ Len(stack) = 0
  BY DEF Init, Active, IsActive
<1>2. \A s : JobsOf(s) = {} /\ Owed(stack, s) = {}
  BY <1>1 DEF JobsOf, Owed
<1>3. PinsBalanced
  <2>1. \A s \in Sessions : pins[s] = 0 /\ Cardinality(JobsOf(s)) = 0 /\ Count(stack, s) = 0
    BY <1>2, FS_EmptySet DEF Init, Count
  <2> QED
    BY <2>1, PinsAreOwed
<1>4. OrphansAreSeen
  BY <1>1 DEF OrphansAreSeen
<1>5. NothingWithoutModel /\ RemovedRowsAreBlank /\ PendingIsFlagged /\ StaleRunIsStopped
  BY DEF Init, NothingWithoutModel, RemovedRowsAreBlank, PendingIsFlagged, StaleRunIsStopped, HasRun, NoRun
<1>6. FinishesCounted
  BY DEF Init, FinishesCounted
<1>7. SnapshotsStand
  BY <1>1 DEF SnapshotsStand, FramesOf
<1> QED
  BY <1>3, <1>4, <1>5, <1>6, <1>7 DEF Held

LEMMA NextHeld ==
  ASSUME Inv, Held, [Next]_vars
  PROVE  Held'
<1>1. CASE UNCHANGED vars
  <2>1. stack' = stack /\ UNCHANGED <<state, key, cancelRequested, run, pins, alive, loaded>>
    BY <1>1 DEF vars, modelVars, sessionVars
  <2>2. OwesTheSame(stack') /\ RowsKept(stack', {})
    BY <2>1, StackHeld DEF Inv
  <2> QED
    BY <2>1, <2>2, StackOnlyHeld
<1> QED
  BY <1>1, CallsHeld, ResumeHeld, EventsHeld, WorkerHeld, SessionSideHeld DEF Next

LEMMA HeldAlways == Spec => []Held
<1>1. Init => Held
  BY InitHeld
<1>2. Inv /\ Held /\ [Next]_vars => Held'
  BY NextHeld
<1> QED
  BY <1>1, <1>2, QueueInvariant, PTL DEF Spec

\* A session is pinned once per active job and per end that is being signalled,
\* and no active job is without its session in the event loop unless it was asked
\* to stop: whatever the slots call, also if they remove rows of the model that a
\* loop still holds.  (request, endJob, evictSession, onSessionRowsChanged)
THEOREM SessionsAreNeverLost == Spec => [](PinsBalanced /\ JobsHaveSessions)
<1>1. Held => PinsBalanced /\ JobsHaveSessions
  BY DEF Held, OrphansAreSeen, JobsHaveSessions, InEventLoop, FramesOf
<1> QED
  BY <1>1, HeldAlways, PTL

\* If every engine change is signalled, a run whose ticket was refused has been
\* asked to stop, or the function that is going to ask it is on the stack.
\* (stopRunIfRefused, onSessionRowsChanged; an eviction reaches no run)
THEOREM StaleRunsAreStopped == Spec => []StaleRunIsStopped
<1>1. Held => StaleRunIsStopped
  BY DEF Held
<1> QED
  BY <1>1, HeldAlways, PTL

\* jobFinished is emitted at most once per job as long as no row is removed that
\* one of the three loops over a snapshot still holds.  (endJob)
THEOREM JobsEndOnce == Spec /\ []SnapshotsStand => []EndsOnce
<1>1. Init => FinishesCounted
  BY InitHeld
<1>2. Inv /\ FinishesCounted /\ SnapshotsStand /\ [Next]_vars => FinishesCounted'
  BY NextCounts
<1>3. FinishesCounted => EndsOnce
  BY DEF FinishesCounted, EndsOnce
<1> QED
  BY <1>1, <1>2, <1>3, QueueInvariant, PTL DEF Spec

LEMMA SnapshotsAlwaysStand ==
  ASSUME RowsStay
  PROVE  Spec => []SnapshotsStand
<1>1. Init => SnapshotsStand
  BY InitHeld
<1>2. Inv /\ SnapshotsStand /\ [Next]_vars => SnapshotsStand'
  BY NextStands DEF Inv
<1> QED
  BY <1>1, <1>2, QueueInvariant, PTL DEF Spec

\* A session stays in memory for as long as a job needs it, and no longer, and
\* every job ends once: when slots remove no rows and the model keeps as many
\* finished rows as there are jobs.
THEOREM SessionsAlwaysHeld ==
  ASSUME RowsStay
  PROVE  Spec => []SessionsAreHeld
<1>1. PinsBalanced /\ JobsHaveSessions /\ EndsOnce => SessionsAreHeld
  BY DEF SessionsAreHeld
<1> QED
  BY <1>1, SessionsAreNeverLost, JobsEndOnce, SnapshotsAlwaysStand, PTL

===============================================================================
