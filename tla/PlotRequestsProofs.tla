-------------------------- MODULE PlotRequestsProofs --------------------------
(* Proofs about PlotRequests for any plots, tracks and calculations, and for  *)
(* users, sessions and a worker that take any number of steps.                *)
EXTENDS PlotRequests, TLAPS

-------------------------------------------------------------------------------
(* The inductive invariant                                                    *)

\* What waits is checked and shown, what goes on also waits, and was asked for.
FlagsAreAsked(r, a) ==
  r.waiting \subseteq Inspected(r) /\ r.continues \subseteq r.waiting /\ r.continues \subseteq a

HasJob(J, x) == \E j \in J : j.track = x[2] /\ ~j.stop
HaveJobs(S, J) == \A x \in S : HasJob(J, x)

IsNeeded(r, j) == j.track \in r.tracks /\ \E p \in r.checked : j.calc \in Needs[p]
QueuedNeeded(r) == \A j \in r.jobs : ~j.running => IsNeeded(r, j)

Alike(i, j) ==
  (i.running /\ j.running) \/ (<<i.track, i.calc>> = <<j.track, j.calc>> /\ ~i.stop /\ ~j.stop)
OneEach(J) == \A i, j \in J : (i.stop => i.running) /\ (Alike(i, j) => i = j)

\* A row that nobody is about to look at again is up to date.
RowIsTrue(r, x) == r.shown[x] = Now(r)[x] \/ (r.shown[x] = "NotApplicable" /\ Now(r)[x] = "Missing")
RowsAreTrue(r) == ~r.timer => \A x \in Pairs : RowIsTrue(r, x)

Sound(r, a) ==
  /\ r \in State
  /\ FlagsAreAsked(r, a)
  /\ HaveJobs(r.continues, r.jobs)
  /\ QueuedNeeded(r)
  /\ OneEach(r.jobs)
  /\ RowsAreTrue(r)

IInv == Sound(w, asked) /\ asked \subseteq Pairs

-------------------------------------------------------------------------------
(* The operators                                                              *)

\* q has the plots, the sessions and the results of r.
SameDesk(q, r) ==
  /\ q.checked = r.checked /\ q.tracks = r.tracks /\ q.loaded = r.loaded
  /\ q.result = r.result /\ q.nothing = r.nothing

\* What is blocked depends on the results alone, and blockers are needed.
LEMMA BlockersSame ==
  ASSUME NEW r, NEW q, NEW p, NEW t, q.result = r.result
  PROVE  Blockers(q, p, t) = Blockers(r, p, t)
BY DEF Blockers

LEMMA BlockersNeeded ==
  ASSUME NEW r, NEW p, NEW t
  PROVE  Blockers(r, p, t) \subseteq Needs[p]
BY DEF Blockers

\* A live blocker is a job of the track that is not asked to stop.
LEMMA LiveIsJob ==
  ASSUME NEW r, NEW p, NEW t, LiveBlockers(r, p, t) # {}
  PROVE  \E j \in r.jobs : j.track = t /\ ~j.stop
<1>1. PICK k \in Blockers(r, p, t) : <<t, k>> \in LiveJobs(r)
  BY DEF LiveBlockers
<1> QED BY <1>1 DEF LiveJobs

\* What a row would show depends on the desk, the jobs and the refusals.
LEMMA NowSame ==
  ASSUME NEW r, NEW q, SameDesk(q, r), q.jobs = r.jobs, q.refused = r.refused
  PROVE  Now(q) = Now(r)
<1>1. Inspected(q) = Inspected(r)
  BY DEF Inspected, SameDesk
<1>2. ASSUME NEW p, NEW t PROVE Classify(q, p, t) = Classify(r, p, t)
  <2>1. q.result = r.result
    BY DEF SameDesk
  <2>2. Blockers(q, p, t) = Blockers(r, p, t) /\ Produced(q, p, t) = Produced(r, p, t) /\ LiveJobs(q) = LiveJobs(r)
    BY <2>1 DEF Blockers, Produced, LiveJobs
  <2>3. LiveBlockers(q, p, t) = LiveBlockers(r, p, t)
    BY <2>2 DEF LiveBlockers
  <2> QED BY <2>2, <2>3 DEF Classify
<1> QED BY <1>1, <1>2 DEF Now

LEMMA NowIsShown ==
  ASSUME NEW r
  PROVE  Now(r) \in [Pairs -> {"None", "Available", "Failed", "Pending", "NotApplicable", "Missing"}]
BY DEF Now, Classify

LEMMA ScheduleFields ==
  ASSUME NEW r \in State
  PROVE  LET q == ScheduleUpdate(r)
         IN  /\ q \in State /\ SameDesk(q, r) /\ q.jobs = r.jobs /\ q.waiting = r.waiting
             /\ q.continues = r.continues /\ q.refused = r.refused /\ q.shown = r.shown /\ q.timer = TRUE
BY DEF ScheduleUpdate, State, SameDesk

LEMMA WithoutFields ==
  ASSUME NEW r \in State, NEW S
  PROVE  LET q == Without(r, S)
         IN  /\ q \in State /\ SameDesk(q, r) /\ q.jobs = r.jobs /\ q.waiting = r.waiting \ S
             /\ q.continues = r.continues \ S /\ q.refused = r.refused /\ q.shown = r.shown /\ q.timer = r.timer
BY DEF Without, State, SameDesk

LEMMA JobsFields ==
  ASSUME NEW r \in State, NEW J \in SUBSET Job
  PROVE  LET q == [r EXCEPT !.jobs = J]
         IN  /\ q \in State /\ SameDesk(q, r) /\ q.jobs = J /\ q.waiting = r.waiting
             /\ q.continues = r.continues /\ q.refused = r.refused /\ q.shown = r.shown /\ q.timer = r.timer
BY DEF State, SameDesk

LEMMA StopContinuingFields ==
  ASSUME NEW r \in State, NEW T
  PROVE  LET q == StopContinuing(r, T)
         IN  /\ q \in State /\ SameDesk(q, r) /\ q.jobs = r.jobs
             /\ q.waiting = r.waiting \ {x \in r.continues : x[2] \in T \ r.tracks}
             /\ q.continues = {x \in r.continues : x[2] \in T => x[2] \in r.tracks /\ LiveBlockers(r, x[1], x[2]) # {}}
             /\ q.refused = r.refused /\ q.shown = r.shown /\ q.timer = r.timer
BY DEF StopContinuing, State, SameDesk

\* After jobs of the tracks T have gone or been marked, what still goes on has a
\* job, if what is of other tracks has one.
LEMMA StoppedFields ==
  ASSUME NEW r \in State, NEW T
  PROVE  LET q == OnJobsStopped(r, T)
         IN  /\ q \in State /\ SameDesk(q, r) /\ q.jobs = r.jobs
             /\ q.refused = r.refused /\ q.shown = r.shown
             /\ q.waiting \subseteq r.waiting /\ q.continues \subseteq r.continues
             /\ r.continues \subseteq r.waiting => q.continues \subseteq q.waiting
             /\ (T = {} => q = r) /\ (T # {} => q.timer = TRUE)
             /\ \A x \in q.continues : x[2] \in T => HasJob(r.jobs, x)
<1>1. CASE T = {}
  BY <1>1 DEF OnJobsStopped, SameDesk
<1>2. CASE T # {}
  <2> DEFINE s == StopContinuing(r, T)
             q == ScheduleUpdate(s)
  <2>1. OnJobsStopped(r, T) = q
    BY <1>2 DEF OnJobsStopped
  <2>2. /\ s \in State /\ SameDesk(s, r) /\ s.jobs = r.jobs
        /\ s.waiting = r.waiting \ {x \in r.continues : x[2] \in T \ r.tracks}
        /\ s.continues = {x \in r.continues : x[2] \in T => x[2] \in r.tracks /\ LiveBlockers(r, x[1], x[2]) # {}}
        /\ s.refused = r.refused /\ s.shown = r.shown
    BY StopContinuingFields
  <2>3. /\ q \in State /\ SameDesk(q, s) /\ q.jobs = s.jobs /\ q.waiting = s.waiting
        /\ q.continues = s.continues /\ q.refused = s.refused /\ q.shown = s.shown /\ q.timer = TRUE
    BY <2>2, ScheduleFields
  <2> HIDE DEF s, q
  <2>4. SameDesk(q, r)
    BY <2>2, <2>3 DEF SameDesk
  <2>5. ASSUME NEW x \in q.continues, x[2] \in T PROVE HasJob(r.jobs, x)
    BY <2>2, <2>3, <2>5, LiveIsJob DEF HasJob
  <2>6. r.continues \subseteq r.waiting => q.continues \subseteq q.waiting
    BY <2>2, <2>3
  <2> QED BY <1>2, <2>1, <2>2, <2>3, <2>4, <2>5, <2>6
<1> QED BY <1>1, <1>2

\* What goes on after jobs ended, or were asked to stop, has one of those left.
LEMMA EndFields ==
  ASSUME NEW r \in State, NEW S \in SUBSET r.jobs
  PROVE  LET q == EndJobs(r, S)
         IN  /\ q \in State /\ SameDesk(q, r) /\ q.jobs = r.jobs \ S
             /\ q.refused = r.refused /\ q.shown = r.shown
             /\ q.waiting \subseteq r.waiting /\ q.continues \subseteq r.continues
             /\ r.continues \subseteq r.waiting => q.continues \subseteq q.waiting
             /\ S # {} => q.timer = TRUE
             /\ HaveJobs(r.continues, r.jobs) => HaveJobs(q.continues, q.jobs)
<1> DEFINE s == [r EXCEPT !.jobs = @ \ S]
           T == {j.track : j \in S}
           q == OnJobsStopped(s, T)
<1>1. EndJobs(r, S) = q
  BY DEF EndJobs
<1>2. r.jobs \ S \in SUBSET Job
  BY DEF State
<1>3. /\ s \in State /\ SameDesk(s, r) /\ s.jobs = r.jobs \ S /\ s.waiting = r.waiting
      /\ s.continues = r.continues /\ s.refused = r.refused /\ s.shown = r.shown
  BY <1>2, JobsFields
<1>4. \A j \in r.jobs : j \in r.jobs \ S \/ j.track \in T \/ j.stop
  OBVIOUS
<1>5. S # {} => T # {}
  OBVIOUS
<1> HIDE DEF s, T
<1>6. /\ q \in State /\ SameDesk(q, s) /\ q.jobs = s.jobs
      /\ q.refused = s.refused /\ q.shown = s.shown
      /\ q.waiting \subseteq s.waiting /\ q.continues \subseteq s.continues
      /\ s.continues \subseteq s.waiting => q.continues \subseteq q.waiting
      /\ (T # {} => q.timer = TRUE)
      /\ \A x \in q.continues : x[2] \in T => HasJob(s.jobs, x)
  BY <1>3, StoppedFields
<1> HIDE DEF q
<1>7. ASSUME HaveJobs(r.continues, r.jobs) PROVE HaveJobs(q.continues, q.jobs)
  <2>1. q.continues \subseteq r.continues
    BY <1>3, <1>6
  <2>2. \A j \in r.jobs : j \in q.jobs \/ j.track \in T \/ j.stop
    BY <1>4, <1>3, <1>6
  <2>3. \A x \in q.continues : x[2] \in T => HasJob(q.jobs, x)
    BY <1>6
  <2> QED BY <1>7, <2>1, <2>2, <2>3 DEF HaveJobs, HasJob
<1>8. SameDesk(q, r)
  BY <1>3, <1>6 DEF SameDesk
<1> QED BY <1>1, <1>3, <1>5, <1>6, <1>7, <1>8

\* The queue once some of its jobs are cancelled.
Cancelled(J, S) == (J \ S) \union {[j EXCEPT !.stop = TRUE] : j \in {x \in S : x.running}}

LEMMA CancelFields ==
  ASSUME NEW r \in State, NEW S \in SUBSET r.jobs
  PROVE  LET q == CancelJobs(r, S)
         IN  /\ q \in State /\ SameDesk(q, r)
             /\ q.jobs = Cancelled(r.jobs, S)
             /\ q.refused = r.refused /\ q.shown = r.shown
             /\ q.waiting \subseteq r.waiting /\ q.continues \subseteq r.continues
             /\ r.continues \subseteq r.waiting => q.continues \subseteq q.waiting
             /\ (\E j \in S : ~j.stop) => q.timer = TRUE
             /\ q.timer = TRUE \/ q.timer = r.timer
             /\ HaveJobs(r.continues, r.jobs) => HaveJobs(q.continues, q.jobs)
<1> DEFINE L == (r.jobs \ S) \union {[j EXCEPT !.stop = TRUE] : j \in {x \in S : x.running}}
           s == [r EXCEPT !.jobs = (@ \ S) \union {[j EXCEPT !.stop = TRUE] : j \in {x \in S : x.running}}]
           T == {j.track : j \in {x \in S : ~x.stop}}
           q == OnJobsStopped(s, T)
<1>1. CancelJobs(r, S) = q
  BY DEF CancelJobs
<1>2. L \in SUBSET Job
  <2>1. r.jobs \subseteq Job
    BY DEF State
  <2>2. \A j \in Job : [j EXCEPT !.stop = TRUE] \in Job
    BY DEF Job
  <2> QED BY <2>1, <2>2
<1>3. s = [r EXCEPT !.jobs = L]
  OBVIOUS
<1>4. \A j \in r.jobs : j \in L \/ j.track \in T \/ j.stop
  OBVIOUS
<1>5. (\E j \in S : ~j.stop) => T # {}
  OBVIOUS
<1> HIDE DEF s, T, L
<1>6. /\ s \in State /\ SameDesk(s, r) /\ s.jobs = L /\ s.waiting = r.waiting /\ s.timer = r.timer
      /\ s.continues = r.continues /\ s.refused = r.refused /\ s.shown = r.shown
  BY <1>2, <1>3, JobsFields
<1>7. /\ q \in State /\ SameDesk(q, s) /\ q.jobs = s.jobs
      /\ q.refused = s.refused /\ q.shown = s.shown
      /\ q.waiting \subseteq s.waiting /\ q.continues \subseteq s.continues
      /\ s.continues \subseteq s.waiting => q.continues \subseteq q.waiting
      /\ (T = {} => q = s) /\ (T # {} => q.timer = TRUE)
      /\ \A x \in q.continues : x[2] \in T => HasJob(s.jobs, x)
  BY <1>6, StoppedFields
<1> HIDE DEF q
<1>8. ASSUME HaveJobs(r.continues, r.jobs) PROVE HaveJobs(q.continues, q.jobs)
  <2>1. q.continues \subseteq r.continues
    BY <1>6, <1>7
  <2>2. \A j \in r.jobs : j \in q.jobs \/ j.track \in T \/ j.stop
    BY <1>4, <1>6, <1>7
  <2>3. \A x \in q.continues : x[2] \in T => HasJob(q.jobs, x)
    BY <1>7
  <2> QED BY <1>8, <2>1, <2>2, <2>3 DEF HaveJobs, HasJob
<1>9. SameDesk(q, r)
  BY <1>6, <1>7 DEF SameDesk
<1>10. q.timer = TRUE \/ q.timer = r.timer
  BY <1>6, <1>7
<1> QED BY <1>1, <1>5, <1>6, <1>7, <1>8, <1>9, <1>10 DEF L, Cancelled

\* A request makes jobs that are not there yet for what a value is blocked by.
LEMMA RequestFields ==
  ASSUME IsPlotRequests, NEW r \in State, NEW S, S \subseteq Pairs
  PROVE  LET q == RequestBlockers(r, S)
             created == q.jobs \ r.jobs
         IN  /\ q \in State /\ SameDesk(q, r) /\ r.jobs \subseteq q.jobs
             /\ q.waiting = r.waiting /\ q.continues = r.continues /\ q.shown = r.shown
             /\ \A j \in created :
                  /\ ~j.running /\ ~j.stop /\ <<j.track, j.calc>> \notin LiveJobs(r)
                  /\ \E x \in S : j.track = x[2] /\ j.calc \in Needs[x[1]]
             /\ \A i, j \in created : <<i.track, i.calc>> = <<j.track, j.calc>> => i = j
<1> DEFINE requests == Wanted(r, S) \ (r.refused \union LiveJobs(r))
           new == {[track |-> x[1], calc |-> x[2], running |-> FALSE, stop |-> FALSE] : x \in requests \ r.nothing}
           q == RequestBlockers(r, S)
<1>1. ASSUME NEW y \in Wanted(r, S)
      PROVE  \E x \in S : \E k \in Needs[x[1]] : y = <<x[2], k>> /\ x[2] \in Tracks /\ k \in Calcs
  <2>1. PICK x \in S : \E k \in Blockers(r, x[1], x[2]) : y = <<x[2], k>>
    BY DEF Wanted
  <2>2. x[1] \in Plots /\ x[2] \in Tracks
    BY DEF Pairs
  <2> QED BY <2>1, <2>2, BlockersNeeded DEF IsPlotRequests
<1>2. requests \subseteq Keys
  BY <1>1 DEF Keys
<1>3. new \subseteq Job
  <2> SUFFICES ASSUME NEW y \in Keys
               PROVE  [track |-> y[1], calc |-> y[2], running |-> FALSE, stop |-> FALSE] \in Job
    BY <1>2
  <2> QED BY DEF Keys, Job
<1>4. \A j \in new : /\ ~j.running /\ ~j.stop /\ <<j.track, j.calc>> \notin LiveJobs(r)
                     /\ \E x \in S : j.track = x[2] /\ j.calc \in Needs[x[1]]
  <2> SUFFICES ASSUME NEW y \in requests \ r.nothing, NEW j, j = [track |-> y[1], calc |-> y[2], running |-> FALSE, stop |-> FALSE]
               PROVE  /\ ~j.running /\ ~j.stop /\ <<j.track, j.calc>> \notin LiveJobs(r)
                      /\ \E x \in S : j.track = x[2] /\ j.calc \in Needs[x[1]]
    OBVIOUS
  <2>1. PICK x \in S : \E k \in Needs[x[1]] : y = <<x[2], k>>
    BY <1>1
  <2> QED BY <2>1
<1>5. \A i, j \in new : <<i.track, i.calc>> = <<j.track, j.calc>> => i = j
  <2> SUFFICES ASSUME NEW x \in requests \ r.nothing, NEW y \in requests \ r.nothing, x[1] = y[1] /\ x[2] = y[2]
               PROVE  [track |-> x[1], calc |-> x[2], running |-> FALSE, stop |-> FALSE]
                        = [track |-> y[1], calc |-> y[2], running |-> FALSE, stop |-> FALSE]
    OBVIOUS
  <2> QED OBVIOUS
<1>6. q = [r EXCEPT !.refused = @ \union (requests \intersect r.nothing),
                    !.jobs = @ \union new, !.timer = @ \/ new # {}]
  BY DEF RequestBlockers
<1> HIDE DEF new, requests, q
<1>7. /\ q \in State /\ SameDesk(q, r) /\ q.jobs = r.jobs \union new
      /\ q.waiting = r.waiting /\ q.continues = r.continues /\ q.shown = r.shown
  BY <1>2, <1>3, <1>6 DEF State, SameDesk
<1> QED BY <1>4, <1>5, <1>7 DEF q

LEMMA RecomputeFields ==
  ASSUME NEW r \in State
  PROVE  LET q == Recompute(r)
         IN  /\ q \in State /\ SameDesk(q, r) /\ q.jobs = r.jobs /\ q.refused = r.refused
             /\ q.shown = Now(r) /\ q.waiting \subseteq Inspected(q) /\ q.continues \subseteq r.continues
             /\ r.continues \subseteq r.waiting => q.continues \subseteq q.waiting
             /\ RowsAreTrue(q)
<1> DEFINE pending == {x \in Pairs : Now(r)[x] = "Pending"}
           open == {x \in Inspected(r) : OfPlot(pending, x[1]) # {}}
           q == Recompute(r)
<1>1. Inspected(r) \subseteq Pairs
  BY DEF Inspected, State, Pairs
<1>2. pending \subseteq Inspected(r)
  BY DEF Now
<1>3. q = [r EXCEPT !.timer = FALSE, !.shown = Now(r),
                    !.waiting = (@ \intersect open) \union pending,
                    !.continues = @ \intersect open]
  BY DEF Recompute
<1>4. open \subseteq Inspected(r)
  OBVIOUS
<1> HIDE DEF pending, open, q
<1>5. /\ q \in State /\ SameDesk(q, r) /\ q.jobs = r.jobs /\ q.refused = r.refused /\ q.shown = Now(r)
      /\ q.waiting = (r.waiting \intersect open) \union pending /\ q.continues = r.continues \intersect open
  BY <1>1, <1>2, <1>3, <1>4, NowIsShown DEF State, SameDesk
<1>6. Inspected(q) = Inspected(r)
  BY <1>5 DEF Inspected, SameDesk
<1>7. Now(q) = Now(r)
  BY <1>5, NowSame
<1>8. RowsAreTrue(q)
  BY <1>5, <1>7 DEF RowsAreTrue, RowIsTrue
<1> QED BY <1>2, <1>4, <1>5, <1>6, <1>8 DEF q

\* Queued jobs that are left by a pruning are needed.
LEMMA PruneFields ==
  ASSUME NEW r \in State
  PROVE  LET q == PruneUnwantedQueued(r)
         IN  /\ q \in State /\ SameDesk(q, r) /\ q.jobs \subseteq r.jobs
             /\ q.refused = r.refused /\ q.shown = r.shown
             /\ q.waiting \subseteq r.waiting /\ q.continues \subseteq r.continues
             /\ r.continues \subseteq r.waiting => q.continues \subseteq q.waiting
             /\ HaveJobs(r.continues, r.jobs) => HaveJobs(q.continues, q.jobs)
             /\ QueuedNeeded(q)
<1> DEFINE S == {j \in r.jobs : ~j.running /\ <<j.track, j.calc>> \notin Wanted(r, Inspected(r))}
           q == EndJobs(r, S)
<1>1. PruneUnwantedQueued(r) = q
  BY DEF PruneUnwantedQueued
<1>2. /\ q \in State /\ SameDesk(q, r) /\ q.jobs = r.jobs \ S
      /\ q.refused = r.refused /\ q.shown = r.shown
      /\ q.waiting \subseteq r.waiting /\ q.continues \subseteq r.continues
      /\ r.continues \subseteq r.waiting => q.continues \subseteq q.waiting
      /\ HaveJobs(r.continues, r.jobs) => HaveJobs(q.continues, q.jobs)
  BY EndFields
<1>3. ASSUME NEW j \in r.jobs, <<j.track, j.calc>> \in Wanted(r, Inspected(r))
      PROVE  IsNeeded(r, j)
  <2>1. PICK x \in Inspected(r) : \E k \in Blockers(r, x[1], x[2]) : <<j.track, j.calc>> = <<x[2], k>>
    BY <1>3 DEF Wanted
  <2>2. x[1] \in r.checked /\ x[2] \in r.tracks
    BY DEF Inspected
  <2>3. j.calc \in Needs[x[1]] /\ j.track = x[2]
    BY <2>1, BlockersNeeded
  <2> QED BY <2>2, <2>3 DEF IsNeeded
<1> HIDE DEF q
<1>4. ASSUME NEW j \in q.jobs, ~j.running PROVE IsNeeded(q, j)
  <2>1. IsNeeded(r, j)
    BY <1>2, <1>3, <1>4
  <2> QED BY <1>2, <2>1 DEF IsNeeded, SameDesk
<1> QED BY <1>1, <1>2, <1>4 DEF QueuedNeeded

LEMMA DependencyFields ==
  ASSUME NEW r \in State, NEW t, NEW relevant \in BOOLEAN
  PROVE  LET q == OnDependencyChanged(r, t, relevant)
         IN  /\ q \in State /\ SameDesk(q, r) /\ q.jobs = r.jobs /\ q.waiting = r.waiting
             /\ q.continues = r.continues /\ q.refused \subseteq r.refused /\ q.shown = r.shown
             /\ q.timer = (r.timer \/ relevant)
BY DEF OnDependencyChanged, State, SameDesk

\* When jobs are made for what goes on, what still goes on has a job.
LEMMA ContinueFields ==
  ASSUME IsPlotRequests, NEW r \in State, NEW t, r.waiting \subseteq Inspected(r), r.continues \subseteq r.waiting
  PROVE  LET q == ContinueAfter(r, t)
             created == q.jobs \ r.jobs
         IN  /\ q \in State /\ SameDesk(q, r) /\ r.jobs \subseteq q.jobs
             /\ q.waiting = r.waiting /\ q.continues \subseteq r.continues /\ q.shown = r.shown
             /\ \A j \in created :
                  /\ ~j.running /\ ~j.stop /\ <<j.track, j.calc>> \notin LiveJobs(r)
                  /\ \E x \in r.continues : j.track = x[2] /\ j.calc \in Needs[x[1]]
             /\ \A i, j \in created : <<i.track, i.calc>> = <<j.track, j.calc>> => i = j
             /\ \A x \in q.continues : x[2] = t => HasJob(q.jobs, x)
<1> DEFINE asks == {x \in r.continues : x[1] \in r.checked /\ x[2] = t}
           next == RequestBlockers(r, asks)
           q == ContinueAfter(r, t)
<1>1. r.continues \subseteq Inspected(r) /\ Inspected(r) \subseteq Pairs
  BY DEF Inspected, State, Pairs
<1>2. \A x \in r.continues : x[1] \in r.checked /\ x[2] \in r.tracks
  BY <1>1 DEF Inspected
<1>3. CASE t \notin r.tracks
  <2>1. asks = {}
    BY <1>2, <1>3
  <2>2. q = Without(r, {})
    BY <1>3, <2>1 DEF ContinueAfter
  <2>3. /\ q \in State /\ SameDesk(q, r) /\ q.jobs = r.jobs /\ q.waiting = r.waiting
        /\ q.continues = r.continues /\ q.shown = r.shown
    <3>1. r.waiting \ {} = r.waiting /\ r.continues \ {} = r.continues
      OBVIOUS
    <3>2. LET z == Without(r, {})
          IN  /\ z \in State /\ SameDesk(z, r) /\ z.jobs = r.jobs /\ z.waiting = r.waiting \ {}
              /\ z.continues = r.continues \ {} /\ z.shown = r.shown
      BY WithoutFields
    <3> HIDE DEF q
    <3> QED BY <2>2, <3>1, <3>2
  <2> QED BY <1>2, <1>3, <2>3
<1>4. CASE t \in r.tracks
  <2> DEFINE C == {x \in r.continues : x \in asks => LiveBlockers(next, x[1], t) # {}}
  <2>1. asks \subseteq Pairs
    BY <1>1
  <2>2. /\ next \in State /\ SameDesk(next, r) /\ r.jobs \subseteq next.jobs
        /\ next.waiting = r.waiting /\ next.continues = r.continues /\ next.shown = r.shown
        /\ \A j \in next.jobs \ r.jobs :
             /\ ~j.running /\ ~j.stop /\ <<j.track, j.calc>> \notin LiveJobs(r)
             /\ \E x \in asks : j.track = x[2] /\ j.calc \in Needs[x[1]]
        /\ \A i, j \in next.jobs \ r.jobs : <<i.track, i.calc>> = <<j.track, j.calc>> => i = j
    BY <2>1, RequestFields
  <2>3. q = [next EXCEPT !.continues = C]
    BY <1>4, <2>2 DEF ContinueAfter
  <2>4. \A x \in C : x[2] = t => LiveBlockers(next, x[1], t) # {}
    BY <1>2
  <2>12. C \subseteq r.continues
    OBVIOUS
  <2>7. \A j \in next.jobs \ r.jobs : \E x \in r.continues : j.track = x[2] /\ j.calc \in Needs[x[1]]
    BY <2>2
  <2> HIDE DEF C, next, q, asks
  <2>5. ASSUME NEW x \in C, x[2] = t PROVE HasJob(next.jobs, x)
    <3>1. LiveBlockers(next, x[1], t) # {}
      BY <2>4, <2>5
    <3> QED BY <2>5, <3>1, LiveIsJob DEF HasJob
  <2>8. /\ q \in State /\ SameDesk(q, next) /\ q.jobs = next.jobs
        /\ q.waiting = next.waiting /\ q.continues = C /\ q.shown = next.shown
    BY <2>2, <2>3, <2>12 DEF State, SameDesk
  <2>9. SameDesk(q, r)
    BY <2>2, <2>8 DEF SameDesk
  <2>10. \A j \in next.jobs \ r.jobs : ~j.running /\ ~j.stop /\ <<j.track, j.calc>> \notin LiveJobs(r)
    BY <2>2
  <2>11. \A i, j \in next.jobs \ r.jobs : <<i.track, i.calc>> = <<j.track, j.calc>> => i = j
    BY <2>2
  <2> QED BY <2>2, <2>5, <2>12, <2>7, <2>8, <2>9, <2>10, <2>11 DEF q
<1> QED BY <1>3, <1>4

-------------------------------------------------------------------------------
(* The actions                                                                *)

\* Jobs that are not for anything new are asked for.
LEMMA NoNewJobs ==
  ASSUME \A j \in w'.jobs : \E i \in w.jobs : j.track = i.track /\ j.calc = i.calc
  PROVE  NewJobsAreAsked
<1>1. JobPairs(w') \subseteq JobPairs(w)
  BY DEF JobPairs
<1> QED BY <1>1 DEF NewJobsAreAsked

LEMMA InitSound == ASSUME IsPlotRequests, Init PROVE IInv
<1>1. w \in State
  BY DEF Init, State
<1> QED BY <1>1 DEF Init, IInv, Sound, FlagsAreAsked, HaveJobs, QueuedNeeded, OneEach, RowsAreTrue, RowIsTrue, Now, Inspected, Pairs

\* A step that only adds what is looked at, or forgets, and has it looked at again.
LEMMA WiderSound ==
  ASSUME IInv, NEW q \in State, q.timer = TRUE, q.jobs = w.jobs, q.waiting = w.waiting, q.continues = w.continues,
         w.checked \subseteq q.checked, w.tracks \subseteq q.tracks
  PROVE  Sound(q, asked)
<1>1. Inspected(w) \subseteq Inspected(q)
  BY DEF Inspected
<1>2. FlagsAreAsked(q, asked)
  BY <1>1 DEF IInv, Sound, FlagsAreAsked
<1>3. QueuedNeeded(q)
  BY DEF IInv, Sound, QueuedNeeded, IsNeeded
<1> QED BY <1>2, <1>3 DEF IInv, Sound, RowsAreTrue

LEMMA WiderSteps ==
  ASSUME IInv,
         \/ \E p \in Plots : CheckPlot(p)
         \/ \E t \in Tracks : ShowTrack(t) \/ ImportTrack(t)
         \/ RegistryChanged
  PROVE  IInv' /\ NewJobsAreAsked
<1>1. w \in State
  BY DEF IInv, Sound
<1>2. /\ w' \in State /\ w'.timer = TRUE /\ w'.jobs = w.jobs /\ w'.waiting = w.waiting /\ w'.continues = w.continues
      /\ w.checked \subseteq w'.checked /\ w.tracks \subseteq w'.tracks /\ asked' = asked
  <2>1. CASE \E p \in Plots : CheckPlot(p)
    <3>1. PICK p \in Plots : w' = ScheduleUpdate([w EXCEPT !.checked = @ \union {p}]) /\ asked' = asked
      BY <2>1 DEF CheckPlot
    <3> DEFINE u == [w EXCEPT !.checked = @ \union {p}]
    <3>2. /\ u \in State /\ u.jobs = w.jobs /\ u.waiting = w.waiting /\ u.continues = w.continues
          /\ w.checked \subseteq u.checked /\ w.tracks \subseteq u.tracks
      BY <1>1 DEF State
    <3> HIDE DEF u
    <3>3. w' = ScheduleUpdate(u)
      BY <3>1 DEF u
    <3> QED BY <3>1, <3>2, <3>3, ScheduleFields DEF SameDesk
  <2>2. CASE \E t \in Tracks : ShowTrack(t)
    <3>1. PICK t \in Tracks : w' = ScheduleUpdate([w EXCEPT !.tracks = @ \union {t}]) /\ asked' = asked
      BY <2>2 DEF ShowTrack
    <3> DEFINE u == [w EXCEPT !.tracks = @ \union {t}]
    <3>2. /\ u \in State /\ u.jobs = w.jobs /\ u.waiting = w.waiting /\ u.continues = w.continues
          /\ w.checked \subseteq u.checked /\ w.tracks \subseteq u.tracks
      BY <1>1 DEF State
    <3> HIDE DEF u
    <3>3. w' = ScheduleUpdate(u)
      BY <3>1 DEF u
    <3> QED BY <3>1, <3>2, <3>3, ScheduleFields DEF SameDesk
  <2>3. CASE \E t \in Tracks : ImportTrack(t)
    <3>1. PICK t \in Tracks : w' = ScheduleUpdate([w EXCEPT !.loaded = @ \union {t}, !.refused = {}]) /\ asked' = asked
      BY <2>3 DEF ImportTrack
    <3> DEFINE u == [w EXCEPT !.loaded = @ \union {t}, !.refused = {}]
    <3>2. /\ u \in State /\ u.jobs = w.jobs /\ u.waiting = w.waiting /\ u.continues = w.continues
          /\ w.checked \subseteq u.checked /\ w.tracks \subseteq u.tracks
      BY <1>1 DEF State
    <3> HIDE DEF u
    <3>3. w' = ScheduleUpdate(u)
      BY <3>1 DEF u
    <3> QED BY <3>1, <3>2, <3>3, ScheduleFields DEF SameDesk
  <2>4. CASE RegistryChanged
    <3>1. PICK n \in SUBSET (Refusable \intersect (w.loaded \X Calcs)) :
            w' = ScheduleUpdate([w EXCEPT !.nothing = n, !.refused = {}])
      BY <2>4 DEF RegistryChanged
    <3>2. n \subseteq Keys
      BY <1>1 DEF State, Keys
    <3> QED BY <1>1, <2>4, <3>1, <3>2 DEF RegistryChanged, ScheduleUpdate, State
  <2> QED BY <2>1, <2>2, <2>3, <2>4
<1>3. Sound(w', asked)
  BY <1>2, WiderSound
<1>4. NewJobsAreAsked
  BY <1>2, NoNewJobs
<1> QED BY <1>2, <1>3, <1>4 DEF IInv

\* A plot or a track goes: it leaves the waiting sets, and its queued jobs go.
LEMMA PrunedSound ==
  ASSUME IInv, NEW u \in State, u.jobs = w.jobs, u.waiting = w.waiting, u.continues = w.continues,
         NEW S, w.waiting \ S \subseteq Inspected(u), NEW a, w.continues \ S \subseteq a,
         w' = ScheduleUpdate(PruneUnwantedQueued(Without(u, S)))
  PROVE  Sound(w', a) /\ w'.jobs \subseteq w.jobs
<1> DEFINE v == Without(u, S)
           z == PruneUnwantedQueued(v)
<1>1. /\ v \in State /\ SameDesk(v, u) /\ v.jobs = w.jobs /\ v.waiting = w.waiting \ S
      /\ v.continues = w.continues \ S
  BY WithoutFields
<1>2. HaveJobs(v.continues, v.jobs) /\ v.continues \subseteq v.waiting
  BY <1>1 DEF IInv, Sound, HaveJobs, FlagsAreAsked
<1> HIDE DEF v
<1>3. /\ z \in State /\ SameDesk(z, v) /\ z.jobs \subseteq v.jobs
      /\ z.waiting \subseteq v.waiting /\ z.continues \subseteq v.continues
      /\ z.continues \subseteq z.waiting
      /\ HaveJobs(z.continues, z.jobs)
      /\ QueuedNeeded(z)
  BY <1>1, <1>2, PruneFields
<1>4. w' = ScheduleUpdate(z)
  BY DEF v
<1> HIDE DEF z
<1>5. /\ w' \in State /\ SameDesk(w', z) /\ w'.jobs = z.jobs /\ w'.waiting = z.waiting
      /\ w'.continues = z.continues /\ w'.timer = TRUE
  BY <1>3, <1>4, ScheduleFields
<1>6. Inspected(w') = Inspected(u)
  BY <1>1, <1>3, <1>5 DEF SameDesk, Inspected
<1>7. FlagsAreAsked(w', a)
  BY <1>1, <1>3, <1>5, <1>6 DEF FlagsAreAsked
<1>8. QueuedNeeded(w')
  BY <1>3, <1>5 DEF QueuedNeeded, IsNeeded, SameDesk
<1>9. OneEach(w'.jobs)
  BY <1>1, <1>3, <1>5 DEF IInv, Sound, OneEach
<1>10. w'.jobs \subseteq w.jobs
  BY <1>1, <1>3, <1>5
<1> QED BY <1>3, <1>5, <1>7, <1>8, <1>9, <1>10 DEF Sound, RowsAreTrue

LEMMA UncheckStep ==
  ASSUME IInv, NEW p \in Plots, UncheckPlot(p)
  PROVE  IInv' /\ NewJobsAreAsked
<1> DEFINE u == [w EXCEPT !.checked = @ \ {p}]
           S == OfPlot(w.waiting, p)
           a == asked \ OfPlot(asked, p)
<1>1. w \in State /\ w.waiting \subseteq Inspected(w) /\ w.continues \subseteq w.waiting /\ w.continues \subseteq asked
  BY DEF IInv, Sound, FlagsAreAsked
<1>2. /\ u \in State /\ u.jobs = w.jobs /\ u.waiting = w.waiting /\ u.continues = w.continues
      /\ u.checked = w.checked \ {p} /\ u.tracks = w.tracks
  BY <1>1 DEF State
<1>3. w' = ScheduleUpdate(PruneUnwantedQueued(Without(u, S))) /\ asked' = a
  BY DEF UncheckPlot
<1> HIDE DEF u
<1>4. w.waiting \ S \subseteq Inspected(u)
  BY <1>1, <1>2 DEF Inspected, OfPlot
<1>5. w.continues \ S \subseteq a
  BY <1>1 DEF OfPlot
<1> HIDE DEF S, a
<1>6. Sound(w', a) /\ w'.jobs \subseteq w.jobs
  BY <1>2, <1>3, <1>4, <1>5, PrunedSound
<1>7. NewJobsAreAsked
  BY <1>6, NoNewJobs
<1>8. a \subseteq Pairs
  BY DEF a, IInv
<1> QED BY <1>3, <1>6, <1>7, <1>8 DEF IInv

LEMMA HideStep ==
  ASSUME IInv, NEW t \in Tracks, HideTrack(t)
  PROVE  IInv' /\ NewJobsAreAsked
<1> DEFINE u == [w EXCEPT !.tracks = @ \ {t}]
           S == OfTrack(w.waiting, t)
           a == asked \ OfTrack(asked, t)
<1>1. w \in State /\ w.waiting \subseteq Inspected(w) /\ w.continues \subseteq w.waiting /\ w.continues \subseteq asked
  BY DEF IInv, Sound, FlagsAreAsked
<1>2. /\ u \in State /\ u.jobs = w.jobs /\ u.waiting = w.waiting /\ u.continues = w.continues
      /\ u.checked = w.checked /\ u.tracks = w.tracks \ {t}
  BY <1>1 DEF State
<1>3. w' = ScheduleUpdate(PruneUnwantedQueued(Without(u, S))) /\ asked' = a
  BY DEF HideTrack
<1> HIDE DEF u
<1>4. w.waiting \ S \subseteq Inspected(u)
  BY <1>1, <1>2 DEF Inspected, OfTrack
<1>5. w.continues \ S \subseteq a
  BY <1>1 DEF OfTrack
<1> HIDE DEF S, a
<1>6. Sound(w', a) /\ w'.jobs \subseteq w.jobs
  BY <1>2, <1>3, <1>4, <1>5, PrunedSound
<1>7. NewJobsAreAsked
  BY <1>6, NoNewJobs
<1>8. a \subseteq Pairs
  BY DEF a, IInv
<1> QED BY <1>3, <1>6, <1>7, <1>8 DEF IInv

LEMMA CancelledOneEach ==
  ASSUME NEW J \in SUBSET Job, NEW S \in SUBSET J, OneEach(J)
  PROVE  /\ OneEach(Cancelled(J, S))
         /\ \A j \in Cancelled(J, S) : \E i \in J : j.track = i.track /\ j.calc = i.calc /\ j.running = i.running
         /\ \A j \in Cancelled(J, S) : ~j.running => j \in J \ S
<1>1. ASSUME NEW j \in Cancelled(J, S)
      PROVE  \/ j \in J \ S
             \/ j.running /\ j.stop /\ \E i \in S : i.running /\ j = [i EXCEPT !.stop = TRUE]
  BY DEF Cancelled, Job
<1>2. \A i \in S : /\ [i EXCEPT !.stop = TRUE].track = i.track /\ [i EXCEPT !.stop = TRUE].calc = i.calc
                    /\ [i EXCEPT !.stop = TRUE].running = i.running
  BY DEF Job
<1>3. ASSUME NEW i \in Cancelled(J, S), NEW j \in Cancelled(J, S), Alike(i, j) PROVE i = j
  <2>1. CASE i \in J \ S /\ j \in J \ S
    BY <1>3, <2>1 DEF OneEach
  <2>2. CASE i \notin J \ S
    <3>1. PICK x \in S : x.running /\ i = [x EXCEPT !.stop = TRUE]
      BY <1>1, <2>2
    <3>2. i.stop /\ j.running
      BY <1>1, <1>3, <2>2 DEF Alike
    <3>3. CASE j \in J \ S
      BY <3>1, <3>2, <3>3 DEF OneEach, Alike
    <3>4. CASE j \notin J \ S
      <4>1. PICK y \in S : y.running /\ j = [y EXCEPT !.stop = TRUE]
        BY <1>1, <3>4
      <4>2. x = y
        BY <3>1, <4>1 DEF OneEach, Alike
      <4> QED BY <3>1, <4>1, <4>2
    <3> QED BY <3>3, <3>4
  <2>3. CASE j \notin J \ S /\ i \in J \ S
    <3>1. PICK y \in S : y.running /\ j = [y EXCEPT !.stop = TRUE]
      BY <1>1, <2>3
    <3>2. i.running
      BY <1>1, <1>3, <2>3 DEF Alike
    <3> QED BY <2>3, <3>1, <3>2 DEF OneEach, Alike
  <2> QED BY <2>1, <2>2, <2>3
<1>4. \A j \in Cancelled(J, S) : j.stop => j.running
  BY <1>1 DEF OneEach
<1>5. ASSUME NEW j \in Cancelled(J, S)
      PROVE  \E i \in J : j.track = i.track /\ j.calc = i.calc /\ j.running = i.running
  <2>1. CASE j \in J \ S
    BY <2>1
  <2>2. CASE j \notin J \ S
    <3>1. PICK i \in S : j = [i EXCEPT !.stop = TRUE]
      BY <1>1, <2>2
    <3> QED BY <1>2, <3>1
  <2> QED BY <2>1, <2>2
<1>6. \A j \in Cancelled(J, S) : ~j.running => j \in J \ S
  BY <1>1
<1>7. OneEach(Cancelled(J, S))
  BY <1>3, <1>4 DEF OneEach
<1> QED BY <1>5, <1>6, <1>7

\* Asking jobs to stop that were asked before changes nothing.
LEMMA CancelledAgain ==
  ASSUME NEW J \in SUBSET Job, NEW S \in SUBSET J, OneEach(J), \A j \in S : j.stop
  PROVE  Cancelled(J, S) = J
<1>1. ASSUME NEW j \in S PROVE j.running /\ [j EXCEPT !.stop = TRUE] = j
  <2>1. j \in Job /\ j.stop
    OBVIOUS
  <2>2. [j EXCEPT !.stop = TRUE] = j
    BY <2>1 DEF Job
  <2> QED BY <2>1, <2>2 DEF OneEach
<1> QED BY <1>1 DEF Cancelled

LEMMA RemoveStep ==
  ASSUME IInv, NEW t \in Tracks, RemoveTrack(t)
  PROVE  IInv' /\ NewJobsAreAsked
<1> DEFINE gone == [w EXCEPT !.loaded = @ \ {t}, !.tracks = @ \ {t}, !.nothing = {x \in @ : x[1] # t},
                             !.result[t] = [k \in Calcs |-> "none"]]
           S == {j \in gone.jobs : j.track = t}
           left == CancelJobs(gone, S)
           fresh == [left EXCEPT !.refused = {}]
           away == {x \in left.waiting : x[2] \notin left.tracks}
           kept == Without(fresh, away)
           a == asked \ OfTrack(asked, t)
<1>1. /\ w \in State /\ w.waiting \subseteq Inspected(w) /\ w.continues \subseteq w.waiting /\ w.continues \subseteq asked
      /\ HaveJobs(w.continues, w.jobs) /\ QueuedNeeded(w) /\ OneEach(w.jobs)
  BY DEF IInv, Sound, FlagsAreAsked
<1>2. w' = ScheduleUpdate(kept) /\ asked' = a
  BY DEF RemoveTrack
<1>3. /\ gone \in State /\ gone.jobs = w.jobs /\ gone.waiting = w.waiting /\ gone.continues = w.continues
      /\ gone.checked = w.checked /\ gone.tracks = w.tracks \ {t}
  <2>1. [k \in Calcs |-> "none"] \in [Calcs -> {"none", "ok", "rejected"}]
    OBVIOUS
  <2>2. gone = [w EXCEPT !.loaded = w.loaded \ {t}, !.tracks = w.tracks \ {t}, !.nothing = {x \in w.nothing : x[1] # t},
                         !.result = [w.result EXCEPT ![t] = [k \in Calcs |-> "none"]]]
    BY <1>1 DEF State
  <2>3. [w.result EXCEPT ![t] = [k \in Calcs |-> "none"]] \in [Tracks -> [Calcs -> {"none", "ok", "rejected"}]]
    BY <1>1, <2>1 DEF State
  <2> HIDE DEF gone
  <2> QED BY <1>1, <2>2, <2>3 DEF State
<1>4. S = {j \in w.jobs : j.track = t} /\ S \in SUBSET gone.jobs /\ w.jobs \in SUBSET Job
  BY <1>1, <1>3 DEF State
<1> HIDE DEF gone, S
<1>5. /\ left \in State /\ SameDesk(left, gone) /\ left.jobs = Cancelled(w.jobs, S)
      /\ left.waiting \subseteq w.waiting /\ left.continues \subseteq w.continues
      /\ left.continues \subseteq left.waiting
      /\ HaveJobs(left.continues, left.jobs)
  <2>1. HaveJobs(gone.continues, gone.jobs) /\ gone.continues \subseteq gone.waiting
    BY <1>1, <1>3
  <2>2. /\ left \in State /\ SameDesk(left, gone) /\ left.jobs = Cancelled(gone.jobs, S)
        /\ left.waiting \subseteq gone.waiting /\ left.continues \subseteq gone.continues
        /\ gone.continues \subseteq gone.waiting => left.continues \subseteq left.waiting
        /\ HaveJobs(gone.continues, gone.jobs) => HaveJobs(left.continues, left.jobs)
    BY <1>3, <1>4, CancelFields
  <2> QED BY <1>3, <2>1, <2>2
<1> HIDE DEF left
<1>6. /\ fresh \in State /\ SameDesk(fresh, left) /\ fresh.jobs = left.jobs /\ fresh.waiting = left.waiting
      /\ fresh.continues = left.continues
  BY <1>5 DEF State, SameDesk
<1> HIDE DEF fresh, away
<1>7. /\ kept \in State /\ SameDesk(kept, fresh) /\ kept.jobs = fresh.jobs /\ kept.waiting = fresh.waiting \ away
      /\ kept.continues = fresh.continues \ away
  BY <1>6, WithoutFields
<1> HIDE DEF kept
<1>8. /\ w' \in State /\ SameDesk(w', kept) /\ w'.jobs = kept.jobs /\ w'.waiting = kept.waiting
      /\ w'.continues = kept.continues /\ w'.timer = TRUE
  BY <1>2, <1>7, ScheduleFields
<1>9. /\ w'.checked = w.checked /\ w'.tracks = w.tracks \ {t} /\ w'.jobs = Cancelled(w.jobs, S)
      /\ w'.waiting = left.waiting \ away /\ w'.continues = left.continues \ away
      /\ left.tracks = w.tracks \ {t}
  BY <1>3, <1>5, <1>6, <1>7, <1>8 DEF SameDesk
<1>10. \A x \in w'.waiting : x \in w.waiting /\ x[2] \in w.tracks \ {t}
  BY <1>5, <1>9 DEF away
<1>11. w'.waiting \subseteq Inspected(w')
  BY <1>1, <1>9, <1>10 DEF Inspected
<1>12. w'.continues \subseteq w'.waiting
  BY <1>5, <1>9
<1>13. w'.continues \subseteq a
  BY <1>1, <1>5, <1>9, <1>10, <1>12 DEF OfTrack
<1>14. HaveJobs(w'.continues, w'.jobs)
  BY <1>5, <1>9 DEF HaveJobs
<1>15. /\ OneEach(w'.jobs)
       /\ \A j \in w'.jobs : \E i \in w.jobs : j.track = i.track /\ j.calc = i.calc
       /\ \A j \in w'.jobs : ~j.running => j \in w.jobs \ S
  BY <1>1, <1>3, <1>4, <1>9, CancelledOneEach
<1>16. QueuedNeeded(w')
  BY <1>1, <1>4, <1>9, <1>15 DEF QueuedNeeded, IsNeeded
<1>17. NewJobsAreAsked
  BY <1>15, NoNewJobs
<1>18. a \subseteq Pairs
  BY DEF IInv
<1> QED BY <1>2, <1>8, <1>11, <1>12, <1>13, <1>14, <1>15, <1>16, <1>17, <1>18 DEF IInv, Sound, FlagsAreAsked, RowsAreTrue

LEMMA CancelPressedStep ==
  ASSUME IInv, NEW p \in Plots, CancelPressed(p)
  PROVE  IInv' /\ NewJobsAreAsked
<1> DEFINE v == Without(w, OfPlot(w.waiting, p))
           S == {j \in w.jobs : ~j.stop /\ <<j.track, j.calc>> \in Wanted(w, {p} \X w.tracks)}
           c == CancelJobs(v, S)
           a == asked \ OfPlot(asked, p)
<1>1. /\ w \in State /\ w.waiting \subseteq Inspected(w) /\ w.continues \subseteq w.waiting /\ w.continues \subseteq asked
      /\ HaveJobs(w.continues, w.jobs) /\ QueuedNeeded(w) /\ OneEach(w.jobs) /\ w.jobs \in SUBSET Job
  BY DEF IInv, Sound, FlagsAreAsked, State
<1>2. w' = Recompute(c) /\ asked' = a
  BY DEF CancelPressed
<1>3. /\ v \in State /\ SameDesk(v, w) /\ v.jobs = w.jobs
      /\ v.waiting = w.waiting \ OfPlot(w.waiting, p) /\ v.continues = w.continues \ OfPlot(w.waiting, p)
  BY <1>1, WithoutFields
<1>4. HaveJobs(v.continues, v.jobs) /\ v.continues \subseteq v.waiting /\ v.continues \subseteq a
  BY <1>1, <1>3 DEF HaveJobs, OfPlot
<1>5. S \in SUBSET v.jobs
  BY <1>3
<1> HIDE DEF v, S, a
<1>6. /\ c \in State /\ SameDesk(c, v) /\ c.jobs = Cancelled(w.jobs, S)
      /\ c.continues \subseteq v.continues /\ c.continues \subseteq c.waiting
      /\ HaveJobs(c.continues, c.jobs)
  <2>1. /\ c \in State /\ SameDesk(c, v) /\ c.jobs = Cancelled(v.jobs, S)
        /\ c.waiting \subseteq v.waiting /\ c.continues \subseteq v.continues
        /\ v.continues \subseteq v.waiting => c.continues \subseteq c.waiting
        /\ HaveJobs(v.continues, v.jobs) => HaveJobs(c.continues, c.jobs)
    BY <1>3, <1>5, CancelFields
  <2> QED BY <1>3, <1>4, <2>1
<1> HIDE DEF c
<1>7. /\ w' \in State /\ SameDesk(w', c) /\ w'.jobs = c.jobs
      /\ w'.waiting \subseteq Inspected(w') /\ w'.continues \subseteq c.continues
      /\ w'.continues \subseteq w'.waiting /\ RowsAreTrue(w')
  BY <1>2, <1>6, RecomputeFields
<1>8. FlagsAreAsked(w', a)
  BY <1>4, <1>6, <1>7 DEF FlagsAreAsked
<1>9. HaveJobs(w'.continues, w'.jobs)
  BY <1>6, <1>7 DEF HaveJobs
<1>10. /\ OneEach(w'.jobs)
       /\ \A j \in w'.jobs : \E i \in w.jobs : j.track = i.track /\ j.calc = i.calc
       /\ \A j \in w'.jobs : ~j.running => j \in w.jobs \ S
  BY <1>1, <1>3, <1>5, <1>6, <1>7, CancelledOneEach
<1>11. w'.checked = w.checked /\ w'.tracks = w.tracks
  BY <1>3, <1>6, <1>7 DEF SameDesk
<1>12. QueuedNeeded(w')
  BY <1>1, <1>10, <1>11 DEF QueuedNeeded, IsNeeded
<1>13. NewJobsAreAsked
  BY <1>10, NoNewJobs
<1>14. a \subseteq Pairs
  BY DEF a, IInv
<1> QED BY <1>2, <1>7, <1>8, <1>9, <1>10, <1>12, <1>13, <1>14 DEF IInv, Sound

LEMMA CancelInJobsStep ==
  ASSUME IInv, CancelInJobs
  PROVE  IInv' /\ NewJobsAreAsked
<1>1. /\ w \in State /\ FlagsAreAsked(w, asked) /\ HaveJobs(w.continues, w.jobs) /\ QueuedNeeded(w) /\ OneEach(w.jobs)
      /\ w.jobs \in SUBSET Job /\ RowsAreTrue(w)
  BY DEF IInv, Sound, State
<1>2. PICK j0 \in w.jobs : w' = CancelJobs(w, {j0})
  BY DEF CancelInJobs
<1> DEFINE S == {j0}
<1>3. S \in SUBSET w.jobs
  OBVIOUS
<1> HIDE DEF S
<1>4. /\ w' \in State /\ SameDesk(w', w) /\ w'.jobs = Cancelled(w.jobs, S)
      /\ w'.refused = w.refused /\ w'.shown = w.shown
      /\ w'.waiting \subseteq w.waiting /\ w'.continues \subseteq w.continues
      /\ w.continues \subseteq w.waiting => w'.continues \subseteq w'.waiting
      /\ (\E j \in S : ~j.stop) => w'.timer = TRUE
      /\ w'.timer = TRUE \/ w'.timer = w.timer
      /\ HaveJobs(w.continues, w.jobs) => HaveJobs(w'.continues, w'.jobs)
  BY <1>1, <1>2, <1>3, CancelFields DEF S
<1>5. Inspected(w') = Inspected(w) /\ asked' = asked
  BY <1>4 DEF Inspected, SameDesk, CancelInJobs
<1>6. FlagsAreAsked(w', asked')
  BY <1>1, <1>4, <1>5 DEF FlagsAreAsked
<1>7. /\ OneEach(w'.jobs)
      /\ \A j \in w'.jobs : \E i \in w.jobs : j.track = i.track /\ j.calc = i.calc
      /\ \A j \in w'.jobs : ~j.running => j \in w.jobs \ S
  BY <1>1, <1>3, <1>4, CancelledOneEach
<1>8. QueuedNeeded(w')
  BY <1>1, <1>4, <1>7 DEF QueuedNeeded, IsNeeded, SameDesk
<1>9. ASSUME ~w'.timer, NEW x \in Pairs PROVE RowIsTrue(w', x)
  <2>1. \A j \in S : j.stop
    BY <1>4, <1>9
  <2>2. w'.jobs = w.jobs
    BY <1>1, <1>3, <1>4, <2>1, CancelledAgain
  <2>3. Now(w') = Now(w)
    BY <1>4, <2>2, NowSame
  <2>4. ~w.timer
    BY <1>4, <1>9
  <2> QED BY <1>1, <1>4, <2>3, <2>4 DEF RowsAreTrue, RowIsTrue
<1>10. NewJobsAreAsked
  BY <1>7, NoNewJobs
<1> QED BY <1>1, <1>4, <1>5, <1>6, <1>7, <1>8, <1>9, <1>10 DEF IInv, Sound, RowsAreTrue

\* Jobs leave the queue and nothing else happens.
LEMMA EndedSound ==
  ASSUME IInv, NEW S \in SUBSET w.jobs, S # {}, NEW q, q = EndJobs(w, S)
  PROVE  Sound(q, asked) /\ q.jobs \subseteq w.jobs /\ SameDesk(q, w) /\ q.jobs = w.jobs \ S
<1>1. /\ w \in State /\ FlagsAreAsked(w, asked) /\ HaveJobs(w.continues, w.jobs) /\ QueuedNeeded(w) /\ OneEach(w.jobs)
  BY DEF IInv, Sound
<1>2. /\ q \in State /\ SameDesk(q, w) /\ q.jobs = w.jobs \ S
      /\ q.waiting \subseteq w.waiting /\ q.continues \subseteq w.continues
      /\ w.continues \subseteq w.waiting => q.continues \subseteq q.waiting
      /\ S # {} => q.timer = TRUE
      /\ HaveJobs(w.continues, w.jobs) => HaveJobs(q.continues, q.jobs)
  BY <1>1, EndFields
<1>3. Inspected(q) = Inspected(w)
  BY <1>2 DEF Inspected, SameDesk
<1>4. FlagsAreAsked(q, asked)
  BY <1>1, <1>2, <1>3 DEF FlagsAreAsked
<1>5. QueuedNeeded(q)
  BY <1>1, <1>2 DEF QueuedNeeded, IsNeeded, SameDesk
<1>6. OneEach(q.jobs)
  BY <1>1, <1>2 DEF OneEach
<1> QED BY <1>1, <1>2, <1>4, <1>5, <1>6 DEF Sound, RowsAreTrue

LEMMA StartStep ==
  ASSUME IInv, Start
  PROVE  IInv' /\ NewJobsAreAsked
<1> DEFINE runnable == {j \in w.jobs : Runnable(w, j)}
<1>1. /\ w \in State /\ FlagsAreAsked(w, asked) /\ HaveJobs(w.continues, w.jobs) /\ QueuedNeeded(w) /\ OneEach(w.jobs)
      /\ w.jobs \in SUBSET Job /\ asked \subseteq Pairs
  BY DEF IInv, Sound, State
<1>2. asked' = asked /\ (\A j \in w.jobs : ~j.running) /\ w.jobs # {}
  BY DEF Start
<1>3. CASE w' = EndJobs(w, w.jobs)
  <2>1. Sound(w', asked) /\ w'.jobs \subseteq w.jobs
    BY <1>2, <1>3, EndedSound
  <2>2. NewJobsAreAsked
    BY <2>1, NoNewJobs
  <2> QED BY <1>1, <1>2, <2>1, <2>2 DEF IInv
<1>4. CASE \E moot \in SUBSET (w.jobs \ runnable), j \in runnable :
             w' = ScheduleUpdate([EndJobs(w, moot) EXCEPT !.jobs = (@ \ {j}) \union {[j EXCEPT !.running = TRUE]}])
  <2>1. PICK moot \in SUBSET (w.jobs \ runnable), j \in runnable :
          w' = ScheduleUpdate([EndJobs(w, moot) EXCEPT !.jobs = (@ \ {j}) \union {[j EXCEPT !.running = TRUE]}])
    BY <1>4
  <2> DEFINE q == EndJobs(w, moot)
             run == [j EXCEPT !.running = TRUE]
             L == (q.jobs \ {j}) \union {run}
             u == [q EXCEPT !.jobs = L]
  <2>2. /\ q \in State /\ SameDesk(q, w) /\ q.jobs = w.jobs \ moot
        /\ q.waiting \subseteq w.waiting /\ q.continues \subseteq w.continues
        /\ w.continues \subseteq w.waiting => q.continues \subseteq q.waiting
        /\ HaveJobs(w.continues, w.jobs) => HaveJobs(q.continues, q.jobs)
    BY <1>1, EndFields
  <2>3. /\ j \in Job /\ j \in q.jobs /\ ~j.running /\ ~j.stop
        /\ run \in Job /\ run.running /\ ~run.stop /\ run.track = j.track /\ run.calc = j.calc
    <3>1. j \in w.jobs /\ j \in Job /\ j \in q.jobs /\ ~j.running /\ ~j.stop
      BY <1>1, <1>2, <2>2 DEF OneEach
    <3> QED BY <3>1 DEF Job
  <2>4. w' = ScheduleUpdate(u)
    <3>1. u = [q EXCEPT !.jobs = (@ \ {j}) \union {[j EXCEPT !.running = TRUE]}]
      BY <2>2 DEF State
    <3> HIDE DEF u, q
    <3> QED BY <2>1, <3>1 DEF q
  <2>5. L \in SUBSET Job
    BY <1>1, <2>2, <2>3
  <2> HIDE DEF q, run, u
  <2>6. /\ u \in State /\ SameDesk(u, q) /\ u.jobs = L /\ u.waiting = q.waiting
        /\ u.continues = q.continues
    BY <2>2, <2>5, JobsFields DEF u
  <2>7. /\ w' \in State /\ SameDesk(w', u) /\ w'.jobs = u.jobs /\ w'.waiting = u.waiting
        /\ w'.continues = u.continues /\ w'.timer = TRUE
    BY <2>4, <2>6, ScheduleFields
  <2>8. w'.checked = w.checked /\ w'.tracks = w.tracks
    BY <2>2, <2>6, <2>7 DEF SameDesk
  <2>9. FlagsAreAsked(w', asked)
    BY <1>1, <2>2, <2>6, <2>7, <2>8 DEF FlagsAreAsked, Inspected
  <2>10. HaveJobs(w'.continues, w'.jobs)
    BY <1>1, <2>2, <2>3, <2>6, <2>7 DEF HaveJobs, HasJob
  <2>11. QueuedNeeded(w')
    BY <1>1, <2>2, <2>3, <2>6, <2>7, <2>8 DEF QueuedNeeded, IsNeeded
  <2>12. OneEach(L)
    <3>1. ASSUME NEW i \in L, NEW k \in L, Alike(i, k) PROVE i = k
      <4>1. CASE i # run /\ k # run
        BY <1>1, <2>2, <3>1, <4>1 DEF OneEach
      <4>2. CASE i = run /\ k # run
        BY <1>1, <1>2, <2>2, <2>3, <3>1, <4>2 DEF OneEach, Alike
      <4>3. CASE i # run /\ k = run
        BY <1>1, <1>2, <2>2, <2>3, <3>1, <4>3 DEF OneEach, Alike
      <4> QED BY <4>1, <4>2, <4>3
    <3>2. \A i \in L : i.stop => i.running
      BY <1>1, <2>2, <2>3 DEF OneEach
    <3> QED BY <3>1, <3>2 DEF OneEach
  <2>13. \A i \in w'.jobs : \E k \in w.jobs : i.track = k.track /\ i.calc = k.calc
    BY <2>2, <2>3, <2>6, <2>7
  <2>14. NewJobsAreAsked
    BY <2>13, NoNewJobs
  <2> QED BY <1>1, <1>2, <2>6, <2>7, <2>9, <2>10, <2>11, <2>12, <2>14 DEF IInv, Sound, RowsAreTrue
<1> QED BY <1>3, <1>4 DEF Start

LEMMA UpdateStep ==
  ASSUME IInv, Update
  PROVE  IInv' /\ NewJobsAreAsked
<1>1. /\ w \in State /\ FlagsAreAsked(w, asked) /\ HaveJobs(w.continues, w.jobs) /\ QueuedNeeded(w) /\ OneEach(w.jobs)
      /\ asked \subseteq Pairs
  BY DEF IInv, Sound
<1>2. w' = Recompute(w) /\ asked' = asked
  BY DEF Update
<1>3. /\ w' \in State /\ SameDesk(w', w) /\ w'.jobs = w.jobs
      /\ w'.waiting \subseteq Inspected(w') /\ w'.continues \subseteq w.continues
      /\ w.continues \subseteq w.waiting => w'.continues \subseteq w'.waiting /\ RowsAreTrue(w')
  BY <1>1, <1>2, RecomputeFields
<1>4. FlagsAreAsked(w', asked) /\ RowsAreTrue(w')
  BY <1>1, <1>3 DEF FlagsAreAsked
<1>5. HaveJobs(w'.continues, w'.jobs)
  BY <1>1, <1>3 DEF HaveJobs
<1>6. QueuedNeeded(w')
  BY <1>1, <1>3 DEF QueuedNeeded, IsNeeded, SameDesk
<1>7. NewJobsAreAsked
  BY <1>3, NoNewJobs
<1> QED BY <1>1, <1>2, <1>3, <1>4, <1>5, <1>6, <1>7 DEF IInv, Sound

\* Jobs that are requested are queued, and no live job was there for the same.
LEMMA CreatedOneEach ==
  ASSUME NEW r, NEW L, r.jobs \subseteq L, OneEach(r.jobs),
         \A j \in L \ r.jobs : ~j.running /\ ~j.stop /\ <<j.track, j.calc>> \notin LiveJobs(r),
         \A i, j \in L \ r.jobs : <<i.track, i.calc>> = <<j.track, j.calc>> => i = j
  PROVE  OneEach(L)
<1>1. ASSUME NEW i \in L, NEW j \in L \ r.jobs, Alike(i, j) \/ Alike(j, i) PROVE i = j
  <2>1. <<i.track, i.calc>> = <<j.track, j.calc>> /\ ~i.stop
    BY <1>1 DEF Alike
  <2>2. i \notin r.jobs
    BY <2>1 DEF LiveJobs
  <2> QED BY <2>1, <2>2
<1>2. ASSUME NEW i \in L, NEW j \in L, Alike(i, j) PROVE i = j
  <2>1. CASE i \in r.jobs /\ j \in r.jobs
    BY <1>2, <2>1 DEF OneEach
  <2>2. CASE j \notin r.jobs
    BY <1>1, <1>2, <2>2
  <2>3. CASE i \notin r.jobs
    BY <1>1, <1>2, <2>3
  <2> QED BY <2>1, <2>2, <2>3
<1>3. \A i \in L : i.stop => i.running
  BY DEF OneEach
<1> QED BY <1>2, <1>3 DEF OneEach

LEMMA RequestMissingStep ==
  ASSUME IsPlotRequests, IInv, NEW p \in Plots, RequestMissing(p)
  PROVE  IInv' /\ NewJobsAreAsked
<1> DEFINE row == {p} \X w.tracks
           open == \E x \in row : LiveBlockers(w, p, x[2]) # {}
           start == IF open THEN w ELSE Without(w, OfPlot(w.waiting, p))
           each == RequestBlockers(start, row)
           got == {x \in row : LiveBlockers(each, p, x[2]) # {}}
           u == [each EXCEPT !.waiting = @ \union got, !.continues = @ \union got]
           a == asked \union row
<1>1. /\ w \in State /\ w.waiting \subseteq Inspected(w) /\ w.continues \subseteq w.waiting /\ w.continues \subseteq asked
      /\ HaveJobs(w.continues, w.jobs) /\ QueuedNeeded(w) /\ OneEach(w.jobs) /\ asked \subseteq Pairs
  BY DEF IInv, Sound, FlagsAreAsked
<1>2. w' = Recompute(u) /\ asked' = a /\ p \in w.checked
  BY DEF RequestMissing
<1>3. row \subseteq Inspected(w) /\ Inspected(w) \subseteq Pairs
  BY <1>1, <1>2 DEF Inspected, State, Pairs
<1>4. /\ start \in State /\ SameDesk(start, w) /\ start.jobs = w.jobs
      /\ start.waiting \subseteq w.waiting /\ start.continues \subseteq w.continues
      /\ start.continues \subseteq start.waiting
  <2>1. CASE open
    BY <1>1, <2>1 DEF SameDesk
  <2>2. CASE ~open
    <3>1. start = Without(w, OfPlot(w.waiting, p))
      BY <2>2
    <3>2. LET q == Without(w, OfPlot(w.waiting, p))
          IN  /\ q \in State /\ SameDesk(q, w) /\ q.jobs = w.jobs /\ q.waiting = w.waiting \ OfPlot(w.waiting, p)
              /\ q.continues = w.continues \ OfPlot(w.waiting, p)
      BY <1>1, WithoutFields
    <3> HIDE DEF start
    <3> QED BY <1>1, <3>1, <3>2
  <2> QED BY <2>1, <2>2
<1> HIDE DEF start
<1>5. row \subseteq Pairs
  BY <1>3
<1> HIDE DEF row
<1>6. /\ each \in State /\ SameDesk(each, start) /\ start.jobs \subseteq each.jobs
      /\ each.waiting = start.waiting /\ each.continues = start.continues /\ each.shown = start.shown
      /\ \A j \in each.jobs \ start.jobs :
           /\ ~j.running /\ ~j.stop /\ <<j.track, j.calc>> \notin LiveJobs(start)
           /\ \E x \in row : j.track = x[2] /\ j.calc \in Needs[x[1]]
      /\ \A i, j \in each.jobs \ start.jobs : <<i.track, i.calc>> = <<j.track, j.calc>> => i = j
  BY <1>4, <1>5, RequestFields
<1>7. got \subseteq row
  OBVIOUS
<1>8. ASSUME NEW x \in got PROVE HasJob(each.jobs, x)
  <2>1. LiveBlockers(each, p, x[2]) # {}
    OBVIOUS
  <2> HIDE DEF each, got
  <2> QED BY <2>1, LiveIsJob DEF HasJob
<1> HIDE DEF each, got
<1>9. /\ u \in State /\ SameDesk(u, each) /\ u.jobs = each.jobs
      /\ u.waiting = each.waiting \union got /\ u.continues = each.continues \union got
  BY <1>5, <1>6, <1>7 DEF State, SameDesk
<1> HIDE DEF u
<1>10. u.continues \subseteq u.waiting
  BY <1>4, <1>6, <1>9
<1>11. /\ w' \in State /\ SameDesk(w', u) /\ w'.jobs = u.jobs
       /\ w'.waiting \subseteq Inspected(w') /\ w'.continues \subseteq u.continues
       /\ u.continues \subseteq u.waiting => w'.continues \subseteq w'.waiting /\ RowsAreTrue(w')
  BY <1>2, <1>9, RecomputeFields
<1>12. RowsAreTrue(w')
  BY <1>10, <1>11
<1>13. w'.checked = w.checked /\ w'.tracks = w.tracks /\ w'.jobs = each.jobs
  BY <1>4, <1>6, <1>9, <1>11 DEF SameDesk
<1>14. FlagsAreAsked(w', a)
  BY <1>1, <1>4, <1>6, <1>7, <1>9, <1>10, <1>11 DEF FlagsAreAsked
<1>15. HaveJobs(w'.continues, w'.jobs)
  <2> SUFFICES ASSUME NEW x \in w'.continues PROVE HasJob(w'.jobs, x)
    BY DEF HaveJobs
  <2>1. CASE x \in got
    BY <1>8, <1>13, <2>1
  <2>2. CASE x \notin got
    <3>1. x \in w.continues /\ w.jobs \subseteq w'.jobs
      BY <1>4, <1>6, <1>9, <1>11, <1>13, <2>2
    <3> QED BY <1>1, <3>1 DEF HaveJobs, HasJob
  <2> QED BY <2>1, <2>2
<1>16. ASSUME NEW j \in w'.jobs, j \notin w.jobs
       PROVE  ~j.running /\ j.track \in w.tracks /\ j.calc \in Needs[p]
  <2>1. PICK x \in row : j.track = x[2] /\ j.calc \in Needs[x[1]]
    BY <1>4, <1>6, <1>13, <1>16
  <2>2. x[1] = p /\ x[2] \in w.tracks
    BY DEF row
  <2> QED BY <1>4, <1>6, <1>13, <1>16, <2>1, <2>2
<1>17. QueuedNeeded(w')
  BY <1>1, <1>2, <1>13, <1>16 DEF QueuedNeeded, IsNeeded
<1>18. OneEach(w'.jobs)
  <2>1. OneEach(start.jobs)
    BY <1>1, <1>4
  <2>2. \A j \in each.jobs \ start.jobs : ~j.running /\ ~j.stop /\ <<j.track, j.calc>> \notin LiveJobs(start)
    BY <1>6
  <2> QED BY <1>6, <1>13, <2>1, <2>2, CreatedOneEach
<1>19. NewJobsAreAsked
  <2> SUFFICES ASSUME NEW y \in JobPairs(w') \ JobPairs(w)
               PROVE  \E q \in w'.checked : <<q, y[1]>> \in asked' /\ y[2] \in Needs[q]
    BY DEF NewJobsAreAsked
  <2>1. PICK j \in w'.jobs : y = <<j.track, j.calc>>
    BY DEF JobPairs
  <2>2. j \notin w.jobs
    BY <2>1 DEF JobPairs
  <2>3. <<p, j.track>> \in row
    BY <1>16, <2>2 DEF row
  <2> QED BY <1>2, <1>13, <1>16, <2>1, <2>2, <2>3
<1> QED BY <1>1, <1>2, <1>5, <1>11, <1>12, <1>14, <1>15, <1>17, <1>18, <1>19 DEF IInv, Sound

LEMMA FinishStep ==
  ASSUME IsPlotRequests, IInv, NEW outcome \in {"ok", "rejected", "none"}, Finish(outcome)
  PROVE  IInv' /\ NewJobsAreAsked
<1>1. /\ w \in State /\ w.waiting \subseteq Inspected(w) /\ w.continues \subseteq w.waiting /\ w.continues \subseteq asked
      /\ HaveJobs(w.continues, w.jobs) /\ QueuedNeeded(w) /\ OneEach(w.jobs) /\ asked \subseteq Pairs
      /\ w.jobs \in SUBSET Job
  BY DEF IInv, Sound, FlagsAreAsked, State
<1>2. PICK j0 \in w.jobs :
        LET published == [w EXCEPT !.jobs = @ \ {j0}, !.result[j0.track][j0.calc] = outcome]
        IN  /\ j0.running
            /\ w' = IF j0.stop \/ outcome = "none" THEN EndJobs(w, {j0})
                    ELSE ScheduleUpdate(ContinueAfter(OnDependencyChanged(published, j0.track, TRUE), j0.track))
  BY DEF Finish
<1>3. asked' = asked
  BY DEF Finish
<1>4. CASE j0.stop \/ outcome = "none"
  <2>1. w' = EndJobs(w, {j0}) /\ {j0} \in SUBSET w.jobs
    BY <1>2, <1>4
  <2>2. Sound(w', asked) /\ w'.jobs \subseteq w.jobs
    BY <2>1, EndedSound
  <2>3. NewJobsAreAsked
    BY <2>2, NoNewJobs
  <2> QED BY <1>1, <1>3, <2>2, <2>3 DEF IInv
<1>5. CASE ~(j0.stop \/ outcome = "none")
  <2> DEFINE published == [w EXCEPT !.jobs = @ \ {j0}, !.result[j0.track][j0.calc] = outcome]
             told == OnDependencyChanged(published, j0.track, TRUE)
             q == ContinueAfter(told, j0.track)
  <2>1. w' = ScheduleUpdate(q)
    BY <1>2, <1>5
  <2>2. /\ published \in State /\ published.jobs = w.jobs \ {j0} /\ published.waiting = w.waiting
        /\ published.continues = w.continues /\ published.checked = w.checked /\ published.tracks = w.tracks
    <3>1. j0.track \in Tracks /\ j0.calc \in Calcs
      BY <1>1 DEF Job
    <3>2. [w.result EXCEPT ![j0.track] = [w.result[j0.track] EXCEPT ![j0.calc] = outcome]]
            \in [Tracks -> [Calcs -> {"none", "ok", "rejected"}]]
      BY <1>1, <3>1 DEF State
    <3>3. published = [w EXCEPT !.jobs = w.jobs \ {j0},
                                !.result = [w.result EXCEPT ![j0.track] = [w.result[j0.track] EXCEPT ![j0.calc] = outcome]]]
      BY <1>1, <3>1 DEF State
    <3> HIDE DEF published
    <3> QED BY <1>1, <3>2, <3>3 DEF State
  <2> HIDE DEF published
  <2>3. /\ told \in State /\ SameDesk(told, published) /\ told.jobs = published.jobs /\ told.waiting = published.waiting
        /\ told.continues = published.continues
    BY <2>2, DependencyFields
  <2> HIDE DEF told
  <2>4. told.waiting \subseteq Inspected(told) /\ told.continues \subseteq told.waiting
    BY <1>1, <2>2, <2>3 DEF Inspected, SameDesk
  <2>5. /\ q \in State /\ SameDesk(q, told) /\ told.jobs \subseteq q.jobs
        /\ q.waiting = told.waiting /\ q.continues \subseteq told.continues
        /\ \A j \in q.jobs \ told.jobs :
             /\ ~j.running /\ ~j.stop /\ <<j.track, j.calc>> \notin LiveJobs(told)
             /\ \E x \in told.continues : j.track = x[2] /\ j.calc \in Needs[x[1]]
        /\ \A i, j \in q.jobs \ told.jobs : <<i.track, i.calc>> = <<j.track, j.calc>> => i = j
        /\ \A x \in q.continues : x[2] = j0.track => HasJob(q.jobs, x)
    BY <2>3, <2>4, ContinueFields
  <2> HIDE DEF q
  <2>6. /\ w' \in State /\ SameDesk(w', q) /\ w'.jobs = q.jobs /\ w'.waiting = q.waiting
        /\ w'.continues = q.continues /\ w'.timer = TRUE
    BY <2>1, <2>5, ScheduleFields
  <2>7. /\ w'.checked = w.checked /\ w'.tracks = w.tracks /\ told.jobs = w.jobs \ {j0} /\ told.continues = w.continues
        /\ w'.waiting = w.waiting /\ w'.continues \subseteq w.continues /\ w'.jobs = q.jobs
    BY <2>2, <2>3, <2>5, <2>6 DEF SameDesk
  <2>8. Inspected(w') = Inspected(w)
    BY <2>7 DEF Inspected
  <2>9. FlagsAreAsked(w', asked)
    <3>1. w'.continues \subseteq w'.waiting
      <4>1. \A x \in w'.continues : x[2] = j0.track \/ x[2] # j0.track
        OBVIOUS
      <4> QED BY <1>1, <2>7
    <3> QED BY <1>1, <2>7, <2>8, <3>1 DEF FlagsAreAsked
  <2>10. ASSUME NEW x \in w'.continues PROVE HasJob(w'.jobs, x)
    <3>1. CASE x[2] = j0.track
      BY <2>5, <2>6, <3>1
    <3>2. CASE x[2] # j0.track
      <4>1. PICK j \in w.jobs : j.track = x[2] /\ ~j.stop
        BY <1>1, <2>7 DEF HaveJobs, HasJob
      <4>2. j \in w'.jobs
        BY <2>5, <2>7, <3>2, <4>1
      <4> QED BY <4>1, <4>2 DEF HasJob
    <3> QED BY <3>1, <3>2
  <2>11. ASSUME NEW j \in w'.jobs, j \notin w.jobs
         PROVE  ~j.running /\ \E x \in w.continues : j.track = x[2] /\ j.calc \in Needs[x[1]]
    BY <2>5, <2>7, <2>11
  <2>12. \A x \in w.continues : x[1] \in w.checked /\ x[2] \in w.tracks /\ x = <<x[1], x[2]>> /\ x \in asked
    BY <1>1 DEF Inspected
  <2>13. QueuedNeeded(w')
    BY <1>1, <2>7, <2>11, <2>12 DEF QueuedNeeded, IsNeeded
  <2>14. OneEach(w'.jobs)
    <3>1. OneEach(told.jobs)
      BY <1>1, <2>7 DEF OneEach
    <3>2. \A j \in q.jobs \ told.jobs : ~j.running /\ ~j.stop /\ <<j.track, j.calc>> \notin LiveJobs(told)
      BY <2>5
    <3> QED BY <2>5, <2>7, <3>1, <3>2, CreatedOneEach
  <2>15. NewJobsAreAsked
    <3> SUFFICES ASSUME NEW y \in JobPairs(w') \ JobPairs(w)
                 PROVE  \E p \in w'.checked : <<p, y[1]>> \in asked' /\ y[2] \in Needs[p]
      BY DEF NewJobsAreAsked
    <3>1. PICK j \in w'.jobs : y = <<j.track, j.calc>>
      BY DEF JobPairs
    <3>2. j \notin w.jobs
      BY <3>1 DEF JobPairs
    <3>3. PICK x \in w.continues : j.track = x[2] /\ j.calc \in Needs[x[1]]
      BY <2>11, <3>2
    <3> QED BY <1>3, <2>7, <2>12, <3>1, <3>3
  <2> QED BY <1>1, <1>3, <2>6, <2>9, <2>10, <2>13, <2>14, <2>15 DEF IInv, Sound, RowsAreTrue, HaveJobs
<1> QED BY <1>4, <1>5

\* An edit that nobody is told of changes no row of a plot that is checked, but
\* that it may forget a refusal.
LEMMA EditStep ==
  ASSUME IsPlotRequests, IInv, NEW t \in Tracks, NEW k \in Calcs, Edit(t, k)
  PROVE  IInv' /\ NewJobsAreAsked
<1> DEFINE affected == {j \in Calcs : j = k \/ k \in After[j]}
           cleared == [j \in Calcs |-> IF j \in affected THEN "none" ELSE w.result[t][j]]
           relevant(told) == told \/ \E p \in w.checked : k \in Needs[p]
<1>1. /\ w \in State /\ FlagsAreAsked(w, asked) /\ HaveJobs(w.continues, w.jobs) /\ QueuedNeeded(w) /\ OneEach(w.jobs)
      /\ asked \subseteq Pairs /\ RowsAreTrue(w) /\ w.jobs \in SUBSET Job /\ w.continues \subseteq w.waiting
  BY DEF IInv, Sound, FlagsAreAsked, State
<1>2. asked' = asked
  BY DEF Edit
<1>3. PICK told \in BOOLEAN,
           nothing \in {w.nothing, w.nothing \union ({<<t, k>>} \intersect Refusable), w.nothing \ {<<t, k>>}} :
        LET dropped == [w EXCEPT !.nothing = nothing,
                                 !.result[t] = [j \in Calcs |-> IF j \in affected THEN "none" ELSE @[j]]]
            runs == {j \in dropped.jobs : j.running /\ j.track = t /\ j.calc \in affected}
        IN  w' = OnDependencyChanged(CancelJobs(dropped, runs), t, relevant(told))
  BY DEF Edit
<1> DEFINE dropped == [w EXCEPT !.nothing = nothing,
                                !.result[t] = [j \in Calcs |-> IF j \in affected THEN "none" ELSE @[j]]]
           S == {j \in dropped.jobs : j.running /\ j.track = t /\ j.calc \in affected}
           c == CancelJobs(dropped, S)
<1>4. w' = OnDependencyChanged(c, t, relevant(told))
  BY <1>3
<1>5. /\ dropped \in State /\ dropped.jobs = w.jobs /\ dropped.waiting = w.waiting /\ dropped.continues = w.continues
      /\ dropped.checked = w.checked /\ dropped.tracks = w.tracks /\ dropped.refused = w.refused
      /\ dropped.shown = w.shown /\ dropped.timer = w.timer /\ dropped.result = [w.result EXCEPT ![t] = cleared]
  <2>1. nothing \subseteq Keys
    BY <1>1 DEF State, IsPlotRequests, Keys
  <2>2. cleared \in [Calcs -> {"none", "ok", "rejected"}]
    BY <1>1 DEF State
  <2>3. dropped = [w EXCEPT !.nothing = nothing, !.result = [w.result EXCEPT ![t] = cleared]]
    BY <1>1 DEF State
  <2>4. [w.result EXCEPT ![t] = cleared] \in [Tracks -> [Calcs -> {"none", "ok", "rejected"}]]
    BY <1>1, <2>2 DEF State
  <2> HIDE DEF dropped, cleared
  <2> QED BY <1>1, <2>1, <2>3, <2>4 DEF State
<1>6. S \in SUBSET dropped.jobs /\ S \in SUBSET w.jobs
  BY <1>5
<1>7. relevant(told) \in BOOLEAN
  OBVIOUS
<1> HIDE DEF dropped, S, relevant
<1>8. /\ c \in State /\ SameDesk(c, dropped)
      /\ c.jobs = Cancelled(dropped.jobs, S)
      /\ c.refused = dropped.refused /\ c.shown = dropped.shown
      /\ c.waiting \subseteq dropped.waiting /\ c.continues \subseteq dropped.continues
      /\ dropped.continues \subseteq dropped.waiting => c.continues \subseteq c.waiting
      /\ (\E j \in S : ~j.stop) => c.timer = TRUE
      /\ c.timer = TRUE \/ c.timer = dropped.timer
      /\ HaveJobs(dropped.continues, dropped.jobs) => HaveJobs(c.continues, c.jobs)
  BY <1>5, <1>6, CancelFields
<1> HIDE DEF c
<1>9. /\ w' \in State /\ SameDesk(w', c) /\ w'.jobs = c.jobs /\ w'.waiting = c.waiting
      /\ w'.continues = c.continues /\ w'.refused \subseteq c.refused /\ w'.shown = c.shown
      /\ w'.timer = (c.timer \/ relevant(told))
  BY <1>4, <1>7, <1>8, DependencyFields
<1>10. /\ w'.checked = w.checked /\ w'.tracks = w.tracks /\ w'.jobs = Cancelled(w.jobs, S)
       /\ w'.refused \subseteq w.refused /\ w'.shown = w.shown
       /\ w'.waiting \subseteq w.waiting /\ w'.continues \subseteq w.continues /\ w'.continues \subseteq w'.waiting
       /\ w'.result = [w.result EXCEPT ![t] = cleared]
  BY <1>1, <1>5, <1>8, <1>9 DEF SameDesk
<1>11. Inspected(w') = Inspected(w)
  BY <1>10 DEF Inspected
<1>12. FlagsAreAsked(w', asked)
  BY <1>1, <1>10, <1>11 DEF FlagsAreAsked
<1>13. HaveJobs(w'.continues, w'.jobs)
  BY <1>1, <1>5, <1>8, <1>9
<1>14. /\ OneEach(w'.jobs)
       /\ \A j \in w'.jobs : \E i \in w.jobs : j.track = i.track /\ j.calc = i.calc
       /\ \A j \in w'.jobs : ~j.running => j \in w.jobs \ S
  BY <1>1, <1>6, <1>10, CancelledOneEach
<1>15. QueuedNeeded(w')
  BY <1>1, <1>10, <1>14 DEF QueuedNeeded, IsNeeded
<1>16. ASSUME ~w'.timer, NEW x \in Pairs PROVE RowIsTrue(w', x)
  <2>1. ~c.timer /\ ~relevant(told)
    BY <1>9, <1>16
  <2>2. ~w.timer /\ \A j \in S : j.stop
    BY <1>5, <1>8, <2>1
  <2>3. w'.jobs = w.jobs
    BY <1>1, <1>6, <1>10, <2>2, CancelledAgain
  <2>4. CASE x \notin Inspected(w)
    BY <1>1, <1>10, <1>11, <2>2, <2>4 DEF RowsAreTrue, RowIsTrue, Now
  <2>5. CASE x \in Inspected(w)
    <3> DEFINE p == x[1]
               u == x[2]
    <3>1. p \in Plots /\ p \in w.checked /\ u \in Tracks /\ k \notin Needs[p]
      BY <1>1, <2>1, <2>5 DEF Inspected, State, relevant, Pairs
    <3>2. ASSUME NEW j \in Needs[p] PROVE j \in Calcs /\ j \notin affected /\ After[j] \subseteq Needs[p]
      BY <3>1, <3>2 DEF IsPlotRequests
    <3>3. ASSUME NEW j \in Needs[p] PROVE w'.result[u][j] = w.result[u][j]
      <4>1. CASE u = t
        BY <1>1, <1>10, <3>1, <3>2, <4>1 DEF State
      <4>2. CASE u # t
        BY <1>1, <1>10, <3>1, <4>2 DEF State
      <4> QED BY <4>1, <4>2
    <3> HIDE DEF p, u, affected, cleared
    <3>4. Blockers(w', p, u) = Blockers(w, p, u) /\ Produced(w', p, u) = Produced(w, p, u)
      BY <3>2, <3>3 DEF Blockers, Produced
    <3>5. LiveBlockers(w', p, u) = LiveBlockers(w, p, u)
      BY <2>3, <3>4 DEF LiveBlockers, LiveJobs
    <3>6. \/ Classify(w', p, u) = Classify(w, p, u)
          \/ Classify(w, p, u) = "NotApplicable" /\ Classify(w', p, u) = "Missing"
      BY <1>10, <3>4, <3>5 DEF Classify
    <3>7. Classify(w, p, u) = "Missing" => Classify(w', p, u) = "Missing"
      BY <3>6
    <3>8. Now(w')[x] = Classify(w', p, u) /\ Now(w)[x] = Classify(w, p, u)
      BY <1>11, <2>5 DEF Now, p, u
    <3>9. RowIsTrue(w, x)
      BY <1>1, <2>2 DEF RowsAreTrue
    <3> QED BY <1>10, <3>6, <3>7, <3>8, <3>9 DEF RowIsTrue
  <2> QED BY <2>4, <2>5
<1>17. NewJobsAreAsked
  BY <1>14, NoNewJobs
<1> QED BY <1>1, <1>2, <1>9, <1>12, <1>13, <1>14, <1>15, <1>16, <1>17 DEF IInv, Sound, RowsAreTrue

LEMMA StutterStep == ASSUME IInv, UNCHANGED vars PROVE IInv' /\ NewJobsAreAsked
<1>1. w' = w /\ asked' = asked
  BY DEF vars
<1>2. NewJobsAreAsked
  BY <1>1 DEF NewJobsAreAsked
<1> QED BY <1>1, <1>2 DEF IInv

LEMMA NextStep == ASSUME IsPlotRequests, IInv, [Next]_vars PROVE IInv' /\ NewJobsAreAsked
<1>1. CASE \E p \in Plots : CheckPlot(p) \/ UncheckPlot(p) \/ RequestMissing(p) \/ CancelPressed(p)
  BY <1>1, WiderSteps, UncheckStep, RequestMissingStep, CancelPressedStep
<1>2. CASE \E t \in Tracks : HideTrack(t) \/ ShowTrack(t) \/ RemoveTrack(t) \/ ImportTrack(t)
  BY <1>2, WiderSteps, HideStep, RemoveStep
<1>3. CASE \E t \in Tracks : \E k \in Calcs : Edit(t, k)
  BY <1>3, EditStep
<1>4. CASE CancelInJobs \/ RegistryChanged \/ Start \/ Update
  BY <1>4, WiderSteps, CancelInJobsStep, StartStep, UpdateStep
<1>5. CASE \E outcome \in {"ok", "rejected", "none"} : Finish(outcome)
  BY <1>5, FinishStep
<1>6. CASE UNCHANGED vars
  BY <1>6, StutterStep
<1> QED BY <1>1, <1>2, <1>3, <1>4, <1>5, <1>6 DEF Next

-------------------------------------------------------------------------------
(* The theorems                                                               *)

\* The inductive invariant of the plot list's requests: what the waiting sets,
\* the jobs and the rows have to do with each other, whatever the user, the
\* sessions, the plugins and the worker do.
THEOREM RequestsInvariant == ASSUME IsPlotRequests PROVE Spec => []IInv
<1>1. Init => IInv
  BY InitSound
<1>2. IInv /\ [Next]_vars => IInv'
  BY NextStep
<1> QED BY <1>1, <1>2, PTL DEF Spec

\* Every queued job is for what is checked and shown, whatever goes on has a job
\* that is not asked to stop, and jobs are not doubled: unchecking, hiding,
\* cancelling and removing leave no job and no flag behind.
THEOREM JobsAlwaysServe == ASSUME IsPlotRequests PROVE Spec => []JobsServePlots
<1>1. IInv => JobsServePlots
  BY DEF IInv, Sound, JobsServePlots, TypeOK, QueuedAreNeeded, QueuedNeeded, IsNeeded, FlagsHaveJobs, HaveJobs, HasJob,
         OneJobEach, OneEach, Alike
<1> QED BY <1>1, RequestsInvariant, PTL

\* A row on which no update is due shows of every track what is true of it, though
\* edits that no checked plot comes from schedule none.
THEOREM RowsAreAlwaysTrue == ASSUME IsPlotRequests PROVE Spec => []ShownIsTrue
<1>1. IInv => ShownIsTrue
  BY DEF IInv, Sound, ShownIsTrue, RowsAreTrue, RowIsTrue
<1> QED BY <1>1, RequestsInvariant, PTL

\* No step makes a job but for a plot and a track the user asked about and has not
\* taken back since, through chains of any length.
THEOREM OnlyGesturesStartWork == ASSUME IsPlotRequests PROVE Spec => OnlyAskedFor
<1>1. IInv /\ [Next]_vars => [NewJobsAreAsked]_vars
  BY NextStep
<1> QED BY <1>1, RequestsInvariant, PTL DEF Spec, OnlyAskedFor
===============================================================================
