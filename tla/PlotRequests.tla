----------------------------- MODULE PlotRequests -----------------------------
(***************************************************************************)
(* The plot list's requests for explicit calculations: what each checked   *)
(* plot shows about each track, which jobs a click asks for, how a chain   *)
(* of calculations goes on when a job succeeds, and which queued jobs are  *)
(* given up when nobody needs them (src/src/plotrequests.cpp), with the    *)
(* plot model it follows and the part of the job queue it calls.           *)
(*                                                                         *)
(* Everything runs on the main thread: every event is one action, and the  *)
(* slots it reaches are operators on the record w, in the order in which   *)
(* the code calls them.  The jobs are a set: of the queue's order nothing  *)
(* here depends but which job starts, and any may (JobQueue is about that).*)
(* A loop over jobs, tracks or plots is one step for all of them, as what  *)
(* it does for one is not undone or prevented by what it does for another. *)
(***************************************************************************)
EXTENDS Integers, FiniteSets

CONSTANTS
  Plots,        \* the plots backed by an explicit calculation
  Tracks,       \* sessions
  Calcs,        \* explicit calculations
  Needs,        \* Needs[p]: the calculations the value of a plot comes from
  After,        \* After[k]: the calculations whose results k rests on
  Refusable,    \* pairs <<track, calculation>> that may have nothing to run
  MaxJobs       \* bound: jobs in the queue

\* What a value comes from, at any depth: with a calculation, those it rests on.
IsPlotRequests ==
  /\ Needs \in [Plots -> SUBSET Calcs] /\ After \in [Calcs -> SUBSET Calcs]
  /\ \A p \in Plots : \A k \in Needs[p] : After[k] \subseteq Needs[p]
  /\ Refusable \subseteq Tracks \X Calcs

VARIABLES
  w,            \* the plot list, its requests and the queue, a record (see Init)
  asked         \* history: <<plot, track>> the user asked for and has not taken back

vars == <<w, asked>>

Pairs == Plots \X Tracks
Job == [track : Tracks, calc : Calcs, running : BOOLEAN, stop : BOOLEAN]

Init ==
  /\ w = [checked |-> {},              \* plots
          tracks |-> {},               \* sessions that are loaded and shown
          loaded |-> Tracks,           \* sessions in the model
          result |-> [t \in Tracks |-> [k \in Calcs |-> "none"]],
          nothing |-> {},              \* <<track, calculation>> that have nothing to run
          jobs |-> {},                 \* queued, and at most one running
          waiting |-> {},              \* <<plot, track>> the rows wait for,
          continues |-> {},            \* and those of them that go on when a job succeeds
          refused |-> {},              \* <<track, calculation>> the queue has refused
          timer |-> FALSE,             \* an update is scheduled
          shown |-> [x \in Pairs |-> "None"]]
  /\ asked = {}

-------------------------------------------------------------------------------
(* What the engine reports of the value of a plot in a track *)

Blockers(r, p, t) ==
  {k \in Needs[p] : r.result[t][k] = "none" /\ \A j \in After[k] : r.result[t][j] = "ok"}
Produced(r, p, t) == \A k \in Needs[p] : r.result[t][k] = "ok"

\* a job that was asked to stop is not live
LiveJobs(r) == {<<j.track, j.calc>> : j \in {x \in r.jobs : ~x.stop}}
LiveBlockers(r, p, t) == {k \in Blockers(r, p, t) : <<t, k>> \in LiveJobs(r)}

Classify(r, p, t) ==
  LET bs == Blockers(r, p, t)
  IN  IF bs = {} THEN (IF Produced(r, p, t) THEN "Available" ELSE "Failed")
      ELSE IF LiveBlockers(r, p, t) # {} THEN "Pending"
      ELSE IF \A k \in bs : <<t, k>> \in r.refused THEN "NotApplicable" ELSE "Missing"

Inspected(r) == r.checked \X r.tracks
Now(r) == [x \in Pairs |-> IF x \in Inspected(r) THEN Classify(r, x[1], x[2]) ELSE "None"]

\* the jobs that values of S are blocked by
Wanted(r, S) == UNION {{<<x[2], k>> : k \in Blockers(r, x[1], x[2])} : x \in S}

-------------------------------------------------------------------------------
(* The pass *)

ScheduleUpdate(r) == [r EXCEPT !.timer = TRUE]

OfPlot(S, p) == {x \in S : x[1] = p}
OfTrack(S, t) == {x \in S : x[2] = t}
Without(r, S) == [r EXCEPT !.waiting = @ \ S, !.continues = @ \ S]

\* a pass shows what is, and the waiting sets follow: a plot without a pending
\* track waits for nothing, and what is pending is waited for, but not continued
Recompute(r) ==
  LET pending == {x \in Pairs : Now(r)[x] = "Pending"}
      open == {x \in Inspected(r) : OfPlot(pending, x[1]) # {}}
  IN  [r EXCEPT !.timer = FALSE, !.shown = Now(r),
                !.waiting = (@ \intersect open) \union pending,
                !.continues = @ \intersect open]

-------------------------------------------------------------------------------
(* The job queue *)

\* jobs of these tracks ended without success, or were asked to stop: nothing goes
\* on, except where another live job stands for the track
StopContinuing(r, T) ==
  [r EXCEPT !.waiting = @ \ {x \in r.continues : x[2] \in T \ r.tracks},
            !.continues = {x \in @ : x[2] \in T => x[2] \in r.tracks /\ LiveBlockers(r, x[1], x[2]) # {}}]

\* the slots of jobFinished and jobCancelRequested
OnJobsStopped(r, T) == IF T = {} THEN r ELSE ScheduleUpdate(StopContinuing(r, T))

\* the jobs of S leave the queue
EndJobs(r, S) == OnJobsStopped([r EXCEPT !.jobs = @ \ S], {j.track : j \in S})

\* of the jobs of S the queued ones leave and the running one is asked to stop, once
CancelJobs(r, S) ==
  OnJobsStopped([r EXCEPT !.jobs = (@ \ S) \union {[j EXCEPT !.stop = TRUE] : j \in {x \in S : x.running}}],
                {j.track : j \in {x \in S : ~x.stop}})

\* requests for what the values of S are blocked by: what blocks has its inputs
\* and no result, so that it can only have nothing to run
RequestBlockers(r, S) ==
  LET requests == Wanted(r, S) \ (r.refused \union LiveJobs(r))
      created == {[track |-> x[1], calc |-> x[2], running |-> FALSE, stop |-> FALSE] : x \in requests \ r.nothing}
  IN  [r EXCEPT !.refused = @ \union (requests \intersect r.nothing),
                !.jobs = @ \union created, !.timer = @ \/ created # {}]

\* a bug: whatever is checked and shown goes on, whether or not it was asked for
ContinueAll(r, t) == RequestBlockers(r, OfTrack(Inspected(r), t))

\* a job of the track succeeded: the plots that the user asked for ask for the
\* next link of their chains
ContinueAfter(r, t) ==
  LET asks == {x \in r.continues : x[1] \in r.checked /\ x[2] = t}
      next == RequestBlockers(r, asks)
  IN  IF t \notin r.tracks THEN Without(r, asks)
      ELSE [next EXCEPT !.continues = {x \in @ : x \in asks => LiveBlockers(next, x[1], t) # {}}]

\* queued jobs that no checked plot needs on a track end
PruneUnwantedQueued(r) ==
  EndJobs(r, {j \in r.jobs : ~j.running /\ <<j.track, j.calc>> \notin Wanted(r, Inspected(r))})

Runnable(r, j) ==
  /\ r.result[j.track][j.calc] = "none" /\ <<j.track, j.calc>> \notin r.nothing
  /\ \A i \in After[j.calc] : r.result[j.track][i] = "ok"

-------------------------------------------------------------------------------
(* The user *)

\* the check state of a plot changes: a click, the menu, a profile, a reset
CheckPlot(p) ==
  /\ p \notin w.checked
  /\ w' = ScheduleUpdate([w EXCEPT !.checked = @ \union {p}])
  /\ UNCHANGED asked

UncheckPlot(p) ==
  /\ p \in w.checked
  /\ w' = ScheduleUpdate(PruneUnwantedQueued(Without([w EXCEPT !.checked = @ \ {p}], OfPlot(w.waiting, p))))
  /\ asked' = asked \ OfPlot(asked, p)

\* a click on the row, once it is checked, or on its refresh control
RequestMissing(p) ==
  /\ p \in w.checked /\ Cardinality(w.jobs) + Cardinality(w.tracks) <= MaxJobs
  /\ LET row == {p} \X w.tracks
         open == \E x \in row : LiveBlockers(w, p, x[2]) # {}
         start == IF open THEN w ELSE Without(w, OfPlot(w.waiting, p))
         each == RequestBlockers(start, row)
         got == {x \in row : LiveBlockers(each, p, x[2]) # {}}
     IN  w' = Recompute([each EXCEPT !.waiting = @ \union got, !.continues = @ \union got])
  /\ asked' = asked \union ({p} \X w.tracks)

\* the row's cancel control
CancelPressed(p) ==
  /\ p \in w.checked
  /\ LET mine == {j \in w.jobs : ~j.stop /\ <<j.track, j.calc>> \in Wanted(w, {p} \X w.tracks)}
     IN  w' = Recompute(CancelJobs(Without(w, OfPlot(w.waiting, p)), mine))
  /\ asked' = asked \ OfPlot(asked, p)

\* a job is cancelled in the list of jobs
CancelInJobs ==
  /\ \E j \in w.jobs : w' = CancelJobs(w, {j})
  /\ UNCHANGED asked

\* a bug: a hidden track leaves the waiting sets, its queued jobs stay
HideKeepsJobs(t) ==
  /\ t \in w.tracks
  /\ w' = ScheduleUpdate(Without([w EXCEPT !.tracks = @ \ {t}], OfTrack(w.waiting, t)))
  /\ asked' = asked \ OfTrack(asked, t)

HideTrack(t) ==
  /\ t \in w.tracks
  /\ w' = ScheduleUpdate(PruneUnwantedQueued(Without([w EXCEPT !.tracks = @ \ {t}], OfTrack(w.waiting, t))))
  /\ asked' = asked \ OfTrack(asked, t)

ShowTrack(t) ==
  /\ t \in w.loaded \ w.tracks
  /\ w' = ScheduleUpdate([w EXCEPT !.tracks = @ \union {t}])
  /\ UNCHANGED asked

\* the session model is reset: the queue ends the jobs of the session, then
\* every refusal is forgotten and the track leaves the waiting sets
RemoveTrack(t) ==
  /\ t \in w.loaded
  /\ LET gone == [w EXCEPT !.loaded = @ \ {t}, !.tracks = @ \ {t}, !.nothing = {x \in @ : x[1] # t},
                           !.result[t] = [k \in Calcs |-> "none"]]
         left == CancelJobs(gone, {j \in gone.jobs : j.track = t})
     IN  w' = ScheduleUpdate(Without([left EXCEPT !.refused = {}], {x \in left.waiting : x[2] \notin left.tracks}))
  /\ asked' = asked \ OfTrack(asked, t)

ImportTrack(t) ==
  /\ t \notin w.loaded
  /\ w' = ScheduleUpdate([w EXCEPT !.loaded = @ \union {t}, !.refused = {}])
  /\ UNCHANGED asked

\* a bug: only what was refused is forgotten, the rows are not looked at again
ForgetOnly(r, t, relevant) == [r EXCEPT !.refused = {x \in @ : x[1] # t}]

\* names of a session have changed: what was refused for it may be possible now
OnDependencyChanged(r, t, relevant) ==
  [r EXCEPT !.refused = {x \in @ : x[1] # t}, !.timer = @ \/ relevant]

-------------------------------------------------------------------------------
(* The session model, the engine and the worker *)

\* what calculation k reads from the session has changed: its result and those
\* that rest on it go, and a run that reads them is stopped
Edit(t, k) ==
  /\ t \in w.loaded
  /\ \E told \in BOOLEAN, nothing \in {w.nothing, w.nothing \union ({<<t, k>>} \intersect Refusable), w.nothing \ {<<t, k>>}} :
       LET affected == {j \in Calcs : j = k \/ k \in After[j]}
           dropped == [w EXCEPT !.nothing = nothing,
                                !.result[t] = [j \in Calcs |-> IF j \in affected THEN "none" ELSE @[j]]]
           runs == {j \in dropped.jobs : j.running /\ j.track = t /\ j.calc \in affected}
       IN  w' = OnDependencyChanged(CancelJobs(dropped, runs), t, told \/ \E p \in w.checked : k \in Needs[p])
  /\ UNCHANGED asked

\* a plugin is registered or goes: nothing that was refused is known any more
RegistryChanged ==
  /\ \E nothing \in SUBSET (Refusable \intersect (w.loaded \X Calcs)) :
       w' = ScheduleUpdate([w EXCEPT !.nothing = nothing, !.refused = {}])
  /\ UNCHANGED asked

\* the oldest queued job that can run is started; those before it have become moot
Start ==
  LET runnable == {j \in w.jobs : Runnable(w, j)}
  IN  /\ w.jobs # {} /\ \A j \in w.jobs : ~j.running
      /\ \/ \E moot \in SUBSET (w.jobs \ runnable), j \in runnable :
              w' = ScheduleUpdate([EndJobs(w, moot) EXCEPT !.jobs = (@ \ {j}) \union {[j EXCEPT !.running = TRUE]}])
         \/ runnable = {} /\ w' = EndJobs(w, w.jobs)
      /\ UNCHANGED asked

\* the worker is done: an end that is pending wins, else the result is published
\* before the slot of jobFinished runs
Finish(outcome) ==
  /\ \E j \in w.jobs :
       LET published == [w EXCEPT !.jobs = @ \ {j}, !.result[j.track][j.calc] = outcome]
       IN  /\ j.running
           /\ w' = IF j.stop \/ outcome = "none" THEN EndJobs(w, {j})
                   ELSE ScheduleUpdate(ContinueAfter(OnDependencyChanged(published, j.track, TRUE), j.track))
  /\ UNCHANGED asked

Update ==
  /\ w.timer
  /\ w' = Recompute(w)
  /\ UNCHANGED asked

Next ==
  \/ \E p \in Plots : CheckPlot(p) \/ UncheckPlot(p) \/ RequestMissing(p) \/ CancelPressed(p)
  \/ \E t \in Tracks :
       \/ HideTrack(t) \/ ShowTrack(t) \/ RemoveTrack(t) \/ ImportTrack(t)
       \/ \E k \in Calcs : Edit(t, k)
  \/ CancelInJobs \/ RegistryChanged \/ Start \/ Update
  \/ \E outcome \in {"ok", "rejected", "none"} : Finish(outcome)

Spec == Init /\ [][Next]_vars

-------------------------------------------------------------------------------
(* What the plot list promises about the jobs it asks for                    *)

Keys == Tracks \X Calcs
State ==
  [checked : SUBSET Plots, tracks : SUBSET Tracks, loaded : SUBSET Tracks,
   result : [Tracks -> [Calcs -> {"none", "ok", "rejected"}]], nothing : SUBSET Keys,
   jobs : SUBSET Job, waiting : SUBSET Pairs, continues : SUBSET Pairs, refused : SUBSET Keys, timer : BOOLEAN,
   shown : [Pairs -> {"None", "Available", "Failed", "Pending", "NotApplicable", "Missing"}]]
TypeOK == w \in State /\ asked \subseteq Pairs

JobPairs(r) == {<<j.track, j.calc>> : j \in r.jobs}

\* Every queued job is for a track that is shown, and a checked plot comes from
\* its calculation: unchecking, hiding and removing take the jobs with them.
QueuedAreNeeded ==
  \A j \in w.jobs : ~j.running => j.track \in w.tracks /\ \E p \in w.checked : j.calc \in Needs[p]

\* A job is asked for only on behalf of a plot and a track that the user asked
\* about, and has not unchecked, cancelled, hidden or removed since ("only
\* gestures start work").
NewJobsAreAsked ==
  \A x \in JobPairs(w') \ JobPairs(w) :
    \E p \in w'.checked : <<p, x[1]>> \in asked' /\ x[2] \in Needs[p]
OnlyAskedFor == [][NewJobsAreAsked]_vars

\* When no update is scheduled, a row shows of each track what is true of it now.
\* (A refusal that an unrelated change has made the component forget is shown
\* until the next pass: see the README.)
ShownIsTrue ==
  ~w.timer =>
    \A x \in Pairs : w.shown[x] = Now(w)[x] \/ (w.shown[x] = "NotApplicable" /\ Now(w)[x] = "Missing")

\* A track that is to go on when a job succeeds has a job that is not asked to
\* stop: the chain cannot be left waiting for an end that will never come.
FlagsHaveJobs ==
  \A x \in w.continues : \E j \in w.jobs : j.track = x[2] /\ ~j.stop

\* One job runs, only that can have been asked to stop, and of the jobs for one
\* calculation of a track one at most has not: a set tells the jobs apart.
OneJobEach ==
  \A i, j \in w.jobs :
    /\ i.stop => i.running
    /\ (i.running /\ j.running) \/ (<<i.track, i.calc>> = <<j.track, j.calc>> /\ ~i.stop /\ ~j.stop) => i = j

\* The jobs serve the plots, and the plots that go on have jobs.
JobsServePlots == TypeOK /\ QueuedAreNeeded /\ FlagsHaveJobs /\ OneJobEach
===========================================================================
