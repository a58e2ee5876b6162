----------------------------- MODULE JobLifecycle -----------------------------
(***************************************************************************)
(* The lifecycle the job queue promises its users (the LIFECYCLE section   *)
(* of src/src/jobqueue.h): a job is queued, may run, ends in exactly one   *)
(* end state, and its record may be forgotten after that.  Jobs run one at *)
(* a time in the order they were asked for; a job that was asked to stop   *)
(* never succeeds; a closed queue takes and starts nothing.                *)
(***************************************************************************)
EXTENDS Integers

CONSTANT MaxJobs

Jobs == 1..MaxJobs

VARIABLES phase,     \* of each job
          stopping,  \* running jobs that were asked to stop
          closed

vars == <<phase, stopping, closed>>

Ended == {"Succeeded", "Cancelled", "Superseded", "Failed"}

Init ==
  /\ phase = [j \in Jobs |-> "None"]
  /\ stopping = {}
  /\ closed = FALSE

\* ids ascend in request order and are never reused
Submit(j) ==
  /\ ~closed
  /\ phase[j] = "None"
  /\ \A i \in Jobs : i < j => phase[i] # "None"
  /\ phase' = [phase EXCEPT ![j] = "Queued"]
  /\ UNCHANGED <<stopping, closed>>

Start(j) ==
  /\ ~closed
  /\ phase[j] = "Queued"
  /\ \A i \in Jobs : phase[i] # "Running" /\ (i < j => phase[i] # "Queued")
  /\ phase' = [phase EXCEPT ![j] = "Running"]
  /\ UNCHANGED <<stopping, closed>>

AskToStop(j) ==
  /\ phase[j] = "Running"
  /\ stopping' = stopping \union {j}
  /\ UNCHANGED <<phase, closed>>

\* a job that never ran is cancelled or superseded
Drop(j) ==
  /\ phase[j] = "Queued"
  /\ \E e \in {"Cancelled", "Superseded"} : phase' = [phase EXCEPT ![j] = e]
  /\ UNCHANGED <<stopping, closed>>

Finish(j) ==
  /\ phase[j] = "Running"
  /\ \E e \in Ended :
       /\ j \in stopping => e # "Succeeded"
       /\ phase' = [phase EXCEPT ![j] = e]
  /\ stopping' = stopping \ {j}
  /\ UNCHANGED closed

Forget ==
  /\ \E S \in SUBSET {j \in Jobs : phase[j] \in Ended} :
       phase' = [j \in Jobs |-> IF j \in S THEN "Removed" ELSE phase[j]]
  /\ UNCHANGED <<stopping, closed>>

Close ==
  /\ closed' = TRUE
  /\ UNCHANGED <<phase, stopping>>

Next ==
  \/ \E j \in Jobs : Submit(j) \/ Start(j) \/ AskToStop(j) \/ Drop(j) \/ Finish(j)
  \/ Forget
  \/ Close

Spec == Init /\ [][Next]_vars

\* every job that was asked for gets an answer
Answered == \A j \in Jobs : phase[j] \in {"Queued", "Running"} ~> phase[j] \in Ended \union {"Removed"}
===============================================================================
