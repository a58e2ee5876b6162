------------------------------- MODULE Moments -------------------------------
(* MomentModel: the instants the views mark (the mouse, the video, and one   *)
(* moment per marker), as a function from the ids that are registered to     *)
(* what is kept of each. Every operation returns the model after it. The     *)
(* model announces momentsChanged exactly when an operation changed it: the  *)
(* guards of the code compare the old value with the new one.                *)
EXTENDS FiniteSets, Functions

CONSTANT NoTime         \* the value of a position that was never set

Moment(enabled, group, position, active, targets, sessionPositions) ==
  [enabled |-> enabled, group |-> group, position |-> position, active |-> active,
   targets |-> targets, sessionPositions |-> sessionPositions]

NewMoment(group) == Moment(TRUE, group, NoTime, FALSE, {}, <<>>)

\* A moment that exists already is left alone.
RegisterMoments(ms, ids, group) ==
  [id \in DOMAIN ms \cup ids |-> IF id \in DOMAIN ms THEN ms[id] ELSE NewMoment(group)]

UnregisterMomentGroup(ms, group) == Restrict(ms, { id \in DOMAIN ms : ms[id].group # group })

\* A common position for every session clears the positions of the sessions.
SetMomentPosition(ms, id, position, targets, active) ==
  IF id \notin DOMAIN ms THEN ms
  ELSE [ms EXCEPT ![id] = Moment(@.enabled, @.group, position, active, targets, <<>>)]

SetSessionPositions(ms, id, position, sessionPositions, targets, active) ==
  IF id \notin DOMAIN ms THEN ms
  ELSE [ms EXCEPT ![id] = Moment(@.enabled, @.group, position, active, targets, sessionPositions)]

SetMomentActive(ms, id, active) ==
  IF id \notin DOMAIN ms THEN ms ELSE [ms EXCEPT ![id].active = active]

\* The mouse is never disabled.
SetMomentEnabled(ms, id, enabled) ==
  IF id \notin DOMAIN ms \/ (id = "mouse" /\ ~enabled) THEN ms ELSE [ms EXCEPT ![id].enabled = enabled]
=============================================================================
