------------------------------ MODULE MCJobQueue ------------------------------
(***************************************************************************)
(* Small instances of JobQueue: which sessions and keys exist.             *)
(***************************************************************************)
EXTENDS JobQueueProps, TLC

CONSTANTS s1, s2, k1, k2

\* one calculation in each of two sessions
TwoKeys == {k1, k2}
TwoSessions == (k1 :> s1) @@ (k2 :> s2)

\* a single calculation
OneKey == {k1}
OneSession == (k1 :> s1)

\* two calculations of one session
SharedSession == (k1 :> s1) @@ (k2 :> s1)

\* Two sessions with a calculation each are interchangeable: nothing in JobQueue
\* or in its properties tells them apart.
SessionsAlike == {(k1 :> k2) @@ (k2 :> k1) @@ (s1 :> s2) @@ (s2 :> s1)}
===============================================================================
