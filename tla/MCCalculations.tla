--------------------------- MODULE MCCalculations ---------------------------
(***************************************************************************)
(* Two instances side by side, a behaviour being of one of them: the       *)
(* calculation engine of a session whose calculations may form rings; and  *)
(* the video with the sync times that are computed. The second is this     *)
(* module's own: in the other behaviours nobody touches the video dock.    *)
(***************************************************************************)
EXTENDS Video

CONSTANTS None, a, b, c, pref, c1, c2, c3, v1, Absent, Invalid, Unread

VARIABLES part, decl, order, leaf, engine, shown, quiet

------------------------------------------------------------------------------
\* Every registration of three calculations of three names, rings among them.
\* No calculation declares its own output as an input.
Calc(inputs, outputs, explicit) == [inputs |-> inputs, outputs |-> outputs, explicit |-> explicit, declines |-> {}]

RingGraphs == {g \in
  {[x \in {c1, c2, c3} |->
      CASE x = c1 -> Calc(<<b>>, {a}, x1)
        [] x = c2 -> Calc(i2, {b}, x2)
        [] x = c3 -> Calc(i3, o3, FALSE)] :
     x1 \in BOOLEAN, i2 \in {<<a>>, <<c, a>>}, x2 \in BOOLEAN,
     i3 \in {<<b>>, <<pref>>, <<a, b>>}, o3 \in {{a}, {b}, {c}, {a, c}}} :
  \A x \in DOMAIN g : \A i \in DOMAIN g[x].inputs : g[x].inputs[i] \notin g[x].outputs}

Engine == INSTANCE CalcEngineProps WITH
  Names <- {a, b, c}, Prefs <- {pref}, Calcs <- <<c1, c2, c3>>, Values <- {v1},
  Graphs <- RingGraphs, MaxTickets <- 1, Editable <- {b, pref},
  Plugins <- {}, Synchronous <- {c1, c2, c3}, Watched <- {}

------------------------------------------------------------------------------
\* A video of three positions of which two are key frames, and two sessions, one
\* of which never gets a sync time.
VideoRows == <<"s1", "s2">>
VideoViews == {{"s1", "s2"}}
VideoSyncTimes == [s1 |-> {5}, s2 |-> {}]
VideoKeyFrame == [i \in 0..2 |-> IF i = 1 THEN 0 ELSE i]

\* What the proofs about Video take of its constants.
ASSUME VideoConstants == IsVideo

------------------------------------------------------------------------------
engineVars == <<decl, order, leaf, engine, shown, quiet>>
allVars == <<part, engineVars, vars>>

NoEngine == decl = None /\ order = None /\ leaf = None /\ engine = None /\ shown = None /\ quiet = None

MCInit ==
  /\ Init
  /\ \/ part = "engine" /\ Engine!Init
     \/ part = "video" /\ NoEngine

MCNext ==
  \/ part = "engine" /\ Engine!Next /\ UNCHANGED <<part, vars>>
  \/ part = "video" /\ Next /\ UNCHANGED <<part, engineVars>>

MCSpec == MCInit /\ [][MCNext]_allVars /\ WF_vars(Watchdog)

\* What a read answers is what the registrations and the current values say.
ReadsAreTrue == part = "engine" => Engine!ReadsAreTrue

\* A ticket that was not refused still holds the inputs there are now.
TicketIsCurrent == part = "engine" => Engine!TicketIsCurrent
=============================================================================
