------------------------------ MODULE MCScreen ------------------------------
(***************************************************************************)
(* Two instances side by side, a behaviour being of one of them: the       *)
(* calculation engine of a session with chains of calculations, and who    *)
(* shows its values and asks for what is missing; and the crosshair, the   *)
(* legend and the measure tool of the plot. The second is this module's    *)
(* own: in the other behaviours nobody touches the plot.                   *)
(***************************************************************************)
EXTENDS PlotView, TLC

CONSTANTS a, b, c, pref, c1, c2, c3, v1, Absent, Invalid, Unread

VARIABLES part,
          decl, order, leaf, engine, shown, quiet

------------------------------------------------------------------------------
Calc(inputs, outputs, explicit, declines) ==
  [inputs |-> inputs, outputs |-> outputs, explicit |-> explicit, declines |-> declines]

\* a explicitly from b and pref, c from a, and a fallback for a; or the explicit
\* one declines, and the fallback is for c.  At least two of the three are explicit.
ChainGraph(declines, fallbackFor, x2, x3) ==
     (c1 :> Calc(<<b, pref>>, {a}, TRUE, declines))
  @@ (c2 :> Calc(<<a>>, {c}, x2, {}))
  @@ (c3 :> Calc(<<pref>>, {fallbackFor}, x3, {}))

ChainGraphs ==
  {ChainGraph({}, a, x[1], x[2]) : x \in {<<TRUE, TRUE>>, <<TRUE, FALSE>>, <<FALSE, TRUE>>}}
    \cup {ChainGraph({<<b, v1>>}, c, FALSE, TRUE)}

Engine == INSTANCE CalcEngineProps WITH
  Names <- {a, b, c}, Prefs <- {pref}, Calcs <- <<c1, c2, c3>>, Values <- {v1},
  Graphs <- ChainGraphs, MaxTickets <- 1, Editable <- {b, pref}, Plugins <- {c3},
  Synchronous <- {c1, c2, c3}, Watched <- {c}

------------------------------------------------------------------------------
\* Two sessions; one place where both have a track, close together, and one
\* where only the second has. Only the second has a time fit; the plots are
\* of sensors that keep UTC and of sensors that keep the time of the device.
PlotRows == <<"a", "b">>
PlotPlaces == {"both", "late"}
PlotUnder == [both |-> {"a", "b"}, late |-> {"b"}]
PlotNearest == [both |-> "a", late |-> "b"]
PlotTight == [both |-> TRUE, late |-> FALSE]
PlotChanging == {"a", "b"}
PlotFitted == {"b"}
PlotOwnClocks == {"utc", "system"}
PlotKeySets == {{}, {"ctrl"}, {"shift"}}

\* What the proofs about PlotView take of its constants.
ASSUME PlotConstants == IsPlot

------------------------------------------------------------------------------
engineVars == <<decl, order, leaf, engine, shown, quiet>>
allVars == <<part, engineVars, vars>>

NoEngine ==
  decl = NoTime /\ order = NoTime /\ leaf = NoTime /\ engine = NoTime /\ shown = NoTime /\ quiet = NoTime

MCInit ==
  /\ Init
  /\ \/ part = "engine" /\ Engine!Init
     \/ part = "plot" /\ NoEngine

MCNext ==
  \/ part = "engine" /\ Engine!Next /\ UNCHANGED <<part, vars>>
  \/ part = "plot" /\ Next /\ UNCHANGED <<part, engineVars>>

MCSpec == MCInit /\ [][MCNext]_allVars

\* Readers who read again what they are told of show what a read would return.
ShownIsFresh == part = "engine" => Engine!ShownIsFresh

\* What is reported to block a name can be requested, and leads somewhere.
ReportIsRight == part = "engine" => Engine!ReportIsRight
=============================================================================
