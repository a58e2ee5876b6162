---------------------------- MODULE MCSessionData ----------------------------
(***************************************************************************)
(* Three instances side by side, a behaviour being of one of them: files   *)
(* that are imported, merged and saved; what is computed from a recording  *)
(* of a few samples; and the markers of two sessions on the axis of the    *)
(* plot and on the map. The last is this module's own: in the other        *)
(* behaviours nobody touches the plot.                                     *)
(***************************************************************************)
EXTENDS Viewport, MCImport

CONSTANTS Stub, NaN, NoAttribute

VARIABLES part, rows, disk, unsaved, last, rec, stored

Imports == INSTANCE Import WITH
  Parsed <- MCParsed, Batches <- MCBatches, Preferences <- MCPreferences, Edits <- MCEdits

------------------------------------------------------------------------------
Sample(seconds, climb, velD, velH, sAcc, vAcc) ==
  [seconds |-> seconds, climb |-> climb, velD |-> velD, velH |-> velH, sAcc |-> sAcc, vAcc |-> vAcc]

Samples == {
  Sample(4, 24, -10, 20, 1, 1),  \* climbing
  Sample(1, -6, 10, 20, 1, 1),   \* leaving
  Sample(1, -24, 30, 20, 1, 1),  \* falling
  Sample(4, -48, 10, 10, 9, 12), \* far apart, uncertain
  Sample(1, 6, 0, 20, 1, 1),     \* flaring
  Sample(4, 0, 0, 1, 1, 1) }     \* walking

Jump == INSTANCE Jump WITH
  Kinds <- Samples, MaxSamples <- 6, First <- [time |-> 100, hMSL |-> 60], Pause <- 6, None <- NoAttribute,
  Overrides <- [ ExitTime |-> {102}, LandingTime |-> {105}, GroundElev |-> {12}, WspTopAlt |-> {30},
                 WspBottomAlt |-> {40}, SpBreakoffAlt |-> {70}, SpPerfWindowHeight |-> {}, SpValWindowHeight |-> {} ],
  Defaults <- [ WspTopAlt |-> 40, WspBottomAlt |-> 20, SpPerfWindowHeight |-> 60,
                SpValWindowHeight |-> 20, SpBreakoffAlt |-> 10 ]

------------------------------------------------------------------------------
\* Two sessions on the axis. The first has no start of its own, and no device
\* clock to fit; the second has both, its clock one second ahead. The plots are
\* of sensors that keep UTC and of sensors that keep the time of the device.
AxisRows == <<"a", "b">>
AxisKeys == {"exit", "start"}
AxisComputed == [a |-> [exit |-> 1, start |-> NoTime], b |-> [exit |-> 2, start |-> 0]]
AxisSkew == [a |-> NoTime, b |-> 1]
AxisOwnClocks == {"utc", "system"}
AxisSpan == [a |-> <<0, 4>>, b |-> <<-1, 6>>]
AxisMoves == {-2, 2}

\* What the proofs about Viewport take of its constants.
ASSUME ViewportConstants == IsViewport

------------------------------------------------------------------------------
importVars == <<rows, disk, unsaved, last>>
jumpVars == <<rec, stored>>
dataVars == <<part, importVars, jumpVars, vars>>

NoImport == rows = <<>> /\ disk = <<>> /\ unsaved = {} /\ last = <<>>
NoJump == rec = <<>> /\ stored = <<>>
NoPlot == Init /\ p.refKey = "exit"

DataInit ==
  \/ part = "import" /\ Imports!Init /\ NoJump /\ NoPlot
  \/ part = "jump" /\ Jump!Init /\ NoImport /\ NoPlot
  \/ part = "axis" /\ Init /\ NoImport /\ NoJump

DataNext ==
  \/ part = "import" /\ Imports!Next /\ UNCHANGED <<part, jumpVars, vars>>
  \/ part = "jump" /\ Jump!Next /\ UNCHANGED <<part, importVars, vars>>
  \/ part = "axis" /\ Next /\ UNCHANGED <<part, importVars, jumpVars>>

DataSpec == DataInit /\ [][DataNext]_dataVars

\* A file that was imported is known: importing it again changes nothing.
ReimportChangesNothing == Imports!ReimportChangesNothing

\* Every session that came about can be written, and read back as it was.
SessionsCanBeWritten == Imports!SessionsCanBeWritten

\* Neither what a file recorded of a session nor its values are lost.
WhatWasRecordedStands == Imports!WhatWasRecordedStands

\* The times that are computed of a jump follow one another.
TimesInOrder == part = "jump" => Jump!TimesInOrder

\* The speed result is that of the fastest interval there is.
FastestIsFound == part = "jump" => Jump!FastestIsFound
=============================================================================
