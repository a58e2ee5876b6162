----------------------------- MODULE MCRequests -----------------------------
(***************************************************************************)
(* Three instances side by side, a behaviour being of one of them: the     *)
(* plot list, with two plots that need the same calculation or with one    *)
(* plot that needs a chain of two; the registry and the engines and views  *)
(* that listen to it; and the markers and the profiles that check plots.   *)
(* The first is this module's own: in the others nobody touches the list.  *)
(***************************************************************************)
EXTENDS PlotRequests, TLC

CONSTANTS NoValue, NoMatch

VARIABLES part,
          entries, staticMemo, explicitMemo, engines, observers, calling, untold, preference,
          desk, files, order, menu, applied

------------------------------------------------------------------------------
\* Two plots of calculation 1, and a plot of calculation 3, which rests on 2. Of
\* one track a calculation may turn out to have nothing to run.
RowsOf == [shared |-> {"p1", "p2"}, chain |-> {"q"}]
CalcsOf == [shared |-> {1}, chain |-> {2, 3}]
ListPlots == {"p1", "p2", "q"}
ListTracks == {1, 2}
ListCalcs == {1, 2, 3}
ListNeeds == [p \in ListPlots |-> IF p = "q" THEN {2, 3} ELSE {1}]
ListAfter == [k \in ListCalcs |-> IF k = 3 THEN {2} ELSE {}]
ListRefusable == {<<1, 1>>, <<1, 3>>}

\* What the proofs about PlotRequests take of its constants.
ASSUME RequestsConstants == IsPlotRequests

\* In a behaviour only the plots of its part are checked.
InPart == w'.checked \subseteq RowsOf[part] /\ \A x \in w'.nothing : x[2] \in CalcsOf[part]

------------------------------------------------------------------------------
\* Three names, of which one is a measurement: two calculations for the same
\* attribute, one of them explicit and reading back to a measurement, a family,
\* a source conversion, and a calculation that must be refused.
Desc(outputs, inputs, explicit) == [outputs |-> outputs, inputs |-> inputs, explicit |-> explicit]
Input(kind, name) == <<kind, name>>

Described(id, n) ==
  CASE id = "first" -> Desc(<<"a">>, <<Input("Name", "m"), Input("Preference", "pref")>>, TRUE)
    [] id = "second" -> Desc(<<"a", "b">>, <<Input("Name", "m")>>, FALSE)
    [] id = "wrong" -> Desc(<<"b">>, <<Input("Source", "m")>>, FALSE)
    [] id = "family" ->
         IF n = "m" THEN NoMatch ELSE Desc(<<n>>, <<Input("Name", IF n = "a" THEN "b" ELSE "a")>>, FALSE)
    [] OTHER -> IF n = "m" THEN Desc(<<"m">>, <<Input("Source", "m"), Input("Name", "b")>>, FALSE) ELSE NoMatch

Registered == {"first", "second", "family", "conversion", "wrong"}
KindOf(id) == IF id = "family" THEN "Family" ELSE IF id = "conversion" THEN "SourceConversion" ELSE "Calculation"

Registry == INSTANCE Registry WITH
  Names <- {"a", "b", "m"}, Measured <- {"m"}, Asked <- {"a"}, Prefs <- {"pref"}, Texts <- {1, 2},
  Ids <- Registered, Kind <- [id \in Registered |-> KindOf(id)],
  Descriptor <- [id \in Registered |-> [n \in {"a", "b", "m"} |-> Described(id, n)]],
  Engines <- {"e1", "e2"}, Observers <- {"plots", "model"}

\* What the proofs about Registry take of its constants.
ASSUME RegistryConstants == Registry!IsRegistry

------------------------------------------------------------------------------
\* Two altitudes in two units, one of them refused by the registry; a built-in
\* profile, a file that says little, and one from a program with other plots,
\* markers and methods.
Alt(units, altitudes) == [units |-> units, altitudes |-> altitudes]
BuiltIn == [name |-> 2, enabledPlots |-> {"z"}, enabledMarkers |-> {"exit", "1ft"}, referenceMarker |-> "exit",
            altitudeMarkers |-> Alt("ft", <<1>>), analysisMethod |-> "a"]
Short == [name |-> 1, altitudeMarkers |-> Alt("ft", <<2, 2>>)]
Foreign == [name |-> 3, enabledPlots |-> {"z", "new"}, enabledMarkers |-> {"1m", "new"}, referenceMarker |-> "1m",
            altitudeMarkers |-> Alt("m", <<1>>), analysisMethod |-> "new"]

Profiles == INSTANCE Profiles WITH
  NoTime <- NoValue, Static <- <<"exit">>, DefaultEnabled <- [k \in {"exit"} |-> FALSE],
  Altitudes <- {1, 2}, Units <- {"ft", "m"}, Pages <- {{1}},
  AltitudeKey <- << [ft |-> "1ft", m |-> "1m"], [ft |-> "2ft", m |-> "2m"] >>, Refused <- {"2m"},
  Plots <- {"z"}, Settings <- {"analysisMethod"}, Values <- {"a"}, Methods <- {"a"},
  Ids <- {"p1"}, Defaults <- << [id |-> "d1", profile |-> BuiltIn] >>, Imported <- {Short, Foreign}, Names <- {2}

------------------------------------------------------------------------------
registryVars == <<entries, staticMemo, explicitMemo, engines, observers, calling, untold, preference>>
profileVars == <<desk, files, order, menu, applied>>
allVars == <<part, registryVars, profileVars, vars>>

NoRegistry ==
  /\ entries = NoValue /\ staticMemo = NoValue /\ explicitMemo = NoValue /\ engines = NoValue
  /\ observers = NoValue /\ calling = NoValue /\ untold = NoValue /\ preference = NoValue

NoProfiles == desk = NoValue /\ files = NoValue /\ order = NoValue /\ menu = NoValue /\ applied = NoValue

MCInit ==
  /\ Init
  /\ \/ part \in DOMAIN RowsOf /\ NoRegistry /\ NoProfiles
     \/ part = "registry" /\ Registry!Init /\ NoProfiles
     \/ part = "profiles" /\ Profiles!Init /\ NoRegistry

MCNext ==
  \/ part \in DOMAIN RowsOf /\ Next /\ InPart /\ UNCHANGED <<part, registryVars, profileVars>>
  \/ part = "registry" /\ Registry!Next /\ UNCHANGED <<part, profileVars, vars>>
  \/ part = "profiles" /\ Profiles!Next /\ UNCHANGED <<part, registryVars, vars>>

MCSpec == MCInit /\ [][MCNext]_allVars

\* No memo and no listener is behind the registrations.
NobodyIsBehind == part = "registry" => Registry!NobodyIsBehind

\* Registries with the same fingerprint resolve every name alike.
FingerprintDecides == part = "registry" => Registry!FingerprintDecides

\* Dock, registry, moments and settings agree on the markers.
MarkersAgree == part = "profiles" => Profiles!MarkersAgree

\* What a profile says is what the view shows after it was applied.
ProfileStands == part = "profiles" => Profiles!ProfileStands
=============================================================================
