------------------------------ MODULE Profiles ------------------------------
(* Markers, view settings and profiles. AltitudeMarkerManager turns the      *)
(* altitudes of the preferences into calculations and markers; the marker    *)
(* registry, the marker model, the moment model and the settings each keep   *)
(* a part of what is enabled. A profile is a capture of the whole view: it   *)
(* is written to a file, listed in a menu, and applied step by step, every   *)
(* step announcing its change to the others before the next begins.          *)
EXTENDS Moments, SequencesExt, Integers

CONSTANTS
  Static,           \* the markers of the program and of plugins, in registration order
  DefaultEnabled,   \* for each of them, whether it is enabled by default
  Altitudes, Units, \* altitudes and units of the preferences
  Pages,            \* the sets of altitudes saved with the preferences page
  AltitudeKey,      \* the attribute key of an altitude in a unit
  Refused,          \* keys whose calculation the registry refuses
  Plots,            \* the dependent plots
  Settings, Values, \* the settings a profile keeps as one value each
  Methods,          \* the values that name an analysis method
  Ids, Defaults,    \* stems of new files, and the built-in profiles with their order
  Imported,         \* profile files the user may import
  Names             \* names the user may give

VARIABLES
  desk,             \* the view and the settings behind it
  files,            \* the profile directory: file stem -> profile
  order,            \* the stored order of the file stems
  menu,             \* the file stems of the Profiles menu
  applied           \* the profile the last step applied, if it did

vars == <<desk, files, order, menu, applied>>
None == "none"
NoProfile == <<>>
Markers(d) == ToSet(d.markers)

-----------------------------------------------------------------------------
(* Markers                                                                   *)

AltitudeKeys == { AltitudeKey[a][u] : a \in Altitudes, u \in Units }
Default(key) == key \in AltitudeKeys \/ DefaultEnabled[key]
Saved(d, key) == IF key \in DOMAIN d.saved THEN d.saved[key] ELSE Default(key)

\* A plausible slip: the moments keep the state they were registered with.
SetMarkersQuietly(d) ==
  [d EXCEPT !.shown = [k \in Markers(d) |-> IF k \in DOMAIN d.shown THEN d.shown[k] ELSE Saved(d, k)]]

\* The enabled state of a marker that stays is the one in memory, that of a
\* new one comes from the settings; the moments are told last.
SetMarkers(d) ==
  LET shown == [k \in Markers(d) |-> IF k \in DOMAIN d.shown THEN d.shown[k] ELSE Saved(d, k)] IN
  [d EXCEPT !.shown = shown,
            !.moments = [id \in DOMAIN d.moments |->
                           IF id \in DOMAIN shown THEN SetMomentEnabled(d.moments, id, shown[id])[id]
                           ELSE d.moments[id]]]

RegisterMarkers(d, keys, group) ==
  SetMarkers([d EXCEPT !.markers = @ \o keys, !.moments = RegisterMoments(@, ToSet(keys), group)])

ReplaceMarkerGroup(d, group, keys) ==
  SetMarkers([d EXCEPT !.markers = SelectSeq(@, LAMBDA k : k \notin AltitudeKeys) \o keys,
                       !.moments = RegisterMoments(UnregisterMomentGroup(@, group), ToSet(keys), group)])

\* MarkerSelectionDockFeature: a reference marker that is gone is no reference.
PopulateReferenceCombo(d) ==
  IF d.reference \in Markers(d) THEN d ELSE [d EXCEPT !.reference = None]

RefreshMarkers(d) ==
  LET wanted == [i \in 1..Cardinality(ToSet(d.altitudes)) |->
                   AltitudeKey[SetToSortSeq(ToSet(d.altitudes), <)[i]][d.units]]
      registered == SelectSeq(wanted, LAMBDA k : k \in ToSet(d.registered) \/ k \notin Refused)
      removed == ToSet(d.registered) \ ToSet(wanted)
      replaced == ReplaceMarkerGroup([d EXCEPT !.registered = registered], "altitude", registered)
  IN [replaced EXCEPT !.saved = Restrict(@, DOMAIN @ \ removed)]

Refresh(d) == PopulateReferenceCombo(RefreshMarkers(d))

SetMarkerEnabled(d, key, enabled) ==
  IF key \notin DOMAIN d.shown \/ d.shown[key] = enabled THEN d
  ELSE [d EXCEPT !.shown[key] = enabled,
                 !.saved = [k \in DOMAIN @ \cup {key} |-> IF k = key THEN enabled ELSE @[k]],
                 !.moments = SetMomentEnabled(@, key, enabled)]

\* PreferencesManager announces a value only when it changed.
SetUnits(d, units) == IF units = d.units THEN d ELSE Refresh([d EXCEPT !.units = units])

\* The preferences page: the array first, then the units and the version, each
\* of which refreshes the markers.
SaveAltitudes(d, altitudes, units) ==
  Refresh(SetUnits([d EXCEPT !.altitudes = SetToSortSeq(altitudes, <)], units))

-----------------------------------------------------------------------------
(* A profile: a function from the fields it has                              *)

ProfileFields == {"enabledPlots", "enabledMarkers", "referenceMarker", "altitudeMarkers"} \cup Settings

Capture(d) ==
  [f \in ProfileFields |->
     CASE f = "enabledPlots"    -> d.plots
       [] f = "enabledMarkers"  -> { k \in Markers(d) : d.shown[k] }
       [] f = "referenceMarker" -> d.reference
       [] f = "altitudeMarkers" -> [units |-> d.units, altitudes |-> d.altitudes]
       [] OTHER                 -> d.settings[f]]

ApplyPlots(p, d) == IF "enabledPlots" \in DOMAIN p THEN [d EXCEPT !.plots = p["enabledPlots"] \cap Plots] ELSE d

\* The units refresh the markers with the altitudes of before, the version
\* with those of the profile.
ApplyAltitudes(p, d) ==
  IF "altitudeMarkers" \notin DOMAIN p THEN d
  ELSE Refresh([SetUnits(d, p["altitudeMarkers"].units) EXCEPT !.altitudes = p["altitudeMarkers"].altitudes])

ApplyMarkers(p, d) ==
  IF "enabledMarkers" \notin DOMAIN p THEN d
  ELSE FoldLeft(LAMBDA e, k : SetMarkerEnabled(e, k, k \in p["enabledMarkers"]), d, d.markers)

ApplyReference(p, d) == IF "referenceMarker" \in DOMAIN p THEN [d EXCEPT !.reference = p["referenceMarker"]] ELSE d

\* A name that is no analysis method changes nothing.
ApplySettings(p, d) ==
  [d EXCEPT !.settings = [f \in Settings |->
     IF f \in DOMAIN p /\ (f = "analysisMethod" => p[f] \in Methods) THEN p[f] ELSE @[f]]]

ApplyMarkersFirst(p, d) ==
  ApplySettings(p, ApplyReference(p, ApplyAltitudes(p, ApplyMarkers(p, ApplyPlots(p, d)))))

ApplyProfile(p, d) ==
  ApplySettings(p, ApplyReference(p, ApplyMarkers(p, ApplyAltitudes(p, ApplyPlots(p, d)))))

-----------------------------------------------------------------------------
(* ProfileManager: files, order, menu                                        *)

\* First the stored order, then the others by name.
Listing(fs, ids) ==
  SelectSeq(ids, LAMBDA id : id \in DOMAIN fs)
    \o SetToSortSeq(DOMAIN fs \ ToSet(ids), LAMBDA i, j : fs[i]["name"] < fs[j]["name"])

Put(fs, id, p) == [i \in DOMAIN fs \cup {id} |-> IF i = id THEN p ELSE fs[i]]
Named(p, name) == [f \in DOMAIN p \cup {"name"} |-> IF f = "name" THEN name ELSE p[f]]

Store(fs, ids) == /\ files' = fs
                  /\ order' = ids
                  /\ menu' = Listing(fs, ids)
NewId == CHOOSE id \in Ids : id \notin DOMAIN files
HasRoom == Ids \ DOMAIN files # {}

DefaultIds == [i \in DOMAIN Defaults |-> Defaults[i].id]
DefaultFiles == [id \in ToSet(DefaultIds) |-> Defaults[CHOOSE i \in DOMAIN Defaults : Defaults[i].id = id].profile]

-----------------------------------------------------------------------------
(* Actions                                                                   *)

\* The registries, the models and the moments of a new process.
Startup(settings) ==
  LET blank == [markers |-> <<>>, shown |-> <<>>, registered |-> <<>>,
                moments |-> RegisterMoments(<<>>, {"mouse", "video"}, ""),
                altitudes |-> settings.altitudes, units |-> settings.units, saved |-> settings.saved,
                reference |-> settings.reference, plots |-> settings.plots, settings |-> settings.settings]
  IN PopulateReferenceCombo(RefreshMarkers(RegisterMarkers(blank, Static, "")))

\* PlotViewSettingsModel: the key of an earlier version is converted once.
Migrated(xAxisKey) == IF xAxisKey = "_TIME" THEN None ELSE "exit"

\* The first launch copies the built-in profiles and applies one.
Init ==
  /\ \E xAxisKey \in {"_TIME", "_TIME_FROM_EXIT"}, value \in Values :
       desk = ApplyProfile(Defaults[1].profile,
                Startup([altitudes |-> <<>>, units |-> CHOOSE u \in Units : TRUE, saved |-> <<>>,
                         reference |-> Migrated(xAxisKey), plots |-> {}, settings |-> [f \in Settings |-> value]]))
  /\ files = DefaultFiles
  /\ order = DefaultIds
  /\ menu = Listing(DefaultFiles, DefaultIds)
  /\ applied = Defaults[1].profile

Change(d) == desk' = d /\ applied' = NoProfile /\ UNCHANGED <<files, order, menu>>

ToggleMarker(key) == key \in Markers(desk) /\ Change(SetMarkerEnabled(desk, key, ~desk.shown[key]))
SelectReference(key) == key \in Markers(desk) \cup {None} /\ Change([desk EXCEPT !.reference = key])
TogglePlot(plot) == Change([desk EXCEPT !.plots = SymDiff(@, {plot})])
ChangeSetting(f, value) == (f = "analysisMethod" => value \in Methods) /\ Change([desk EXCEPT !.settings[f] = value])
SavePage(altitudes, units) == Change(SaveAltitudes(desk, altitudes, units))
Restart == Change(Startup(desk))

LoadProfile(id) ==
  /\ id \in DOMAIN files
  /\ desk' = ApplyProfile(files[id], desk)
  /\ applied' = files[id]
  /\ UNCHANGED <<files, order, menu>>

AddProfile(name) ==
  /\ HasRoom
  /\ Store(Put(files, NewId, Named(Capture(desk), name)), order)
  /\ UNCHANGED desk /\ applied' = NoProfile

ImportProfile(p) ==
  /\ HasRoom
  /\ Store(Put(files, NewId, p), order)
  /\ UNCHANGED desk /\ applied' = NoProfile

\* A renamed profile is a new file. Its old file leaves the stored order with
\* deleteProfile, so the new one is always appended.
RenameProfile(id, name) ==
  /\ id \in DOMAIN files /\ HasRoom
  /\ LET kept == SelectSeq(order, LAMBDA i : i # id) IN
     Store(Restrict(Put(files, NewId, Named(files[id], name)), (DOMAIN files \ {id}) \cup {NewId}), Append(kept, NewId))
  /\ UNCHANGED desk /\ applied' = NoProfile

Swapped(s, i, j) == [s EXCEPT ![i] = s[j], ![j] = s[i]]
MoveProfile(i) ==
  /\ i + 1 \in DOMAIN menu
  /\ Store(files, Swapped(menu, i, i + 1))
  /\ UNCHANGED desk /\ applied' = NoProfile

DeleteProfile(id) ==
  /\ id \in DOMAIN files
  /\ Store(Restrict(files, DOMAIN files \ {id}), SelectSeq(order, LAMBDA i : i # id))
  /\ UNCHANGED desk /\ applied' = NoProfile

RestoreDefaults ==
  /\ Store(DefaultFiles @@ files, order)
  /\ UNCHANGED desk /\ applied' = NoProfile

EditView ==
  \/ \E key \in Markers(desk) : ToggleMarker(key)
  \/ \E key \in Markers(desk) \cup {None} : SelectReference(key)
  \/ \E plot \in Plots : TogglePlot(plot)
  \/ \E f \in Settings, value \in Values : ChangeSetting(f, value)
  \/ \E altitudes \in Pages, units \in Units : SavePage(altitudes, units)
  \/ Restart
ManageProfiles ==
  \/ \E name \in Names : AddProfile(name)
  \/ \E p \in Imported : ImportProfile(p)
  \/ \E id \in DOMAIN files : LoadProfile(id) \/ DeleteProfile(id)
  \/ \E id \in DOMAIN files, name \in Names : RenameProfile(id, name)
  \/ \E i \in DOMAIN menu : MoveProfile(i)
  \/ RestoreDefaults
Next == EditView \/ ManageProfiles
Spec == Init /\ [][Next]_vars

-----------------------------------------------------------------------------
(* Properties                                                                *)

\* The marker dock, the registry, the moments on the plot and the settings
\* agree on which markers there are and which are enabled: what is enabled is
\* what a restart would enable, and an altitude that was removed and comes
\* back leaves nothing behind (setMarkers, replaceMarkerGroup, refresh).
MarkersAgree ==
  /\ DOMAIN desk.shown = Markers(desk)
  /\ DOMAIN desk.moments = Markers(desk) \cup {"mouse", "video"}
  /\ IsInjective(desk.markers)
  /\ \A k \in Markers(desk) : desk.moments[k].enabled = desk.shown[k] /\ Saved(desk, k) = desk.shown[k]
  /\ DOMAIN desk.saved \subseteq Markers(desk)
  /\ { k \in Markers(desk) : k \in AltitudeKeys } = ToSet(desk.registered)

\* After a profile is applied, a capture of the view gives every field of it
\* back, in so far as its plots, markers and methods exist here: no later step
\* of applyProfile undoes an earlier one.
ProfileStands ==
  \A f \in DOMAIN applied \ {"name"} :
    LET now == Capture(desk)[f] IN
    CASE f = "enabledPlots"   -> now = applied[f] \cap Plots
      [] f = "enabledMarkers" -> now = applied[f] \cap Markers(desk)
      [] f = "analysisMethod" -> applied[f] \in Methods => now = applied[f]
      [] OTHER                -> now = applied[f]
=============================================================================
