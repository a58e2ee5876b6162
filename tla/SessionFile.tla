----------------------------- MODULE SessionFile -----------------------------
(***************************************************************************)
(* What a session holds, what a FlySight file says, and the way from one   *)
(* to the other and back: the importer, the exporter and the conversion    *)
(* layer.  (dataimporter.cpp, dataexporter.cpp, csvformat.cpp,             *)
(* sessiondata.cpp, conversion/)                                           *)
(*                                                                         *)
(* A file is a sequence of lines, a line what its tokens say.  A field of  *)
(* a data row is a number or Garbage (an empty field, or text that is      *)
(* neither a number nor a time).  Names in files hold no comma and no line *)
(* break.  A session is a record of stored attributes and source columns;  *)
(* a column is its samples with its unit text.                             *)
(***************************************************************************)
EXTENDS Integers, Sequences, FiniteSets, TLC, SequencesExt

CONSTANTS
  Garbage,      \* a field no number can be read from
  AttributeOrder,  \* every attribute key, in the order they are written
  ColumnOrder,  \* every <<sensor, column>>, in the order they are written
  Corrected,    \* schematable.cpp: the columns recorded too small in schema 1
  LegacyScale,  \* ... and by how much
  IsTimeName,   \* names of folders and files -> is it two digits, thrice
  UnitScale     \* units/unitconversion: unit text -> factor to SI

SupportedVersions == {"1", "2"}
ImpliedVersion == "1"
DeviceIdUnknown == "n/a"
Empty == <<>>

\* formatAttributeValue() and singleLine(): text with a line break comes out
\* on one line, everything else as it is.  (Descriptions are the parts of a
\* path; every other value is a string.)
Text(key, v) == IF key = "_DESCRIPTION" /\ v = <<"two\nlines">> THEN <<"two lines">> ELSE v
HasStored(s, key) == key \in DOMAIN s.attributes
Stored(s, key) == IF HasStored(s, key) THEN s.attributes[key] ELSE ""
IsViewerKey(key) == key \in {"_DESCRIPTION", "_JUMPER_MASS", "_GROUND_ELEV"}

-----------------------------------------------------------------------------
(* Import: lines are staged, and published only when the whole file was    *)
(* accepted                                                                *)

Staged == [section |-> "header", attributes |-> Empty, sensors |-> Empty, skippedRows |-> 0]
Refuse(staged) == [staged EXCEPT !.section = "refused"]

AddColumns(staged, sensor, columns) ==
  IF columns = <<>> \/ "" \in Range(columns) \/ ~IsInjective(columns) THEN Refuse(staged)
  ELSE [staged EXCEPT !.sensors =
         (sensor :> [columns |-> columns, units |-> [i \in DOMAIN columns |-> ""],
                     hasUnitLine |-> FALSE, rows |-> <<>>]) @@ @]

AddUnits(staged, sensor, units) ==
  IF staged.sensors[sensor].hasUnitLine \/ Len(units) > Len(staged.sensors[sensor].columns)
  THEN Refuse(staged)
  ELSE [staged EXCEPT
         !.sensors[sensor].units = [i \in DOMAIN @ |-> IF i <= Len(units) THEN units[i] ELSE ""],
         !.sensors[sensor].hasUnitLine = TRUE]

\* importHeaderRow(); $DATA ends the header, and only there is the declared
\* schema looked at.
HeaderRow(staged, line) ==
  CASE line.kind = "DATA" ->
         IF "SCHEMA_VER" \in DOMAIN staged.attributes
            /\ staged.attributes["SCHEMA_VER"] \notin SupportedVersions
         THEN Refuse(staged) ELSE [staged EXCEPT !.section = "data"]
    [] line.kind = "VAR" ->
         IF line.key = "" \/ (line.key \in DOMAIN staged.attributes
                              /\ staged.attributes[line.key] # line.value)
         THEN Refuse(staged)
         ELSE [staged EXCEPT !.attributes = (line.key :> line.value) @@ @]
    [] line.kind = "COL" ->
         IF line.sensor = "" \/ line.sensor \in DOMAIN staged.sensors THEN Refuse(staged)
         ELSE AddColumns(staged, line.sensor, line.columns)
    [] line.kind = "UNIT" ->
         IF line.sensor \notin DOMAIN staged.sensors THEN Refuse(staged)
         ELSE AddUnits(staged, line.sensor, line.units)
    [] OTHER -> staged

\* importDataRow(): all or nothing.
DataRow(staged, line) ==
  IF line.kind # "ROW" \/ line.sensor \notin DOMAIN staged.sensors
  THEN [staged EXCEPT !.skippedRows = @ + 1]
  ELSE IF Len(line.fields) # Len(staged.sensors[line.sensor].columns) \/ Garbage \in Range(line.fields)
  THEN [staged EXCEPT !.skippedRows = @ + 1]
  ELSE [staged EXCEPT !.sensors[line.sensor].rows = Append(@, line.fields)]

\* importFS2()
ImportFS2(lines) ==
  LET Step(staged, line) ==
        CASE staged.section = "header" -> HeaderRow(staged, line)
          [] staged.section = "data" -> DataRow(staged, line)
          [] OTHER -> staged
  IN FoldLeft(Step, Staged, lines)

\* importSimple(): the columns, the units if there is a second line, rows.
ImportSimple(lines) ==
  LET header == AddColumns(Staged, "GNSS", lines[1].columns)
      units == IF header.section = "refused" \/ Len(lines) = 1 THEN header
               ELSE AddUnits(header, "GNSS", lines[2].units)
  IN IF units.section = "refused" THEN units
     ELSE [FoldLeft(DataRow, units, SubSeq(lines, 3, Len(lines))) EXCEPT !.section = "data"]

\* publish(): each staged column becomes a source measurement.
Publish(staged) ==
  [attributes |-> staged.attributes,
   columns |-> [c \in {x \in Range(ColumnOrder) : x[1] \in DOMAIN staged.sensors
                         /\ x[2] \in Range(staged.sensors[x[1]].columns)} |->
     LET sensor == staged.sensors[c[1]]
         i == CHOOSE j \in DOMAIN sensor.columns : sensor.columns[j] = c[2]
     IN [samples |-> [r \in DOMAIN sensor.rows |-> sensor.rows[r][i]],
         unit |-> sensor.units[i]]]]

\* readFile(): "lines" is empty for a file that is empty or cannot be opened.
ReadFile(format, lines) ==
  LET staged == CASE lines = <<>> \/ format = "unknown" -> Refuse(Staged)
                  [] format = "FS1" -> ImportSimple(lines)
                  [] OTHER -> ImportFS2(lines)
  IN [ok |-> staged.section = "data", session |-> Publish(staged)]

\* parseFile(): the match id is the recorded one, or the hash of the bytes;
\* a hash is not written into the session here.
ParseFile(file) ==
  LET read == ReadFile(file.format, file.lines)
      recorded == Stored(read.session, "SESSION_ID")
  IN [ok |-> read.ok, session |-> read.session,
      id |-> IF recorded # "" THEN recorded ELSE file.digest,
      recorded |-> recorded # ""]

\* extractDeviceId(): the nearest FLYSIGHT.TXT above the file decides, even
\* when it names no device.  "folders" are the folders above the file, from the
\* inside out; a FLYSIGHT.TXT gives the first value of either key in it.
ExtractDeviceId(folders) ==
  LET roots == SelectSeq(folders, LAMBDA f : f.flysightTxt) IN
  IF roots = <<>> THEN ""
  ELSE IF roots[1].deviceId # "" THEN roots[1].deviceId ELSE roots[1].serialNumber

\* getDescription(): the run of date and time folders the file is in, and its
\* own name when that is a time; the file's name when there is nothing else.
GetDescription(file) ==
  LET outer == SelectInSeq(file.folders, LAMBDA f : ~IsTimeName[f.name])
      run == IF outer = 0 THEN file.folders ELSE SubSeq(file.folders, 1, outer - 1)
      parts == Reverse([i \in DOMAIN run |-> run[i].name])
               \o (IF IsTimeName[file.baseName] THEN <<file.baseName>> ELSE <<>>)
  IN IF parts = <<>> THEN <<file.baseName>> ELSE parts

\* applyCreationDefaults(): _JUMPER_MASS stands for what every session gets,
\* _GROUND_ELEV is there when the reference is a fixed elevation.
CreationDefaults(file, parsed, prefs) ==
  (IF parsed.recorded THEN Empty ELSE "SESSION_ID" :> parsed.id)
  @@ ("DEVICE_ID" :> LET device == ExtractDeviceId(file.folders)
                     IN IF device = "" THEN DeviceIdUnknown ELSE device)
  @@ ("_DESCRIPTION" :> GetDescription(file))
  @@ ("_JUMPER_MASS" :> prefs.mass)
  @@ (IF prefs.fixedGround THEN "_GROUND_ELEV" :> "fixed" ELSE Empty)

Created(file, parsed, prefs) ==
  [parsed.session EXCEPT !.attributes = @ @@ CreationDefaults(file, parsed, prefs)]

-----------------------------------------------------------------------------
(* The conversion layer *)

SchemaScale(version, c) == IF version = "1" /\ c \in Corrected THEN LegacyScale ELSE 1

\* The schema candidate runs when SCHEMA_VER is stored; the default candidate
\* reads its absence as schema 1.  A version nobody knows changes nothing.
Effective(s, c) ==
  LET version == IF ~HasStored(s, "SCHEMA_VER") THEN ImpliedVersion ELSE s.attributes["SCHEMA_VER"]
      column == s.columns[c]
  IN [i \in DOMAIN column.samples |->
        column.samples[i] * SchemaScale(version, c) * UnitScale[column.unit]]

-----------------------------------------------------------------------------
(* Export *)

SensorColumns(s, sensor) == SelectSeq(ColumnOrder, LAMBDA c : c[1] = sensor /\ c \in DOMAIN s.columns)
Length(s, c) == Len(s.columns[c].samples)

\* planSensors(): columns of one sensor that differ in length have no row form.
IsSquare(s) ==
  \A c, d \in DOMAIN s.columns : c[1] = d[1] => Length(s, c) = Length(s, d)

\* saveSession() and exportSession() refuse before the file is opened.
CanBeWritten(s) ==
  /\ Stored(s, "SESSION_ID") # ""
  /\ HasStored(s, "SCHEMA_VER") => s.attributes["SCHEMA_VER"] \in SupportedVersions
  /\ IsSquare(s)

Sensors(s) == SelectSeq(<<"GNSS", "IMU">>, LAMBDA x : SensorColumns(s, x) # <<>>)

\* headerBytes(): stored attributes, then $COL and $UNIT of each sensor.
HeaderLines(s) ==
  LET keys == SelectSeq(AttributeOrder, LAMBDA k : HasStored(s, k))
      Declared(x) ==
        LET columns == SensorColumns(s, x) IN
        << [kind |-> "COL", sensor |-> x, columns |-> [i \in DOMAIN columns |-> columns[i][2]]],
           [kind |-> "UNIT", sensor |-> x, units |-> [i \in DOMAIN columns |-> s.columns[columns[i]].unit]] >>
  IN [i \in DOMAIN keys |-> [kind |-> "VAR", key |-> keys[i], value |-> Text(keys[i], s.attributes[keys[i]])]]
     \o FlattenSeq([i \in DOMAIN Sensors(s) |-> Declared(Sensors(s)[i])])
     \o << [kind |-> "DATA"] >>

\* Mutant: the rows hold what the conversion layer makes of the samples.
RowLinesConverted(s) ==
  LET RowsOf(x) ==
        LET columns == SensorColumns(s, x) IN
        [r \in 1 .. Length(s, columns[1]) |->
           [kind |-> "ROW", sensor |-> x, fields |-> [i \in DOMAIN columns |-> Effective(s, columns[i])[r]]]]
  IN FlattenSeq([i \in DOMAIN Sensors(s) |-> RowsOf(Sensors(s)[i])])

\* writeRows(): the recorded samples, never converted ones.
RowLines(s) ==
  LET RowsOf(x) ==
        LET columns == SensorColumns(s, x) IN
        [r \in 1 .. Length(s, columns[1]) |->
           [kind |-> "ROW", sensor |-> x, fields |-> [i \in DOMAIN columns |-> s.columns[columns[i]].samples[r]]]]
  IN FlattenSeq([i \in DOMAIN Sensors(s) |-> RowsOf(Sensors(s)[i])])

\* exportSession(), of a session that can be written
Export(s) == HeaderLines(s) \o RowLines(s)

=============================================================================
