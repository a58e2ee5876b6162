------------------------------ MODULE MCImport ------------------------------
(* Values for the constants of Import. Files of a recorded session and of    *)
(* one without a SESSION_ID: the two files of a recording, with and without  *)
(* a declared schema, one that conflicts, one that is too short, one that    *)
(* corrects a column, one a Viewer wrote, and one a header error rejects.    *)
EXTENDS SessionFile

Var(key, value) == [kind |-> "VAR", key |-> key, value |-> value]
Col(sensor, columns) == [kind |-> "COL", sensor |-> sensor, columns |-> columns]
Unit(sensor, units) == [kind |-> "UNIT", sensor |-> sensor, units |-> units]
Row(sensor, fields) == [kind |-> "ROW", sensor |-> sensor, fields |-> fields]
Data == [kind |-> "DATA"]

\* On the device a file sits in the folder of its time, in the folder of its
\* day, under FLYSIGHT.TXT; elsewhere it sits in no folder of that kind.
Folder(name, flysightTxt, deviceId, serialNumber) ==
  [name |-> name, flysightTxt |-> flysightTxt, deviceId |-> deviceId, serialNumber |-> serialNumber]
OnDevice == << Folder("12-30-00", FALSE, "", ""), Folder("24-06-01", FALSE, "", ""),
               Folder("/", TRUE, "", "d1") >>
MCIsTimeName == [n \in {"12-30-00", "24-06-01", "/", "track", "sensor", "marked", "other", "short", "fixed",
                        "saved", "simple", "newer"} |-> n \in {"12-30-00", "24-06-01"}]

File(format, lines, digest, folders) ==
  [format |-> format, lines |-> lines, digest |-> digest, baseName |-> digest, folders |-> folders]
FS2(header, rest, digest, folders) == File("FS2", header \o rest, digest, folders)

TrackBody == << Col("GNSS", <<"time">>), Unit("GNSS", <<"s">>), Data, Row("GNSS", <<1>>), Row("GNSS", <<2>>) >>
SensorBody == << Col("IMU", <<"time", "wx">>), Unit("IMU", <<"s", "deg/s">>), Data,
                 Row("IMU", <<1, 2>>), Row("BARO", <<1>>), Row("IMU", <<2, 5>>), Row("IMU", <<3>>) >>
ShortBody == << Col("IMU", <<"wx">>), Unit("IMU", <<"deg/s">>), Data, Row("IMU", <<2>>) >>
FixedBody == << Col("IMU", <<"time", "wx">>), Unit("IMU", <<"s">>), Data, Row("IMU", <<1, 4>>), Row("IMU", <<2, 4>>) >>

Good == {
  FS2(<< Var("SESSION_ID", "s1") >>, TrackBody, "track", <<>>),
  FS2(<< Var("SESSION_ID", "s1"), Var("DEVICE_ID", "d1") >>, SensorBody, "sensor", <<>>),
  FS2(<< Var("SESSION_ID", "s1"), Var("SCHEMA_VER", "2") >>, SensorBody, "marked", OnDevice),
  FS2(<< Var("SESSION_ID", "s1"), Var("SCHEMA_VER", "1") >>, TrackBody, "other", <<>>),
  FS2(<< Var("SESSION_ID", "s1") >>, ShortBody, "short", <<>>),
  FS2(<< Var("SESSION_ID", "s1") >>, FixedBody, "fixed", <<>>),
  FS2(<< Var("SESSION_ID", "s1"), Var("_DESCRIPTION", <<"mine">>) >>, TrackBody, "saved", <<>>),
  File("FS1", << Col("GNSS", <<"time">>), Unit("GNSS", <<"(s)">>), Row("GNSS", <<3>>), Row("GNSS", <<Garbage>>) >>,
       "simple", <<>>) }
Bad == { FS2(<< Var("SESSION_ID", "s1"), Var("SCHEMA_VER", "3") >>, TrackBody, "newer", <<>>) }

MCFiles == Good \cup Bad
MCParsed == [file \in MCFiles |-> ParseFile(file)]
Called(name) == CHOOSE f \in MCFiles : f.digest = name
MCBatches == { <<f>> : f \in MCFiles }
  \cup { << Called("track"), Called("sensor") >>, << Called("newer"), Called("short"), Called("fixed") >> }
MCPreferences == { [mass |-> "70", fixedGround |-> TRUE] }
MCAttributes == <<"DEVICE_ID", "SESSION_ID", "SCHEMA_VER", "_DESCRIPTION", "_GROUND_ELEV", "_JUMPER_MASS">>
MCColumns == << <<"GNSS", "time">>, <<"IMU", "time">>, <<"IMU", "wx">> >>
MCCorrected == { <<"IMU", "wx">> }
MCUnitScale == [u \in {"", "s", "(s)", "deg/s"} |-> IF u = "deg/s" THEN 3 ELSE 1]
MCEdits == { <<"_DESCRIPTION", <<"two\nlines">> >> }
=============================================================================
