------------------------------- MODULE Import -------------------------------
(***************************************************************************)
(* Importing files into the logbook: the batch, the decision between a new *)
(* session and a merge, the merge rules, and what becomes of a session     *)
(* when it is saved, unloaded and loaded again.                            *)
(* (sessionimport.cpp, sessionmerge.cpp, SessionModel::mergeSessions,      *)
(* LogbookManager::loadSession)                                            *)
(*                                                                         *)
(* How and when a save happens, and what a crash leaves, is module         *)
(* Logbook's subject; here a save is one step and writes one file.         *)
(***************************************************************************)
EXTENDS SessionFile

CONSTANTS
  Parsed,       \* what may be imported: for each file [format, lines, digest,
                \* baseName, folders] what ParseFile reads in it
  Batches,      \* bound: what is imported at once, sequences of files
  Preferences,  \* the settings creation defaults are taken from
  Edits,        \* <<key, value>>: what the user may set; viewer keys
  Stub          \* a row whose session is not in memory

VARIABLES
  rows,         \* m_rows: session id -> session or Stub
  disk,         \* the session files: id -> what reading the file gives
  unsaved,      \* rows to be saved
  last          \* the file last imported into each session; a history

vars == <<rows, disk, unsaved, last>>

-----------------------------------------------------------------------------
(* SessionMerge *)

IsPlaceholder(key, v) == key = "DEVICE_ID" /\ v = DeviceIdUnknown

\* sameAttributeValue(), sameColumn()
Same(s, t, key) == Text(key, s.attributes[key]) = Text(key, t.attributes[key])

\* A key the session lacks, or has only as Viewer's placeholder.
AttributesToSet(existing, incoming) ==
  {key \in DOMAIN incoming.attributes :
     /\ ~IsPlaceholder(key, incoming.attributes[key])
     /\ \/ ~HasStored(existing, key)
        \/ IsPlaceholder(key, existing.attributes[key]) /\ ~Same(existing, incoming, key)}

Conflicts(existing, incoming) ==
  {key \in DOMAIN incoming.attributes \ AttributesToSet(existing, incoming) :
     /\ ~IsPlaceholder(key, incoming.attributes[key])
     /\ ~IsViewerKey(key)
     /\ ~Same(existing, incoming, key)}

ColumnsToSet(existing, incoming) ==
  {c \in DOMAIN incoming.columns :
     c \notin DOMAIN existing.columns \/ existing.columns[c] # incoming.columns[c]}

\* raggedError(): the columns the merge keeps must be as long as the ones it writes.
Ragged(existing, incoming, planned) ==
  \E c \in planned : \E d \in DOMAIN existing.columns \cup planned :
    /\ c[1] = d[1]
    /\ Length(incoming, c) # (IF d \in planned THEN Length(incoming, d) ELSE Length(existing, d))

Rejected == [ok |-> FALSE, attributes |-> {}, columns |-> {}]

\* Mutants: a conflict is resolved in favour of the file; lengths do not matter.
PlanFileWins(existing, incoming) ==
  LET planned == ColumnsToSet(existing, incoming)
  IN IF Ragged(existing, incoming, planned) THEN Rejected
     ELSE [ok |-> TRUE, columns |-> planned,
           attributes |-> AttributesToSet(existing, incoming) \cup Conflicts(existing, incoming)]
PlanAnyLength(existing, incoming) ==
  IF Conflicts(existing, incoming) # {} THEN Rejected
  ELSE [ok |-> TRUE, attributes |-> AttributesToSet(existing, incoming), columns |-> ColumnsToSet(existing, incoming)]

\* plan()
Plan(existing, incoming) ==
  LET planned == ColumnsToSet(existing, incoming)
  IN IF Conflicts(existing, incoming) # {} \/ Ragged(existing, incoming, planned) THEN Rejected
     ELSE [ok |-> TRUE, attributes |-> AttributesToSet(existing, incoming), columns |-> planned]

ChangesNothing(plan) == plan.attributes = {} /\ plan.columns = {}

\* Mutant: what the session has is kept.
ApplyKeeping(existing, incoming, plan) ==
  [attributes |-> existing.attributes @@ [k \in plan.attributes |-> incoming.attributes[k]],
   columns |-> existing.columns @@ [c \in plan.columns |-> incoming.columns[c]]]

\* apply()
Apply(existing, incoming, plan) ==
  [attributes |-> [k \in plan.attributes |-> incoming.attributes[k]] @@ existing.attributes,
   columns |-> [c \in plan.columns |-> incoming.columns[c]] @@ existing.columns]

-----------------------------------------------------------------------------
(* The logbook's copy *)

\* applyLegacyBackfill(), and loadSessionRaw() with the check of the id
Backfill(s, prefs) == [s EXCEPT !.attributes = @ @@ ("_JUMPER_MASS" :> prefs.mass)]
Loads(id) == id \in DOMAIN disk /\ disk[id].ok /\ Stored(disk[id].session, "SESSION_ID") = id

\* What the session is, in memory or on disk.
Session(id) == IF rows[id] # Stub THEN rows[id] ELSE disk[id].session

-----------------------------------------------------------------------------
(* A batch.  "at" is the logbook the files before left behind. *)

MergeInto(at, id, incoming, loaded, prefs) ==
  LET plan == Plan(loaded, incoming)
      merged == Apply(loaded, incoming, plan)
  IN IF ~plan.ok THEN at
     ELSE IF ChangesNothing(plan) THEN [at EXCEPT !.imported = @ \cup {id}]
     ELSE [at EXCEPT !.rows[id] = IF at.rows[id] = Stub THEN Backfill(merged, prefs) ELSE merged,
                     !.changed = @ \cup {id}, !.imported = @ \cup {id}]

\* mergeSessions(), one file: create, merge in place, or merge into what is on
\* disk and install it only on success.
MergeFile(at, file, parsed, prefs) ==
  LET id == parsed.id
      after == IF id \notin DOMAIN at.rows
               THEN [at EXCEPT !.rows = (id :> Created(file, parsed, prefs)) @@ @,
                               !.changed = @ \cup {id}, !.imported = @ \cup {id}]
               ELSE IF at.rows[id] # Stub THEN MergeInto(at, id, parsed.session, at.rows[id], prefs)
               ELSE IF Loads(id) THEN MergeInto(at, id, parsed.session, disk[id].session, prefs)
               ELSE at
  IN IF ~parsed.ok THEN at
     ELSE IF id \in after.imported THEN [after EXCEPT !.last = (id :> file) @@ @] ELSE after

\* importFiles(): every file is parsed on its own, and a file that failed
\* leaves the others alone; a batch that is cancelled is a shorter batch.
Import(batch, prefs) ==
  \E parsed \in {Parsed} :
    LET Step(at, file) == MergeFile([at EXCEPT !.imported = {}], file, parsed[file], prefs)
        done == FoldLeft(Step, [rows |-> rows, changed |-> {}, imported |-> {}, last |-> last], batch)
    IN /\ rows' = done.rows
       /\ unsaved' = unsaved \cup done.changed
       /\ last' = done.last
       /\ UNCHANGED disk

Save(id) ==
  /\ id \in unsaved /\ rows[id] # Stub
  /\ CanBeWritten(rows[id])
  /\ disk' = (id :> ReadFile("FS2", Export(rows[id]))) @@ disk
  /\ unsaved' = unsaved \ {id}
  /\ UNCHANGED <<rows, last>>

\* A row gives up its session only when it was saved.
Unload(id) ==
  /\ rows[id] # Stub /\ id \notin unsaved
  /\ rows' = [rows EXCEPT ![id] = Stub]
  /\ UNCHANGED <<disk, unsaved, last>>

Load(id, prefs) ==
  /\ rows[id] = Stub /\ Loads(id)
  /\ rows' = [rows EXCEPT ![id] = Backfill(disk[id].session, prefs)]
  /\ UNCHANGED <<disk, unsaved, last>>

\* updateAttribute(), from the logbook and the tools: viewer keys only.  Text
\* is kept on one line, so that memory equals what a reload would give.
Edit(id, key, v) ==
  /\ rows[id] # Stub /\ Stored(rows[id], key) # Text(key, v)
  /\ rows' = [rows EXCEPT ![id].attributes = (key :> Text(key, v)) @@ @]
  /\ unsaved' = unsaved \cup {id}
  /\ UNCHANGED <<disk, last>>

-----------------------------------------------------------------------------
Init == rows = Empty /\ disk = Empty /\ unsaved = {} /\ last = Empty

Next ==
  \/ \E batch \in Batches, prefs \in Preferences : Import(batch, prefs)
  \/ \E id \in DOMAIN rows :
       \/ Save(id) \/ Unload(id)
       \/ \E prefs \in Preferences : Load(id, prefs)
       \/ \E e \in Edits : Edit(id, e[1], e[2])

Spec == Init /\ [][Next]_vars

-----------------------------------------------------------------------------
\* A file that was imported is known: importing it again, after edits, saves,
\* unloads and reloads, would change nothing, unless another file was imported
\* into the session since.  (mergeSessions, plan, apply)
ReimportChangesNothing ==
  \A id \in DOMAIN last :
    LET plan == Plan(Session(id), Parsed[last[id]].session)
    IN plan.ok /\ ChangesNothing(plan)

\* Whatever files a session was put together from, and in whichever order, it
\* can be written: the merge lets no two columns of a sensor differ in length
\* and no schema nobody understands through.  (raggedError, planSensors,
\* validateSchema, saveSession)
SessionsCanBeWritten ==
  \A id \in DOMAIN rows : rows[id] # Stub => CanBeWritten(rows[id])

\* What a file recorded about a session stands: no later file, edit or save
\* changes or removes it, the placeholder for an unknown device apart; and
\* what the user set stands against what files bring.  (plan, conflicts)
RecordedStands ==
  [][\A id \in DOMAIN rows : \A s \in {Session(id)}, t \in {Session(id)'} :
       \A key \in DOMAIN s.attributes :
         \/ HasStored(t, key) /\ Same(s, t, key)
         \/ IsPlaceholder(key, s.attributes[key])
         \/ IsViewerKey(key) /\ last' = last]_vars

\* The values that plots and calculations read survive the way to the disk and
\* back: nothing but the import of another file changes one or loses one.
\* (writeRows, importDataRow, convert)
ReadValuesSurvive ==
  [][last' = last =>
       \A id \in DOMAIN rows : \A s \in {Session(id)}, t \in {Session(id)'} :
         \A c \in DOMAIN s.columns : c \in DOMAIN t.columns /\ Effective(t, c) = Effective(s, c)]_vars

\* Neither what a file recorded of a session nor its values are lost.
WhatWasRecordedStands == RecordedStands /\ ReadValuesSurvive

=============================================================================
