----------------------------- MODULE LogbookProps -----------------------------
(***************************************************************************)
(* What the logbook promises, stated about the states and steps of         *)
(* Logbook.                                                                *)
(***************************************************************************)
EXTENDS Logbook

Shown == [id : Sessions \union {NoSession}, val : [Columns -> Bits \union {Nothing}]]

\* Every variable has its type, and the flags of a row go together: a dirty row
\* is loaded and no placeholder, and only a dirty row's save has failed.
TypeOK ==
  /\ DOMAIN lb = {"files", "index", "enabled", "env", "uuidOf", "cached", "unsaved",
                  "unsavedAll", "needsFlush", "indexDirty"}
  /\ \A u \in Uuids : lb.files[u] \in Contents \union {NoFile}
  /\ lb.env \in Environments /\ lb.enabled \subseteq Columns /\ lb.indexDirty \in BOOLEAN
  /\ \A i \in Ids : /\ lb.uuidOf[i] \in Uuids \union {NoUuid}
                    /\ lb.cached[i] \in [Columns -> Cached]
                    /\ lb.unsaved[i] \subseteq Columns
                    /\ data[i] \in Shown \union {Stub}
                    /\ Loaded(i) => i \in rows
  /\ lb.index # NoIndex => /\ lb.index.env \in Environments
                           /\ lb.index.uuidOf \in [Ids -> Uuids \union {NoUuid}]
                           /\ \A i \in Ids : lb.index.values[i] \in [Columns -> Cached]
  /\ lb.unsavedAll \subseteq Ids /\ lb.needsFlush \subseteq Ids
  /\ rows \subseteq Ids /\ locked \subseteq Uuids
  /\ loadFailed \subseteq rows /\ saveFailed \subseteq dirty /\ dirty \subseteq rows \ loadFailed
  /\ \A i \in rows : (i \in loadFailed) = (Loaded(i) /\ data[i].id = NoSession)
  /\ \A i \in dirty : Loaded(i)
  /\ mode \in {"running", "closing", "closed"} /\ rest \subseteq dirty

-------------------------------------------------------------------------------
(* The index and the session files *)

\* "index.json on disk never holds a column value that disagrees with the
\* session file on disk": a value in the index is the one that the file it
\* names gives, in the environment the index names.
IndexAgrees ==
  lb.index # NoIndex =>
    \A i \in Ids, c \in Columns :
      LET u == lb.index.uuidOf[i]
          v == lb.index.values[i][c]
      IN  u # NoUuid /\ v # NoValue /\ lb.files[u] # NoFile
            => v = [bit |-> lb.files[u].val[c], env |-> lb.index.env]

\* A cached value that is present is the column's value for the session in
\* memory or, for a stub, in its file; one that may not hold is removed.
CacheAgrees ==
  \A i \in rows, c \in lb.enabled :
    LET v == lb.cached[i][c]
    IN  v # NoValue =>
          \/ Loaded(i) /\ v = ValueOf(lb, data[i], c)
          \/ ~Loaded(i) /\ (Readable(i) => v = ValueOf(lb, FileOf(lb, i), c))

Marked(i, c) == i \in lb.unsavedAll \/ c \in lb.unsaved[i]

\* A column of a session in memory that its file does not agree with is marked
\* unsaved, and the session is dirty: the edit is neither forgotten nor
\* published before it is saved.
EditsAreMarked ==
  \A i \in rows :
    Loaded(i) /\ i \notin loadFailed =>
      \/ Known(lb, i) /\ FileOf(lb, i) = data[i]
      \/ /\ i \in dirty
         /\ Known(lb, i) /\ FileOf(lb, i) # NoFile => \A c \in lb.enabled : FileOf(lb, i).val[c] # data[i].val[c] => Marked(i, c)
         /\ ~Known(lb, i) => i \in lb.unsavedAll

\* While the program runs every session file belongs to an id, so that its
\* session is a row unless the user removed it.
FilesAreKnown ==
  \A u \in Uuids : lb.files[u] # NoFile => \E i \in Ids : lb.uuidOf[i] = u

\* While the index in memory is not marked for a flush, the one on disk names
\* the same files and lacks no value of a row that could be published: closing
\* the program without a flush loses nothing.
CleanIndexIsOnDisk ==
  lb.index # NoIndex /\ ~lb.indexDirty =>
    /\ lb.index.uuidOf = lb.uuidOf
    /\ \A i \in rows, c \in Columns :
         Publishes(lb, i, c) => lb.cached[i][c] \in {NoValue, lb.index.values[i][c]}

\* What the index and the cache tell of a session is true of it, whatever failed
\* before.
ValuesAgree == IndexAgrees /\ CacheAgrees /\ EditsAreMarked /\ CleanIndexIsOnDisk

-------------------------------------------------------------------------------
(* Steps *)

Restarted == \E e \in Environments : Restart(e)

\* A row that goes back to a stub, whoever asks for it, leaves its content in
\* its file; only an abrupt end or the removal of the session loses edits.
NothingDropped ==
  [][\A i \in rows :
       Loaded(i) /\ i \notin loadFailed /\ i \in rows' /\ data'[i] = Stub
         => Restarted \/ (lb'.uuidOf[i] # NoUuid /\ lb'.files[lb'.uuidOf[i]] = data[i])]_vars

\* When the program has closed, what is not in the files is what could not be
\* saved.
ClosedIsSaved ==
  mode = "closed" =>
    \A i \in rows : Loaded(i) /\ i \notin loadFailed /\ i \notin saveFailed
                      => Known(lb, i) /\ FileOf(lb, i) = data[i]

\* No session and no edit is lost sight of, neither while the program runs nor
\* when it has closed.
NothingIsLost == TypeOK /\ FilesAreKnown /\ ClosedIsSaved

-------------------------------------------------------------------------------
(* Progress *)

\* Unless the user goes on for ever, every bulk edit is made and every dirty row
\* is saved or has failed to be, again and again: a save that keeps failing does
\* not keep the others waiting.  And every row has all its column values again
\* and again, unless the file of one that lacks some cannot be read.
IdleWorkEnds ==
  []<><<UserCalls \/ Closing>>_vars
    \/ []<>(Running => /\ SaveWork = {} /\ ~BulkWork
                       /\ ColumnWork = {} \/ \E i \in ColumnWork : ~Loaded(i) /\ ~Readable(i))

===============================================================================
