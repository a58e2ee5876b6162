---------------------------- MODULE LogbookSafety ----------------------------
(***************************************************************************)
(* Proofs about Logbook for any number of sessions, files, columns,        *)
(* attributes and environments, and any bulk edit.  The first part is      *)
(* about the operators of the model: what each save, load, import and      *)
(* rebuild keeps of a logbook that is sound.  The second part is about the *)
(* steps and gives the safety properties: every write may fail and the     *)
(* program may stop after any of them, but the four faults that the        *)
(* constants name are excluded: with them the properties do not hold.      *)
(* The third part shows, with an invariant of its own, that with the four  *)
(* faults no session file gets out of sight either.                        *)
(***************************************************************************)
EXTENDS LogbookProps, TLAPS, SequenceTheorems, WellFoundedInduction

------------------------------------------------------------------------------
(* The inductive invariant                                                   *)

UuidMaps == [Ids -> Uuids \union {NoUuid}]
ValueMaps == [Ids -> [Columns -> Cached]]
Indexes == [env : Environments, uuidOf : UuidMaps, values : ValueMaps]
Books ==
  [files : [Uuids -> Contents \union {NoFile}], index : Indexes \union {NoIndex},
   enabled : SUBSET Columns, env : Environments, uuidOf : UuidMaps, cached : ValueMaps,
   unsaved : [Ids -> SUBSET Columns], unsavedAll : SUBSET Ids, needsFlush : SUBSET Ids,
   indexDirty : BOOLEAN]
Datas == [Ids -> Contents \union {Stub}]
Edits == [id : Ids, attr : Attributes]

\* A map f from ids to files is sound: every file it names is there, is named
\* once, and by its own name or by the SESSION_ID in it.
NamesFiles(b, f) ==
  /\ \A i \in Ids : f[i] # NoUuid => b.files[f[i]] # NoFile
  /\ \A i, j \in Ids : f[i] = f[j] /\ f[i] # NoUuid => i = j
  /\ \A s \in Sessions : f[s] # NoUuid => b.files[f[s]].id = s
  /\ \A u \in Uuids : f[u] \in {u, NoUuid}

\* No two files hold one session, and every file is named.
FilesAreNamed(b) ==
  /\ NamesFiles(b, b.uuidOf)
  /\ \A u, w \in Uuids : b.files[u] # NoFile /\ b.files[w] # NoFile /\ b.files[u].id = b.files[w].id => u = w
  /\ \A u \in Uuids : b.files[u] # NoFile => \E i \in Ids : b.uuidOf[i] = u

\* Ids with a file are rows, stubs have a file, and what is loaded has its id.
RowsAreKnown(b, R, d, q) ==
  /\ \A i \in Ids : d[i] # Stub => i \in R /\ i \in Sessions /\ d[i].id = i
  /\ \A i \in q : d[i] # Stub
  /\ \A i \in R : d[i] = Stub => Known(b, i)
  /\ \A i \in Ids : Known(b, i) => i \in R

\* Of the session of a row that is known by its file name nothing is known yet.
StubsAreNew(b, R) ==
  \A u \in R \intersect Uuids :
    LET s == b.files[u].id
    IN  /\ s \notin R
        /\ b.cached[s] = NoValues /\ b.unsaved[s] = {}
        /\ s \notin b.unsavedAll /\ s \notin b.needsFlush

ContentOf(b, d, i) == IF d[i] = Stub THEN FileOf(b, i) ELSE d[i]

CacheIsTrue(b, R, d) ==
  \A i \in R, c \in Columns :
    b.cached[i][c] # NoValue => b.cached[i][c] = ValueOf(b, ContentOf(b, d, i), c)

IsMarked(b, i, c) == i \in b.unsavedAll \/ c \in b.unsaved[i]

ChangesAreMarked(b, d, q) ==
  \A i \in Ids : d[i] # Stub =>
    \/ Known(b, i) /\ FileOf(b, i) = d[i]
    \/ /\ i \in q
       /\ Known(b, i) => \A c \in b.enabled : FileOf(b, i).val[c] # d[i].val[c] => IsMarked(b, i, c)
       /\ ~Known(b, i) => i \in b.unsavedAll

\* The session y is what the file of i holds.
InFile(b, i, y) == Known(b, i) /\ FileOf(b, i) = y

\* The memory and the files agree.
InMemory(b, R, d, q) ==
  /\ R \subseteq Ids /\ q \subseteq R
  /\ FilesAreNamed(b)
  /\ RowsAreKnown(b, R, d, q)
  /\ StubsAreNew(b, R)
  /\ CacheIsTrue(b, R, d)
  /\ ChangesAreMarked(b, d, q)

IndexIsTrue(b) ==
  b.index # NoIndex =>
    /\ NamesFiles(b, b.index.uuidOf)
    /\ \A i \in Ids, c \in Columns :
         b.index.values[i][c] # NoValue =>
           /\ b.index.uuidOf[i] # NoUuid
           /\ c \in b.enabled
           /\ b.index.values[i][c] = [bit |-> b.files[b.index.uuidOf[i]].val[c], env |-> b.index.env]

\* A session that may be written without a flush before changes no value of
\* its file that the index holds.
FlushIsAsked(b, d) ==
  b.index # NoIndex =>
    \A i \in Ids : d[i] # Stub /\ Known(b, i) /\ i \notin b.needsFlush =>
      \A j \in Ids, c \in Columns :
        b.index.uuidOf[j] = b.uuidOf[i] /\ b.index.values[j][c] # NoValue
          => d[i].val[c] = FileOf(b, i).val[c]

CleanIsWritten(b, R) ==
  b.index # NoIndex /\ ~b.indexDirty =>
    /\ b.index.uuidOf = b.uuidOf
    /\ \A i \in R, c \in Columns : Publishes(b, i, c) => b.cached[i][c] \in {NoValue, b.index.values[i][c]}

OnDisk(b, R, d) == IndexIsTrue(b) /\ FlushIsAsked(b, d) /\ CleanIsWritten(b, R)

Good(b, R, d, q) == InMemory(b, R, d, q) /\ OnDisk(b, R, d)

------------------------------------------------------------------------------
(* The placeholders                                                          *)

LEMMA NothingIsSomething ==
  NoFile \notin Contents /\ Stub \notin Contents /\ NoValue \notin Values /\ NoIndex \notin Indexes
<1>1. \A x \in Contents : DOMAIN x = {"id", "val"}
  BY DEF Contents
<1>2. \A x \in Values : DOMAIN x = {"bit", "env"}
  BY DEF Values
<1>3. \A x \in Indexes : DOMAIN x = {"env", "uuidOf", "values"}
  BY DEF Indexes
<1>4. DOMAIN NoFile = {"none"} /\ DOMAIN Stub = {"none"} /\ DOMAIN NoValue = {"none"} /\ DOMAIN NoIndex = {"none"}
  BY DEF NoFile, Stub, NoValue, NoIndex
<1>5. {"none"} # {"id", "val"} /\ {"none"} # {"bit", "env"} /\ {"none"} # {"env", "uuidOf", "values"}
  OBVIOUS
<1> QED
  BY <1>1, <1>2, <1>3, <1>4, <1>5

LEMMA NoValuesIsTyped == NoValues \in [Columns -> Cached] /\ \A c \in Columns : NoValues[c] = NoValue
BY DEF NoValues, Cached

\* The fields of a logbook have their types.
LEMMA BookFields ==
  ASSUME NEW b \in Books
  PROVE  /\ b.files \in [Uuids -> Contents \union {NoFile}] /\ b.index \in Indexes \union {NoIndex}
         /\ b.enabled \subseteq Columns /\ b.env \in Environments /\ b.uuidOf \in UuidMaps
         /\ b.cached \in ValueMaps /\ b.unsaved \in [Ids -> SUBSET Columns]
         /\ b.unsavedAll \subseteq Ids /\ b.needsFlush \subseteq Ids /\ b.indexDirty \in BOOLEAN
BY DEF Books

LEMMA ValueIsTyped ==
  ASSUME NEW b \in Books, NEW x \in Contents, NEW c \in Columns
  PROVE  ValueOf(b, x, c) \in Values /\ ValueOf(b, x, c) # NoValue
<1>1. ValueOf(b, x, c) \in Values
  BY BookFields DEF ValueOf, Values, Contents
<1> QED
  BY <1>1, NothingIsSomething

------------------------------------------------------------------------------
(* Writing the index                                                         *)

LEMMA IndexOfFields ==
  ASSUME NEW b \in Books, NEW n, n = IndexOf(b)
  PROVE  /\ n \in Indexes /\ n # NoIndex /\ n.env = b.env /\ n.uuidOf = b.uuidOf
         /\ \A i \in Ids, c \in Columns :
              n.values[i][c] = IF Known(b, i) /\ Publishes(b, i, c) THEN b.cached[i][c] ELSE NoValue
<1>1. /\ b.cached \in ValueMaps /\ b.uuidOf \in UuidMaps /\ b.env \in Environments
  BY BookFields
<1>. DEFINE V == [i \in Ids |-> [c \in Columns |->
                    IF Known(b, i) /\ Publishes(b, i, c) THEN b.cached[i][c] ELSE NoValue]]
<1>2. V \in ValueMaps
  BY <1>1 DEF ValueMaps, Cached
<1>3. n = [env |-> b.env, uuidOf |-> b.uuidOf, values |-> V]
  BY DEF IndexOf
<1>4. \A i \in Ids, c \in Columns :
        V[i][c] = IF Known(b, i) /\ Publishes(b, i, c) THEN b.cached[i][c] ELSE NoValue
  OBVIOUS
<1>. HIDE DEF V
<1>5. n \in Indexes
  BY <1>1, <1>2, <1>3 DEF Indexes
<1>6. n.env = b.env /\ n.uuidOf = b.uuidOf /\ n.values = V
  BY <1>3
<1> QED
  BY <1>4, <1>5, <1>6, NothingIsSomething

LEMMA FlushedFields ==
  ASSUME NEW b \in Books, NEW x, x = Flushed(b)
  PROVE  /\ x \in Books /\ x.files = b.files /\ x.index = IndexOf(b) /\ x.enabled = b.enabled
         /\ x.env = b.env /\ x.uuidOf = b.uuidOf /\ x.cached = b.cached /\ x.unsaved = b.unsaved
         /\ x.unsavedAll = b.unsavedAll /\ x.needsFlush = {} /\ ~x.indexDirty
<1>1. IndexOf(b) \in Indexes
  BY IndexOfFields
<1>2. x = [b EXCEPT !.index = IndexOf(b), !.needsFlush = {}, !.indexDirty = FALSE]
  BY DEF Flushed
<1>3. x \in Books
  BY <1>1, <1>2 DEF Books
<1>4. ~x.indexDirty
  BY <1>2 DEF Books
<1> QED
  BY <1>2, <1>3, <1>4 DEF Books

\* What a flush publishes of a row is what its file says.
LEMMA PublishedIsSaved ==
  ASSUME NEW b \in Books, NEW R, NEW d \in Datas, NEW q, InMemory(b, R, d, q),
         NEW i \in Ids, NEW c \in Columns, Known(b, i), Publishes(b, i, c), b.cached[i][c] # NoValue
  PROVE  /\ d[i] # Stub => d[i].val[c] = FileOf(b, i).val[c]
         /\ b.cached[i][c] = ValueOf(b, FileOf(b, i), c)
<1>1. i \in R /\ c \in b.enabled /\ ~IsMarked(b, i, c)
  BY DEF InMemory, RowsAreKnown, Publishes, IsMarked
<1>2. d[i] # Stub => d[i].val[c] = FileOf(b, i).val[c]
  BY <1>1 DEF InMemory, ChangesAreMarked
<1>3. b.cached[i][c] = ValueOf(b, ContentOf(b, d, i), c)
  BY <1>1 DEF InMemory, CacheIsTrue
<1> QED
  BY <1>2, <1>3 DEF ContentOf, ValueOf

\* Whatever was on disk, after a flush it is right.
LEMMA FlushedIsGood ==
  ASSUME NEW b \in Books, NEW R, NEW d \in Datas, NEW q, InMemory(b, R, d, q), NEW x, x = Flushed(b)
  PROVE  x \in Books /\ Good(x, R, d, q)
<1>1. /\ x \in Books /\ x.files = b.files /\ x.index = IndexOf(b) /\ x.enabled = b.enabled
      /\ x.env = b.env /\ x.uuidOf = b.uuidOf /\ x.cached = b.cached /\ x.unsaved = b.unsaved
      /\ x.unsavedAll = b.unsavedAll /\ x.needsFlush = {} /\ ~x.indexDirty
  BY FlushedFields
<1>2. /\ x.index.env = b.env /\ x.index.uuidOf = b.uuidOf
      /\ \A i \in Ids, c \in Columns :
           x.index.values[i][c] = IF Known(b, i) /\ Publishes(b, i, c) THEN b.cached[i][c] ELSE NoValue
  BY <1>1, IndexOfFields
<1>3. FilesAreNamed(x)
  BY <1>1 DEF InMemory, FilesAreNamed, NamesFiles
<1>4. RowsAreKnown(x, R, d, q) /\ ChangesAreMarked(x, d, q)
  BY <1>1 DEF InMemory, RowsAreKnown, ChangesAreMarked, Known, FileOf, IsMarked
<1>5. StubsAreNew(x, R)
  BY <1>1 DEF InMemory, StubsAreNew
<1>6. CacheIsTrue(x, R, d)
  BY <1>1 DEF InMemory, CacheIsTrue, ContentOf, FileOf, ValueOf
<1>7. IndexIsTrue(x)
  <2>1. NamesFiles(x, x.index.uuidOf)
    BY <1>1, <1>2, <1>3 DEF FilesAreNamed
  <2>2. ASSUME NEW i \in Ids, NEW c \in Columns, x.index.values[i][c] # NoValue
        PROVE  /\ x.index.uuidOf[i] # NoUuid
               /\ c \in x.enabled
               /\ x.index.values[i][c] = [bit |-> x.files[x.index.uuidOf[i]].val[c], env |-> x.index.env]
    <3>1. Known(b, i) /\ Publishes(b, i, c) /\ x.index.values[i][c] = b.cached[i][c]
      BY <1>2, <2>2
    <3>2. b.cached[i][c] = ValueOf(b, FileOf(b, i), c)
      BY <2>2, <3>1, PublishedIsSaved
    <3> QED
      BY <1>1, <1>2, <3>1, <3>2 DEF Known, Publishes, ValueOf, FileOf
  <2> QED
    BY <2>1, <2>2 DEF IndexIsTrue
<1>8. FlushIsAsked(x, d)
  <2>1. SUFFICES ASSUME NEW i \in Ids, d[i] # Stub, Known(x, i), NEW j \in Ids, NEW c \in Columns,
                        x.index.uuidOf[j] = x.uuidOf[i], x.index.values[j][c] # NoValue
                 PROVE  d[i].val[c] = FileOf(x, i).val[c]
    BY DEF FlushIsAsked
  <2>2. i = j
    BY <1>1, <1>2, <1>3, <2>1 DEF FilesAreNamed, NamesFiles, Known
  <2>3. Known(b, i) /\ Publishes(b, i, c) /\ b.cached[i][c] # NoValue
    BY <1>2, <2>1, <2>2
  <2>4. d[i].val[c] = FileOf(b, i).val[c]
    BY <2>1, <2>3, PublishedIsSaved
  <2> QED
    BY <1>1, <2>4 DEF FileOf
<1>9. CleanIsWritten(x, R)
  <2>1. SUFFICES ASSUME NEW i \in R, NEW c \in Columns, Publishes(x, i, c)
                 PROVE  x.cached[i][c] \in {NoValue, x.index.values[i][c]}
    BY <1>1, <1>2 DEF CleanIsWritten
  <2>2. Publishes(b, i, c) /\ i \in Ids
    BY <1>1, <2>1 DEF Publishes, InMemory
  <2>3. Known(b, i)
    BY <1>1, <2>2 DEF InMemory, RowsAreKnown, ChangesAreMarked, Publishes
  <2> QED
    BY <1>1, <1>2, <2>2, <2>3
<1> QED
  BY <1>1, <1>3, <1>4, <1>5, <1>6, <1>7, <1>8, <1>9 DEF InMemory, OnDisk, Good

------------------------------------------------------------------------------
(* What is known of rows                                                     *)

LEMMA StubsHaveFiles ==
  ASSUME NEW b \in Books, NEW R, NEW d \in Datas, NEW q, InMemory(b, R, d, q), NEW u \in R \intersect Uuids
  PROVE  /\ u \in Ids /\ d[u] = Stub /\ b.uuidOf[u] = u
         /\ b.files[u] \in Contents /\ b.files[u].id \in Sessions /\ b.files[u].id \in Ids
         /\ b.files[u].id # u
<1>1. u \in Ids /\ u \notin Sessions
  BY LogbookAssumption DEF Ids
<1>2. d[u] = Stub
  BY <1>1 DEF InMemory, RowsAreKnown
<1>3. b.uuidOf[u] # NoUuid
  BY <1>1, <1>2 DEF InMemory, RowsAreKnown, Known
<1>4. b.uuidOf[u] = u
  BY <1>3 DEF InMemory, FilesAreNamed, NamesFiles
<1>5. b.files[u] # NoFile
  BY <1>1, <1>3, <1>4 DEF InMemory, FilesAreNamed, NamesFiles
<1>6. b.files[u] \in Contents
  BY <1>5, BookFields
<1>7. b.files[u].id \in Sessions
  BY <1>6 DEF Contents
<1> QED
  BY <1>1, <1>2, <1>4, <1>6, <1>7 DEF Ids

LEMMA KnownHaveFiles ==
  ASSUME NEW b \in Books, NEW R, NEW d, NEW q, InMemory(b, R, d, q), NEW i \in Ids, Known(b, i)
  PROVE  /\ b.uuidOf[i] \in Uuids /\ FileOf(b, i) # NoFile /\ FileOf(b, i) \in Contents
         /\ FileOf(b, i).id \in Sessions /\ i \in R
<1>1. b.uuidOf[i] \in Uuids
  BY BookFields DEF Known, UuidMaps
<1>2. FileOf(b, i) # NoFile /\ i \in R
  BY DEF InMemory, FilesAreNamed, NamesFiles, RowsAreKnown, Known, FileOf
<1>3. FileOf(b, i) \in Contents
  BY <1>1, <1>2, BookFields DEF FileOf
<1> QED
  BY <1>1, <1>2, <1>3 DEF Contents

LEMMA ContentIsTyped ==
  ASSUME NEW b \in Books, NEW R, NEW d \in Datas, NEW q, InMemory(b, R, d, q), NEW i \in R
  PROVE  ContentOf(b, d, i) \in Contents
<1>1. i \in Ids
  BY DEF InMemory
<1>2. CASE d[i] = Stub
  BY <1>1, <1>2, KnownHaveFiles DEF InMemory, RowsAreKnown, ContentOf
<1>3. CASE d[i] # Stub
  BY <1>1, <1>3 DEF Datas, ContentOf
<1> QED
  BY <1>2, <1>3

\* The index is about the files and the enabled columns.
LEMMA IndexStaysTrue ==
  ASSUME NEW b, NEW x, IndexIsTrue(b), x.index = b.index, x.files = b.files, x.enabled = b.enabled
  PROVE  IndexIsTrue(x)
<1>1. SUFFICES ASSUME x.index # NoIndex
               PROVE  /\ NamesFiles(x, x.index.uuidOf)
                      /\ \A i \in Ids, c \in Columns :
                           x.index.values[i][c] # NoValue =>
                             /\ x.index.uuidOf[i] # NoUuid
                             /\ c \in x.enabled
                             /\ x.index.values[i][c] = [bit |-> x.files[x.index.uuidOf[i]].val[c], env |-> x.index.env]
  BY DEF IndexIsTrue
<1>2. NamesFiles(b, b.index.uuidOf)
  BY <1>1 DEF IndexIsTrue
<1>3. NamesFiles(x, x.index.uuidOf)
  BY <1>2 DEF NamesFiles
<1>4. \A i \in Ids, c \in Columns :
        b.index.values[i][c] # NoValue =>
          /\ b.index.uuidOf[i] # NoUuid
          /\ c \in b.enabled
          /\ b.index.values[i][c] = [bit |-> b.files[b.index.uuidOf[i]].val[c], env |-> b.index.env]
  BY <1>1 DEF IndexIsTrue
<1> QED
  BY <1>3, <1>4

------------------------------------------------------------------------------
(* Filling in values                                                         *)

LEMMA FillMissingFields ==
  ASSUME NEW b \in Books, NEW i \in Ids, NEW content \in Contents, NEW x, x = FillMissing(b, i, content)
  PROVE  /\ x \in Books /\ x.files = b.files /\ x.index = b.index /\ x.enabled = b.enabled
         /\ x.env = b.env /\ x.uuidOf = b.uuidOf /\ x.unsaved = b.unsaved
         /\ x.unsavedAll = b.unsavedAll /\ x.needsFlush = b.needsFlush
         /\ \A j \in Ids : j # i => x.cached[j] = b.cached[j]
         /\ \A c \in Columns : x.cached[i][c] \in {b.cached[i][c], ValueOf(b, content, c)}
         /\ x.indexDirty \/ x = b
<1>1. CASE Missing(b, i) = {}
  <2>1. x = b
    BY <1>1 DEF FillMissing
  <2> QED
    BY <2>1
<1>2. CASE Missing(b, i) # {}
  <2>. DEFINE row == [c \in Columns |-> IF c \in Missing(b, i) THEN ValueOf(b, content, c) ELSE b.cached[i][c]]
              new == [b.cached EXCEPT ![i] = row]
  <2>1. x = [b EXCEPT !.cached = new, !.indexDirty = TRUE]
    BY <1>2 DEF FillMissing
  <2>2. b.cached \in ValueMaps
    BY BookFields
  <2>3. row \in [Columns -> Cached]
    BY <2>2, ValueIsTyped DEF ValueMaps, Cached
  <2>4. \A c \in Columns : row[c] \in {b.cached[i][c], ValueOf(b, content, c)}
    OBVIOUS
  <2>. HIDE DEF row
  <2>5. new \in ValueMaps /\ new[i] = row /\ \A j \in Ids : j # i => new[j] = b.cached[j]
    BY <2>2, <2>3 DEF ValueMaps
  <2>. HIDE DEF new
  <2>6. x \in Books /\ x.cached = new
    BY <2>1, <2>5 DEF Books
  <2>7. x.indexDirty
    BY <2>1 DEF Books
  <2> QED
    BY <2>1, <2>4, <2>5, <2>6, <2>7 DEF Books
<1> QED
  BY <1>1, <1>2

LEMMA FillMissingIsGood ==
  ASSUME NEW b \in Books, NEW R, NEW d \in Datas, NEW q, Good(b, R, d, q), NEW i \in R,
         NEW x, x = FillMissing(b, i, ContentOf(b, d, i))
  PROVE  x \in Books /\ Good(x, R, d, q) /\ x.files = b.files /\ x.uuidOf = b.uuidOf
<1>. DEFINE content == ContentOf(b, d, i)
<1>1. InMemory(b, R, d, q) /\ OnDisk(b, R, d) /\ i \in Ids /\ content \in Contents
  BY ContentIsTyped DEF Good, InMemory
<1>. HIDE DEF content
<1>2. /\ x \in Books /\ x.files = b.files /\ x.index = b.index /\ x.enabled = b.enabled
      /\ x.env = b.env /\ x.uuidOf = b.uuidOf /\ x.unsaved = b.unsaved
      /\ x.unsavedAll = b.unsavedAll /\ x.needsFlush = b.needsFlush
      /\ \A j \in Ids : j # i => x.cached[j] = b.cached[j]
      /\ \A c \in Columns : x.cached[i][c] \in {b.cached[i][c], ValueOf(b, content, c)}
      /\ x.indexDirty \/ x = b
  BY <1>1, FillMissingFields DEF content
<1>3. FilesAreNamed(x) /\ RowsAreKnown(x, R, d, q) /\ ChangesAreMarked(x, d, q)
  <2>1. FilesAreNamed(x)
    BY <1>1, <1>2 DEF InMemory, FilesAreNamed, NamesFiles
  <2>2. RowsAreKnown(x, R, d, q) /\ ChangesAreMarked(x, d, q)
    BY <1>1, <1>2 DEF InMemory, RowsAreKnown, ChangesAreMarked, Known, FileOf, IsMarked
  <2> QED
    BY <2>1, <2>2
<1>4. StubsAreNew(x, R)
  <2>1. ASSUME NEW u \in R \intersect Uuids
        PROVE  x.cached[x.files[u].id] = b.cached[b.files[u].id]
    <3>1. b.files[u].id \in Ids /\ b.files[u].id \notin R
      BY <1>1, StubsHaveFiles DEF InMemory, StubsAreNew
    <3> QED
      BY <1>2, <3>1
  <2> QED
    BY <1>1, <1>2, <2>1 DEF InMemory, StubsAreNew
<1>5. CacheIsTrue(x, R, d)
  <2>1. \A j \in Ids, c \in Columns : ValueOf(x, ContentOf(x, d, j), c) = ValueOf(b, ContentOf(b, d, j), c)
    BY <1>2 DEF ValueOf, ContentOf, FileOf
  <2>2. ASSUME NEW j \in R, NEW c \in Columns, x.cached[j][c] # NoValue
        PROVE  x.cached[j][c] = ValueOf(b, ContentOf(b, d, j), c)
    <3>1. j \in Ids
      BY <1>1 DEF InMemory
    <3>2. x.cached[j][c] = b.cached[j][c] \/ (j = i /\ x.cached[j][c] = ValueOf(b, content, c))
      BY <1>2, <3>1
    <3> QED
      BY <1>1, <2>2, <3>2 DEF InMemory, CacheIsTrue, content
  <2> QED
    BY <1>1, <2>1, <2>2 DEF CacheIsTrue, InMemory
<1>6. OnDisk(x, R, d)
  <2>1. IndexIsTrue(x)
    BY <1>1, <1>2, IndexStaysTrue DEF OnDisk
  <2>2. FlushIsAsked(x, d)
    BY <1>1, <1>2 DEF OnDisk, FlushIsAsked, Known, FileOf
  <2>3. CleanIsWritten(x, R)
    BY <1>1, <1>2 DEF OnDisk, CleanIsWritten
  <2> QED
    BY <2>1, <2>2, <2>3 DEF OnDisk
<1> QED
  BY <1>1, <1>2, <1>3, <1>4, <1>5, <1>6 DEF Good, InMemory

------------------------------------------------------------------------------
(* Edits                                                                     *)

\* Values of row i were dropped, and columns of it marked.
RowIsMarked(x, b, i) ==
  /\ x.files = b.files /\ x.index = b.index /\ x.enabled = b.enabled
  /\ x.env = b.env /\ x.uuidOf = b.uuidOf /\ x.unsavedAll = b.unsavedAll
  /\ \A j \in Ids : j # i => x.cached[j] = b.cached[j] /\ x.unsaved[j] = b.unsaved[j]
  /\ \A c \in Columns : x.cached[i][c] \in {NoValue, b.cached[i][c]}
  /\ b.unsaved[i] \subseteq x.unsaved[i]
  /\ b.needsFlush \subseteq x.needsFlush /\ x.needsFlush \subseteq b.needsFlush \union {i}
  /\ b.indexDirty => x.indexDirty

LEMMA DropDisabledFields ==
  ASSUME NEW b \in Books, NEW i \in Ids, NEW x, x = DropDisabled(b, i)
  PROVE  /\ x \in Books /\ RowIsMarked(x, b, i)
         /\ x.unsaved = b.unsaved /\ x.needsFlush = b.needsFlush
         /\ \A c \in Columns : c \notin b.enabled => x.cached[i][c] = NoValue
<1>. DEFINE row == [c \in Columns |-> IF c \in b.enabled THEN b.cached[i][c] ELSE NoValue]
            new == [b.cached EXCEPT ![i] = row]
<1>1. x = [b EXCEPT !.cached = new]
  BY DEF DropDisabled
<1>2. b.cached \in ValueMaps
  BY BookFields
<1>3. row \in [Columns -> Cached] /\ \A c \in Columns : /\ row[c] \in {NoValue, b.cached[i][c]}
                                                        /\ c \notin b.enabled => row[c] = NoValue
  BY <1>2 DEF ValueMaps, Cached
<1>. HIDE DEF row
<1>4. new \in ValueMaps /\ new[i] = row /\ \A j \in Ids : j # i => new[j] = b.cached[j]
  BY <1>2, <1>3 DEF ValueMaps
<1>. HIDE DEF new
<1>5. x \in Books /\ x.cached = new
  BY <1>1, <1>4 DEF Books
<1>6. x.indexDirty = b.indexDirty
  BY <1>1 DEF Books
<1>7. /\ x.files = b.files /\ x.index = b.index /\ x.enabled = b.enabled
      /\ x.env = b.env /\ x.uuidOf = b.uuidOf /\ x.unsavedAll = b.unsavedAll
      /\ x.unsaved = b.unsaved /\ x.needsFlush = b.needsFlush
  BY <1>1 DEF Books
<1> QED
  BY <1>3, <1>4, <1>5, <1>6, <1>7 DEF RowIsMarked

LEMMA MarkColumnsFields ==
  ASSUME NEW b \in Books, NEW i \in Ids, NEW A \in SUBSET Columns, NEW x, x = MarkColumnsUnsaved(b, i, A)
  PROVE  /\ x \in Books /\ RowIsMarked(x, b, i)
         /\ \A c \in A : /\ x.cached[i][c] = NoValue /\ c \in x.unsaved[i]
                         /\ Known(b, i) => i \in x.needsFlush
<1>1. CASE A = {}
  <2>1. x = b
    BY <1>1 DEF MarkColumnsUnsaved
  <2> QED
    BY <1>1, <2>1 DEF RowIsMarked
<1>2. CASE A # {}
  <2>. DEFINE row == [c \in Columns |-> IF c \in A THEN NoValue ELSE b.cached[i][c]]
              new == [b.cached EXCEPT ![i] = row]
              marks == [b.unsaved EXCEPT ![i] = b.unsaved[i] \union A]
              flush == IF Known(b, i) THEN b.needsFlush \union {i} ELSE b.needsFlush
  <2>1. x = [b EXCEPT !.cached = new, !.unsaved = marks, !.needsFlush = flush, !.indexDirty = TRUE]
    BY <1>2 DEF MarkColumnsUnsaved
  <2>2. b.cached \in ValueMaps /\ b.unsaved \in [Ids -> SUBSET Columns] /\ b.needsFlush \subseteq Ids
    BY BookFields
  <2>3. row \in [Columns -> Cached] /\ \A c \in Columns : /\ row[c] \in {NoValue, b.cached[i][c]}
                                                          /\ c \in A => row[c] = NoValue
    BY <2>2 DEF ValueMaps, Cached
  <2>. HIDE DEF row
  <2>4. new \in ValueMaps /\ new[i] = row /\ \A j \in Ids : j # i => new[j] = b.cached[j]
    BY <2>2, <2>3 DEF ValueMaps
  <2>. HIDE DEF new
  <2>5. /\ marks \in [Ids -> SUBSET Columns] /\ marks[i] = b.unsaved[i] \union A
        /\ \A j \in Ids : j # i => marks[j] = b.unsaved[j]
    BY <2>2
  <2>. HIDE DEF marks
  <2>6. flush \in SUBSET Ids /\ b.needsFlush \subseteq flush /\ flush \subseteq b.needsFlush \union {i}
        /\ (Known(b, i) => i \in flush)
    BY <2>2
  <2>. HIDE DEF flush
  <2>7. x \in Books /\ x.cached = new /\ x.unsaved = marks /\ x.needsFlush = flush
    BY <2>1, <2>4, <2>5, <2>6 DEF Books
  <2>8. x.indexDirty
    BY <2>1 DEF Books
  <2>9. /\ x.files = b.files /\ x.index = b.index /\ x.enabled = b.enabled
        /\ x.env = b.env /\ x.uuidOf = b.uuidOf /\ x.unsavedAll = b.unsavedAll
    BY <2>1 DEF Books
  <2>10. RowIsMarked(x, b, i)
    BY <2>3, <2>4, <2>5, <2>6, <2>7, <2>8, <2>9 DEF RowIsMarked
  <2>11. \A c \in A : x.cached[i][c] = NoValue /\ c \in x.unsaved[i] /\ (Known(b, i) => i \in x.needsFlush)
    BY <2>3, <2>4, <2>5, <2>6, <2>7
  <2> QED
    BY <2>7, <2>10, <2>11
<1> QED
  BY <1>1, <1>2

\* What invalidateColumns() does to a row.
LEMMA InvalidateDoes ==
  ASSUME NEW b \in Books, NEW i \in Ids, NEW a \in Attributes, NEW x, x = Invalidate(b, i, a)
  PROVE  /\ x \in Books /\ RowIsMarked(x, b, i)
         /\ \A c \in Affects[a] : /\ x.cached[i][c] = NoValue
                                  /\ c \in x.enabled => /\ IsMarked(x, i, c)
                                                        /\ Known(x, i) => i \in x.needsFlush
<1>. DEFINE y == DropDisabled(b, i)
            A == Affects[a] \intersect b.enabled
<1>1. /\ y \in Books /\ RowIsMarked(y, b, i)
      /\ y.unsaved = b.unsaved /\ y.needsFlush = b.needsFlush
      /\ \A c \in Columns : c \notin b.enabled => y.cached[i][c] = NoValue
  BY DropDisabledFields
<1>2. x = MarkColumnsUnsaved(y, i, A)
  BY DEF Invalidate
<1>3. A \in SUBSET Columns /\ Affects[a] \subseteq Columns
  BY LogbookAssumption
<1>. HIDE DEF y
<1>4. /\ x \in Books /\ RowIsMarked(x, y, i)
      /\ \A c \in A : /\ x.cached[i][c] = NoValue /\ c \in x.unsaved[i]
                      /\ Known(y, i) => i \in x.needsFlush
  BY <1>1, <1>2, <1>3, MarkColumnsFields
<1>. HIDE DEF A
<1>5. RowIsMarked(x, b, i)
  <2>1. /\ x.files = b.files /\ x.index = b.index /\ x.enabled = b.enabled
        /\ x.env = b.env /\ x.uuidOf = b.uuidOf /\ x.unsavedAll = b.unsavedAll
        /\ b.indexDirty => x.indexDirty
    BY <1>1, <1>4 DEF RowIsMarked
  <2>2. \A j \in Ids : j # i => x.cached[j] = b.cached[j] /\ x.unsaved[j] = b.unsaved[j]
    BY <1>1, <1>4 DEF RowIsMarked
  <2>3. \A c \in Columns : x.cached[i][c] \in {NoValue, b.cached[i][c]}
    BY <1>1, <1>4 DEF RowIsMarked
  <2>4. /\ b.unsaved[i] \subseteq x.unsaved[i]
        /\ b.needsFlush \subseteq x.needsFlush /\ x.needsFlush \subseteq b.needsFlush \union {i}
    BY <1>1, <1>4 DEF RowIsMarked
  <2> QED
    BY <2>1, <2>2, <2>3, <2>4 DEF RowIsMarked
<1>6. ASSUME NEW c \in Affects[a]
      PROVE  /\ x.cached[i][c] = NoValue
             /\ c \in x.enabled => IsMarked(x, i, c) /\ (Known(x, i) => i \in x.needsFlush)
  <2>1. CASE c \in b.enabled
    <3>1. c \in A
      BY <2>1 DEF A
    <3>2. Known(x, i) = Known(y, i)
      BY <1>4 DEF RowIsMarked, Known
    <3> QED
      BY <1>4, <3>1, <3>2 DEF IsMarked
  <2>2. CASE c \notin b.enabled
    <3>1. y.cached[i][c] = NoValue /\ c \in Columns
      BY <1>1, <1>3, <2>2
    <3>2. x.cached[i][c] = NoValue
      BY <1>4, <3>1 DEF RowIsMarked
    <3> QED
      BY <1>5, <2>2, <3>2 DEF RowIsMarked
  <2> QED
    BY <2>1, <2>2
<1> QED
  BY <1>4, <1>5, <1>6

LEMMA MarkedIsGood ==
  ASSUME NEW b \in Books, NEW R, NEW d \in Datas, NEW q, Good(b, R, d, q), NEW i \in R,
         NEW x \in Books, RowIsMarked(x, b, i)
  PROVE  Good(x, R, d, q)
<1>1. InMemory(b, R, d, q) /\ OnDisk(b, R, d) /\ i \in Ids
  BY DEF Good, InMemory
<1>2. /\ x.files = b.files /\ x.index = b.index /\ x.enabled = b.enabled
      /\ x.env = b.env /\ x.uuidOf = b.uuidOf /\ x.unsavedAll = b.unsavedAll
      /\ \A j \in Ids : j # i => x.cached[j] = b.cached[j] /\ x.unsaved[j] = b.unsaved[j]
      /\ \A c \in Columns : x.cached[i][c] \in {NoValue, b.cached[i][c]}
      /\ b.unsaved[i] \subseteq x.unsaved[i]
      /\ b.needsFlush \subseteq x.needsFlush /\ x.needsFlush \subseteq b.needsFlush \union {i}
      /\ b.indexDirty => x.indexDirty
  BY DEF RowIsMarked
<1>3. \A j \in Ids, c \in Columns : /\ x.cached[j][c] # NoValue => x.cached[j][c] = b.cached[j][c]
                                    /\ IsMarked(b, j, c) => IsMarked(x, j, c)
  BY <1>2 DEF IsMarked
<1>4. FilesAreNamed(x)
  BY <1>1, <1>2 DEF InMemory, FilesAreNamed, NamesFiles
<1>5. RowsAreKnown(x, R, d, q)
  BY <1>1, <1>2 DEF InMemory, RowsAreKnown, Known
<1>6. StubsAreNew(x, R)
  <2>1. ASSUME NEW u \in R \intersect Uuids, NEW s, s = b.files[u].id
        PROVE  /\ x.cached[s] = b.cached[s] /\ x.unsaved[s] = b.unsaved[s]
               /\ s \in x.needsFlush => s \in b.needsFlush
    <3>1. s \in Ids /\ s \notin R
      BY <1>1, <2>1, StubsHaveFiles DEF InMemory, StubsAreNew
    <3> QED
      BY <1>2, <3>1
  <2> QED
    BY <1>1, <1>2, <2>1 DEF InMemory, StubsAreNew
<1>7. CacheIsTrue(x, R, d)
  <2>1. \A j \in Ids, c \in Columns : ValueOf(x, ContentOf(x, d, j), c) = ValueOf(b, ContentOf(b, d, j), c)
    BY <1>2 DEF ValueOf, ContentOf, FileOf
  <2> QED
    BY <1>1, <1>3, <2>1 DEF CacheIsTrue, InMemory
<1>8. ChangesAreMarked(x, d, q)
  <2>1. \A j \in Ids : Known(x, j) = Known(b, j) /\ FileOf(x, j) = FileOf(b, j)
    BY <1>2 DEF Known, FileOf
  <2> QED
    BY <1>1, <1>2, <1>3, <2>1, BookFields DEF ChangesAreMarked, InMemory
<1>9. OnDisk(x, R, d)
  <2>1. IndexIsTrue(x)
    BY <1>1, <1>2, IndexStaysTrue DEF OnDisk
  <2>2. FlushIsAsked(x, d)
    BY <1>1, <1>2 DEF OnDisk, FlushIsAsked, Known, FileOf
  <2>3. CleanIsWritten(x, R)
    <3>1. SUFFICES ASSUME x.index # NoIndex, ~x.indexDirty, NEW j \in R, NEW c \in Columns, Publishes(x, j, c)
                   PROVE  x.cached[j][c] \in {NoValue, x.index.values[j][c]}
      BY <1>1, <1>2 DEF OnDisk, CleanIsWritten
    <3>2. j \in Ids /\ Publishes(b, j, c)
      BY <1>1, <1>2, <1>3, <3>1 DEF Publishes, InMemory, IsMarked
    <3>3. b.cached[j][c] \in {NoValue, b.index.values[j][c]}
      BY <1>1, <1>2, <3>1, <3>2 DEF OnDisk, CleanIsWritten
    <3> QED
      BY <1>2, <1>3, <3>2, <3>3
  <2> QED
    BY <2>1, <2>2, <2>3 DEF OnDisk
<1> QED
  BY <1>1, <1>4, <1>5, <1>6, <1>7, <1>8, <1>9 DEF Good, InMemory

\* A loaded session changes in columns that are marked and have no value.
LEMMA ChangeIsGood ==
  ASSUME NEW b \in Books, NEW R, NEW d \in Datas, NEW q, Good(b, R, d, q), NEW i \in Ids, d[i] # Stub,
         NEW content \in Contents, content.id = i,
         \A c \in Columns : content.val[c] # d[i].val[c] =>
           /\ b.cached[i][c] = NoValue
           /\ c \in b.enabled => IsMarked(b, i, c) /\ (Known(b, i) => i \in b.needsFlush),
         NEW e, e = [d EXCEPT ![i] = content]
  PROVE  e \in Datas /\ Good(b, R, e, q \union {i})
<1>1. InMemory(b, R, d, q) /\ OnDisk(b, R, d) /\ i \in R /\ i \in Sessions
  BY DEF Good, InMemory, RowsAreKnown
<1>2. e \in Datas /\ e[i] = content /\ \A j \in Ids : j # i => e[j] = d[j]
  BY DEF Datas
<1>3. e[i] # Stub
  BY <1>2, NothingIsSomething
<1>4. RowsAreKnown(b, R, e, q \union {i})
  BY <1>1, <1>2, <1>3 DEF InMemory, RowsAreKnown
<1>5. CacheIsTrue(b, R, e)
  <2>1. ASSUME NEW j \in R, NEW c \in Columns, b.cached[j][c] # NoValue
        PROVE  b.cached[j][c] = ValueOf(b, ContentOf(b, e, j), c)
    <3>1. b.cached[j][c] = ValueOf(b, ContentOf(b, d, j), c) /\ j \in Ids
      BY <1>1, <2>1 DEF InMemory, CacheIsTrue
    <3>2. CASE j = i
      BY <1>2, <1>3, <2>1, <3>1, <3>2 DEF ContentOf, ValueOf
    <3>3. CASE j # i
      BY <1>2, <3>1, <3>3 DEF ContentOf
    <3> QED
      BY <3>2, <3>3
  <2> QED
    BY <2>1 DEF CacheIsTrue
<1>6. ChangesAreMarked(b, e, q \union {i})
  <2>1. ASSUME NEW j \in Ids, e[j] # Stub, j # i
        PROVE  \/ Known(b, j) /\ FileOf(b, j) = e[j]
               \/ /\ j \in q
                  /\ Known(b, j) => \A c \in b.enabled : FileOf(b, j).val[c] # e[j].val[c] => IsMarked(b, j, c)
                  /\ ~Known(b, j) => j \in b.unsavedAll
    BY <1>1, <1>2, <2>1 DEF InMemory, ChangesAreMarked
  <2>2. ASSUME Known(b, i), NEW c \in b.enabled, FileOf(b, i).val[c] # content.val[c]
        PROVE  IsMarked(b, i, c)
    <3>1. c \in Columns
      BY BookFields
    <3>2. CASE content.val[c] # d[i].val[c]
      BY <3>1, <3>2
    <3>3. CASE content.val[c] = d[i].val[c]
      BY <1>1, <2>2, <3>3 DEF InMemory, ChangesAreMarked
    <3> QED
      BY <3>2, <3>3
  <2>3. ~Known(b, i) => i \in b.unsavedAll
    BY <1>1 DEF InMemory, ChangesAreMarked
  <2> QED
    BY <1>2, <2>1, <2>2, <2>3 DEF ChangesAreMarked
<1>7. FlushIsAsked(b, e)
  <2>1. SUFFICES ASSUME b.index # NoIndex, NEW k \in Ids, e[k] # Stub, Known(b, k), k \notin b.needsFlush,
                        NEW j \in Ids, NEW c \in Columns,
                        b.index.uuidOf[j] = b.uuidOf[k], b.index.values[j][c] # NoValue
                 PROVE  e[k].val[c] = FileOf(b, k).val[c]
    BY DEF FlushIsAsked
  <2>2. CASE k # i
    BY <1>1, <1>2, <2>1, <2>2 DEF OnDisk, FlushIsAsked
  <2>3. CASE k = i
    <3>1. d[i].val[c] = FileOf(b, i).val[c]
      BY <1>1, <2>1, <2>3 DEF OnDisk, FlushIsAsked
    <3>2. c \in b.enabled
      BY <1>1, <2>1 DEF OnDisk, IndexIsTrue
    <3> QED
      BY <1>2, <2>1, <2>3, <3>1, <3>2
  <2> QED
    BY <2>2, <2>3
<1> QED
  BY <1>1, <1>2, <1>4, <1>5, <1>6, <1>7 DEF Good, InMemory, OnDisk

------------------------------------------------------------------------------
(* Loading and unloading                                                     *)

\* The session of the stub u, known by its file's name, gets its own id s.
Renames(x, b, u, s) ==
  /\ x.files = b.files /\ x.index = b.index /\ x.enabled = b.enabled /\ x.env = b.env
  /\ x.uuidOf[s] = u /\ x.uuidOf[u] = NoUuid
  /\ x.cached[s] = b.cached[u]
  /\ \A j \in Ids \ {u, s} : x.uuidOf[j] = b.uuidOf[j] /\ x.cached[j] = b.cached[j] /\ x.unsaved[j] = b.unsaved[j]
  /\ \A j \in Ids \ {u, s} : /\ j \in x.unsavedAll <=> j \in b.unsavedAll
                             /\ j \in x.needsFlush <=> j \in b.needsFlush
  /\ x.indexDirty

LEMMA RemapDoes ==
  ASSUME NEW b \in Books, NEW u \in Ids, NEW s \in Ids, u # s, b.uuidOf[u] = u,
         b.cached[s] = NoValues, b.unsaved[s] = {}, NEW x, x = Remap(b, u, s)
  PROVE  x \in Books /\ Renames(x, b, u, s)
<1>. DEFINE names == [[b.uuidOf EXCEPT ![s] = b.uuidOf[u]] EXCEPT ![u] = NoUuid]
            new == [[b.cached EXCEPT ![s] = IF b.cached[u] # NoValues THEN b.cached[u] ELSE b.cached[s]]
                      EXCEPT ![u] = NoValues]
            marks == [[b.unsaved EXCEPT ![s] = IF b.unsaved[u] # {} THEN b.unsaved[u] ELSE b.unsaved[s]]
                      EXCEPT ![u] = {}]
            all == IF u \in b.unsavedAll THEN (b.unsavedAll \ {u}) \union {s} ELSE b.unsavedAll
            flush == IF u \in b.needsFlush THEN (b.needsFlush \ {u}) \union {s} ELSE b.needsFlush
<1>1. /\ x.uuidOf = names /\ x.cached = new /\ x.unsaved = marks /\ x.unsavedAll = all /\ x.needsFlush = flush
      /\ x.files = b.files /\ x.index = b.index /\ x.enabled = b.enabled /\ x.env = b.env
      /\ x = [files |-> x.files, index |-> x.index, enabled |-> x.enabled, env |-> x.env, uuidOf |-> x.uuidOf,
              cached |-> x.cached, unsaved |-> x.unsaved, unsavedAll |-> x.unsavedAll,
              needsFlush |-> x.needsFlush, indexDirty |-> TRUE]
  <2>1. x.uuidOf = names
    BY DEF Remap, Books
  <2>2. x.cached = new
    BY DEF Remap, Books
  <2>3. x.unsaved = marks
    BY DEF Remap, Books
  <2>4. x.unsavedAll = all /\ x.needsFlush = flush
    BY DEF Remap, Books
  <2>5. x.files = b.files /\ x.index = b.index /\ x.enabled = b.enabled /\ x.env = b.env
    BY DEF Remap, Books
  <2>6. x = [files |-> x.files, index |-> x.index, enabled |-> x.enabled, env |-> x.env, uuidOf |-> x.uuidOf,
             cached |-> x.cached, unsaved |-> x.unsaved, unsavedAll |-> x.unsavedAll,
             needsFlush |-> x.needsFlush, indexDirty |-> TRUE]
    BY DEF Remap, Books
  <2> QED
    BY <2>1, <2>2, <2>3, <2>4, <2>5, <2>6
<1>2. /\ b.cached \in ValueMaps /\ b.unsaved \in [Ids -> SUBSET Columns] /\ b.uuidOf \in UuidMaps
      /\ b.unsavedAll \subseteq Ids /\ b.needsFlush \subseteq Ids
  BY BookFields
<1>3. /\ names \in UuidMaps /\ names[s] = u /\ names[u] = NoUuid
      /\ \A j \in Ids \ {u, s} : names[j] = b.uuidOf[j]
  BY <1>2 DEF UuidMaps
<1>. HIDE DEF names
<1>4. new \in ValueMaps /\ new[s] = b.cached[u] /\ \A j \in Ids \ {u, s} : new[j] = b.cached[j]
  BY <1>2, NoValuesIsTyped DEF ValueMaps
<1>. HIDE DEF new
<1>5. marks \in [Ids -> SUBSET Columns] /\ \A j \in Ids \ {u, s} : marks[j] = b.unsaved[j]
  BY <1>2
<1>. HIDE DEF marks
<1>6. /\ all \in SUBSET Ids /\ flush \in SUBSET Ids
      /\ \A j \in Ids \ {u, s} : (j \in all <=> j \in b.unsavedAll) /\ (j \in flush <=> j \in b.needsFlush)
  BY <1>2
<1>. HIDE DEF all, flush
<1>7. x \in Books
  <2>1. /\ x.files \in [Uuids -> Contents \union {NoFile}] /\ x.index \in Indexes \union {NoIndex}
        /\ x.enabled \in SUBSET Columns /\ x.env \in Environments
    BY <1>1, BookFields
  <2>2. /\ x.uuidOf \in UuidMaps /\ x.cached \in ValueMaps /\ x.unsaved \in [Ids -> SUBSET Columns]
        /\ x.unsavedAll \in SUBSET Ids /\ x.needsFlush \in SUBSET Ids
    BY <1>1, <1>3, <1>4, <1>5, <1>6
  <2>3. x = [files |-> x.files, index |-> x.index, enabled |-> x.enabled, env |-> x.env, uuidOf |-> x.uuidOf,
             cached |-> x.cached, unsaved |-> x.unsaved, unsavedAll |-> x.unsavedAll,
             needsFlush |-> x.needsFlush, indexDirty |-> TRUE]
    BY <1>1
  <2> QED
    <3>1. [files |-> x.files, index |-> x.index, enabled |-> x.enabled, env |-> x.env, uuidOf |-> x.uuidOf,
           cached |-> x.cached, unsaved |-> x.unsaved, unsavedAll |-> x.unsavedAll,
           needsFlush |-> x.needsFlush, indexDirty |-> TRUE] \in Books
      BY <2>1, <2>2, SMTT(30) DEF Books
    <3> QED
      BY <2>3, <3>1, Zenon
<1>8. x.indexDirty
  BY <1>1
<1> QED
  BY <1>1, <1>3, <1>4, <1>5, <1>6, <1>7, <1>8 DEF Renames

LEMMA RenamedIsGood ==
  ASSUME NEW b \in Books, NEW R, NEW d \in Datas, NEW q, Good(b, R, d, q), NEW u \in R \intersect Uuids,
         NEW s, s = b.files[u].id, NEW x \in Books, Renames(x, b, u, s), NEW S, S = (R \ {u}) \union {s}
  PROVE  Good(x, S, d, q)
<1>1. InMemory(b, R, d, q) /\ OnDisk(b, R, d)
  BY DEF Good
<1>2. /\ u \in Ids /\ d[u] = Stub /\ b.uuidOf[u] = u /\ b.files[u] \in Contents /\ s \in Sessions /\ s \in Ids
      /\ s # u /\ s \notin R
  BY <1>1, StubsHaveFiles DEF InMemory, StubsAreNew
<1>3. d[s] = Stub /\ ~Known(b, s)
  BY <1>1, <1>2 DEF InMemory, RowsAreKnown
<1>4. /\ x.files = b.files /\ x.index = b.index /\ x.enabled = b.enabled /\ x.env = b.env
      /\ x.uuidOf[s] = u /\ x.uuidOf[u] = NoUuid
      /\ x.cached[s] = b.cached[u]
      /\ \A j \in Ids \ {u, s} : x.uuidOf[j] = b.uuidOf[j] /\ x.cached[j] = b.cached[j] /\ x.unsaved[j] = b.unsaved[j]
      /\ \A j \in Ids \ {u, s} : /\ j \in x.unsavedAll <=> j \in b.unsavedAll
                                 /\ j \in x.needsFlush <=> j \in b.needsFlush
      /\ x.indexDirty
  BY DEF Renames
<1>5. b.files[u] # NoFile /\ u # NoUuid
  BY <1>2, NothingIsSomething, LogbookAssumption
<1>6. FilesAreNamed(x)
  <2>1. NamesFiles(b, b.uuidOf)
    BY <1>1 DEF InMemory, FilesAreNamed
  <2>2. \A i \in Ids : x.uuidOf[i] # NoUuid => x.files[x.uuidOf[i]] # NoFile
    BY <1>4, <1>5, <2>1 DEF NamesFiles
  <2>3. \A i, j \in Ids : x.uuidOf[i] = x.uuidOf[j] /\ x.uuidOf[i] # NoUuid => i = j
    BY <1>2, <1>4, <1>5, <2>1 DEF NamesFiles
  <2>4. \A t \in Sessions : x.uuidOf[t] # NoUuid => x.files[x.uuidOf[t]].id = t
    BY <1>2, <1>4, <2>1, LogbookAssumption DEF NamesFiles, Ids
  <2>5. \A w \in Uuids : x.uuidOf[w] \in {w, NoUuid}
    BY <1>2, <1>4, <2>1, LogbookAssumption DEF NamesFiles, Ids
  <2>6. NamesFiles(x, x.uuidOf)
    BY <2>2, <2>3, <2>4, <2>5 DEF NamesFiles
  <2>7. \A w \in Uuids : x.files[w] # NoFile => \E i \in Ids : x.uuidOf[i] = w
    <3>1. SUFFICES ASSUME NEW w \in Uuids, b.files[w] # NoFile
                   PROVE  \E i \in Ids : x.uuidOf[i] = w
      BY <1>4
    <3>2. CASE w = u
      BY <1>2, <1>4, <3>2
    <3>3. CASE w # u
      <4>1. PICK i \in Ids : b.uuidOf[i] = w
        BY <1>1, <3>1 DEF InMemory, FilesAreNamed
      <4>2. i # u /\ i # s
        BY <1>2, <1>3, <3>3, <4>1, LogbookAssumption DEF Known
      <4> QED
        BY <1>4, <4>1, <4>2
    <3> QED
      BY <3>2, <3>3
  <2> QED
    BY <1>1, <1>4, <2>6, <2>7 DEF InMemory, FilesAreNamed
<1>7. S \subseteq Ids /\ q \subseteq S
  BY <1>1, <1>2 DEF InMemory, RowsAreKnown
<1>8. RowsAreKnown(x, S, d, q)
  <2>1. \A i \in Ids : d[i] # Stub => i \in S /\ i \in Sessions /\ d[i].id = i
    BY <1>1, <1>2 DEF InMemory, RowsAreKnown
  <2>2. \A i \in S : d[i] = Stub => Known(x, i)
    BY <1>1, <1>2, <1>4, <1>5, <1>7 DEF InMemory, RowsAreKnown, Known
  <2>3. \A i \in Ids : Known(x, i) => i \in S
    BY <1>1, <1>2, <1>4 DEF InMemory, RowsAreKnown, Known
  <2> QED
    BY <1>1, <2>1, <2>2, <2>3 DEF InMemory, RowsAreKnown
<1>9. StubsAreNew(x, S)
  <2>1. SUFFICES ASSUME NEW w \in S \intersect Uuids, NEW t, t = b.files[w].id
                 PROVE  /\ t \notin S /\ x.cached[t] = NoValues /\ x.unsaved[t] = {}
                        /\ t \notin x.unsavedAll /\ t \notin x.needsFlush
    BY <1>4 DEF StubsAreNew
  <2>2. w \in R \intersect Uuids /\ w # u
    BY <1>2, <2>1, LogbookAssumption
  <2>3. /\ t \in Ids /\ t \in Sessions /\ t \notin R /\ b.files[w] # NoFile
        /\ b.cached[t] = NoValues /\ b.unsaved[t] = {} /\ t \notin b.unsavedAll /\ t \notin b.needsFlush
    <3>1. b.files[w] \in Contents /\ t \in Ids /\ t \in Sessions
      BY <1>1, <2>1, <2>2, StubsHaveFiles
    <3> QED
      BY <1>1, <2>1, <2>2, <3>1, NothingIsSomething DEF InMemory, StubsAreNew
  <2>4. t # s
    BY <1>1, <1>5, <2>1, <2>2, <2>3 DEF InMemory, FilesAreNamed
  <2>5. t # u
    BY <2>3, LogbookAssumption
  <2> QED
    BY <1>4, <2>3, <2>4, <2>5
<1>10. CacheIsTrue(x, S, d)
  <2>1. SUFFICES ASSUME NEW i \in S, NEW c \in Columns, x.cached[i][c] # NoValue
                 PROVE  x.cached[i][c] = ValueOf(x, ContentOf(x, d, i), c)
    BY DEF CacheIsTrue
  <2>2. CASE i = s
    <3>1. b.cached[u][c] = ValueOf(b, ContentOf(b, d, u), c)
      BY <1>1, <1>4, <2>1, <2>2 DEF InMemory, CacheIsTrue
    <3> QED
      <4>1. ContentOf(b, d, u) = b.files[u] /\ ContentOf(x, d, s) = b.files[u]
        BY <1>2, <1>3, <1>4 DEF ContentOf, FileOf
      <4> QED
        BY <1>4, <2>2, <3>1, <4>1 DEF ValueOf
  <2>3. CASE i # s
    <3>1. i \in R /\ i \in Ids /\ i # u
      BY <1>7, <2>1, <2>3
    <3>2. b.cached[i][c] = ValueOf(b, ContentOf(b, d, i), c)
      BY <1>1, <1>4, <2>1, <2>3, <3>1 DEF InMemory, CacheIsTrue
    <3> QED
      BY <1>4, <2>3, <3>1, <3>2 DEF ContentOf, FileOf, ValueOf
  <2> QED
    BY <2>2, <2>3
<1>11. \A i \in Ids : d[i] # Stub => i \in Ids \ {u, s}
  BY <1>2, <1>3
<1>12. ChangesAreMarked(x, d, q)
  <2>1. \A i \in Ids \ {u, s} : Known(x, i) = Known(b, i) /\ FileOf(x, i) = FileOf(b, i)
    BY <1>4 DEF Known, FileOf
  <2>2. \A i \in Ids \ {u, s}, c \in Columns : IsMarked(x, i, c) = IsMarked(b, i, c)
    BY <1>4 DEF IsMarked
  <2> QED
    BY <1>1, <1>4, <1>11, <2>1, <2>2, BookFields DEF InMemory, ChangesAreMarked
<1>13. OnDisk(x, S, d)
  <2>1. IndexIsTrue(x)
    BY <1>1, <1>4, IndexStaysTrue DEF OnDisk
  <2>2. FlushIsAsked(x, d)
    <3>1. \A i \in Ids \ {u, s} : x.uuidOf[i] = b.uuidOf[i] /\ Known(x, i) = Known(b, i) /\ FileOf(x, i) = FileOf(b, i)
      BY <1>4 DEF Known, FileOf
    <3> QED
      BY <1>1, <1>4, <1>11, <3>1 DEF OnDisk, FlushIsAsked
  <2>3. CleanIsWritten(x, S)
    BY <1>4 DEF CleanIsWritten
  <2> QED
    BY <2>1, <2>2, <2>3 DEF OnDisk
<1> QED
  BY <1>6, <1>7, <1>8, <1>9, <1>10, <1>12, <1>13 DEF Good, InMemory

\* The content of a stub is its file's.
LEMMA LoadedIsGood ==
  ASSUME NEW b \in Books, NEW R, NEW d \in Datas, NEW q, Good(b, R, d, q),
         NEW i \in R, i \in Sessions, d[i] = Stub, NEW y, y = FileOf(b, i),
         NEW e, e = [d EXCEPT ![i] = y]
  PROVE  e \in Datas /\ Good(b, R, e, q)
<1>1. InMemory(b, R, d, q) /\ OnDisk(b, R, d) /\ i \in Ids
  BY DEF Good, InMemory
<1>2. Known(b, i)
  BY <1>1 DEF InMemory, RowsAreKnown
<1>3. FileOf(b, i) \in Contents
  BY <1>1, <1>2, KnownHaveFiles
<1>4. FileOf(b, i).id = i
  BY <1>1, <1>2 DEF InMemory, FilesAreNamed, NamesFiles, Known, FileOf
<1>5. e \in Datas /\ e[i] = FileOf(b, i) /\ \A j \in Ids : j # i => e[j] = d[j]
  BY <1>1, <1>3 DEF Datas
<1>6. e[i] # Stub
  BY <1>3, <1>5, NothingIsSomething
<1>7. RowsAreKnown(b, R, e, q)
  BY <1>1, <1>4, <1>5 DEF InMemory, RowsAreKnown
<1>8. CacheIsTrue(b, R, e)
  <2>1. \A j \in R : ContentOf(b, e, j) = ContentOf(b, d, j)
    BY <1>1, <1>5, <1>6 DEF ContentOf, InMemory
  <2> QED
    BY <1>1, <2>1 DEF InMemory, CacheIsTrue
<1>9. ChangesAreMarked(b, e, q)
  BY <1>1, <1>2, <1>5 DEF InMemory, ChangesAreMarked
<1>10. FlushIsAsked(b, e)
  BY <1>1, <1>5 DEF OnDisk, FlushIsAsked
<1> QED
  BY <1>1, <1>3, <1>4, <1>5, <1>7, <1>8, <1>9, <1>10 DEF Good, InMemory, OnDisk

\* A session that is not dirty goes back to its file.
LEMMA UnloadedIsGood ==
  ASSUME NEW b \in Books, NEW R, NEW d \in Datas, NEW q, Good(b, R, d, q),
         NEW i \in Ids, d[i] # Stub, i \notin q, NEW e, e = [d EXCEPT ![i] = Stub]
  PROVE  e \in Datas /\ Good(b, R, e, q) /\ InFile(b, i, d[i])
<1>1. InMemory(b, R, d, q) /\ OnDisk(b, R, d)
  BY DEF Good
<1>2. Known(b, i) /\ FileOf(b, i) = d[i]
  BY <1>1 DEF InMemory, ChangesAreMarked
<1>3. e \in Datas /\ e[i] = Stub /\ \A j \in Ids : j # i => e[j] = d[j]
  BY DEF Datas
<1>4. RowsAreKnown(b, R, e, q)
  BY <1>1, <1>2, <1>3 DEF InMemory, RowsAreKnown
<1>5. CacheIsTrue(b, R, e)
  <2>1. \A j \in R : ContentOf(b, e, j) = ContentOf(b, d, j)
    BY <1>1, <1>2, <1>3 DEF ContentOf, InMemory
  <2> QED
    BY <1>1, <2>1 DEF InMemory, CacheIsTrue
<1>6. ChangesAreMarked(b, e, q)
  BY <1>1, <1>3 DEF InMemory, ChangesAreMarked
<1>7. FlushIsAsked(b, e)
  BY <1>1, <1>3 DEF OnDisk, FlushIsAsked
<1> QED
  BY <1>1, <1>2, <1>3, <1>4, <1>5, <1>6, <1>7 DEF InFile, Good, InMemory, OnDisk

------------------------------------------------------------------------------
(* Saving                                                                    *)

\* The file u of row i was written.
IsWritten(x, b, i, u, content) ==
  /\ x.index = b.index /\ x.enabled = b.enabled /\ x.env = b.env
  /\ x.cached = b.cached /\ x.needsFlush = b.needsFlush
  /\ x.files[u] = content /\ \A w \in Uuids \ {u} : x.files[w] = b.files[w]
  /\ x.uuidOf[i] = u /\ \A j \in Ids \ {i} : x.uuidOf[j] = b.uuidOf[j] /\ x.unsaved[j] = b.unsaved[j]
  /\ \A j \in Ids \ {i} : j \in x.unsavedAll <=> j \in b.unsavedAll
  /\ x.unsavedAll \subseteq b.unsavedAll
  /\ x.indexDirty

LEMMA SavedDoes ==
  ASSUME NEW b \in Books, NEW content \in Contents, NEW u \in Uuids, NEW x, x = Saved(b, content, u)
  PROVE  x \in Books /\ IsWritten(x, b, content.id, u, content)
<1>. DEFINE i == content.id
            files == [b.files EXCEPT ![u] = content]
            names == [b.uuidOf EXCEPT ![i] = u]
            marks == [b.unsaved EXCEPT ![i] = {}]
            all == b.unsavedAll \ {i}
<1>1. i \in Ids
  BY DEF Contents, Ids
<1>. HIDE DEF i
<1>2. x = [b EXCEPT !.files = files, !.uuidOf = names, !.unsaved = marks, !.unsavedAll = all, !.indexDirty = TRUE]
  BY DEF Saved, i
<1>3. /\ b.unsaved \in [Ids -> SUBSET Columns] /\ b.uuidOf \in UuidMaps
      /\ b.files \in [Uuids -> Contents \union {NoFile}] /\ b.unsavedAll \subseteq Ids
  BY BookFields
<1>4. /\ files \in [Uuids -> Contents \union {NoFile}] /\ files[u] = content
      /\ \A w \in Uuids \ {u} : files[w] = b.files[w]
  BY <1>3
<1>. HIDE DEF files
<1>5. names \in UuidMaps /\ names[i] = u /\ \A j \in Ids \ {i} : names[j] = b.uuidOf[j]
  BY <1>1, <1>3 DEF UuidMaps
<1>. HIDE DEF names
<1>6. marks \in [Ids -> SUBSET Columns] /\ \A j \in Ids \ {i} : marks[j] = b.unsaved[j]
  BY <1>1, <1>3
<1>. HIDE DEF marks
<1>7. /\ all \in SUBSET Ids /\ all \subseteq b.unsavedAll
      /\ \A j \in Ids \ {i} : j \in all <=> j \in b.unsavedAll
  BY <1>3
<1>. HIDE DEF all
<1>8. x \in Books
  <2>. DEFINE y == [b EXCEPT !.files = files, !.uuidOf = names, !.unsaved = marks]
  <2>1. y \in Books
    BY <1>4, <1>5, <1>6 DEF Books
  <2>2. x = [y EXCEPT !.unsavedAll = all, !.indexDirty = TRUE]
    BY <1>2
  <2>. HIDE DEF y
  <2> QED
    BY <1>7, <2>1, <2>2 DEF Books
<1>9. /\ x.files = files /\ x.uuidOf = names /\ x.unsaved = marks /\ x.unsavedAll = all
      /\ x.index = b.index /\ x.enabled = b.enabled /\ x.env = b.env
      /\ x.cached = b.cached /\ x.needsFlush = b.needsFlush
  BY <1>2 DEF Books
<1>10. x.indexDirty
  BY <1>2 DEF Books
<1>11. IsWritten(x, b, i, u, content)
  BY <1>4, <1>5, <1>6, <1>7, <1>9, <1>10 DEF IsWritten
<1> QED
  BY <1>8, <1>11 DEF i

\* The file of a loaded row is written: its own, or a new one that neither the
\* memory nor the index names.  What the index holds of it does not change.
LEMMA WrittenIsGood ==
  ASSUME NEW b \in Books, NEW R, NEW d \in Datas, NEW q, Good(b, R, d, q),
         NEW i \in Ids, d[i] # Stub, NEW u \in Uuids,
         Known(b, i) => u = b.uuidOf[i],
         ~Known(b, i) => u \in FreshUuids(b),
         Known(b, i) /\ b.index # NoIndex =>
           \A j \in Ids, c \in Columns : b.index.uuidOf[j] = u /\ b.index.values[j][c] # NoValue
                                          => d[i].val[c] = FileOf(b, i).val[c],
         NEW x \in Books, IsWritten(x, b, i, u, d[i])
  PROVE  Good(x, R, d, q \ {i}) /\ Known(x, i) /\ FileOf(x, i) = d[i]
<1>1. InMemory(b, R, d, q) /\ OnDisk(b, R, d)
  BY DEF Good
<1>2. d[i] \in Contents /\ d[i].id = i /\ i \in R /\ i \in Sessions /\ d[i] # NoFile /\ u # NoUuid
  BY <1>1, NothingIsSomething, LogbookAssumption DEF Datas, InMemory, RowsAreKnown
<1>3. /\ x.index = b.index /\ x.enabled = b.enabled /\ x.env = b.env
      /\ x.cached = b.cached /\ x.needsFlush = b.needsFlush
      /\ x.files[u] = d[i] /\ \A w \in Uuids \ {u} : x.files[w] = b.files[w]
      /\ x.uuidOf[i] = u /\ \A j \in Ids \ {i} : x.uuidOf[j] = b.uuidOf[j] /\ x.unsaved[j] = b.unsaved[j]
      /\ \A j \in Ids \ {i} : j \in x.unsavedAll <=> j \in b.unsavedAll
      /\ x.unsavedAll \subseteq b.unsavedAll
      /\ x.indexDirty
  BY DEF IsWritten
<1>4. NamesFiles(b, b.uuidOf)
  BY <1>1 DEF InMemory, FilesAreNamed
<1>5. \A j \in Ids : b.uuidOf[j] = u => j = i
  BY <1>2, <1>4 DEF NamesFiles, Known, FreshUuids
<1>6. \A j \in Ids : Known(b, j) => b.uuidOf[j] \in Uuids
  BY <1>1, KnownHaveFiles
<1>7. b.files[u] # NoFile => Known(b, i) /\ b.files[u].id = i
  BY <1>2, <1>4 DEF NamesFiles, Known, FreshUuids
<1>8. \A j \in Ids \ {i} : Known(x, j) = Known(b, j) /\ (Known(b, j) => FileOf(x, j) = FileOf(b, j))
  BY <1>3, <1>5, <1>6 DEF Known, FileOf
<1>9. FilesAreNamed(x)
  <2>1. \A j \in Ids : x.uuidOf[j] # NoUuid => x.files[x.uuidOf[j]] # NoFile
    BY <1>2, <1>3, <1>4, <1>5, <1>6 DEF NamesFiles, Known
  <2>2. \A j, k \in Ids : x.uuidOf[j] = x.uuidOf[k] /\ x.uuidOf[j] # NoUuid => j = k
    BY <1>3, <1>4, <1>5 DEF NamesFiles
  <2>3. \A s \in Sessions : x.uuidOf[s] # NoUuid => x.files[x.uuidOf[s]].id = s
    <3>1. SUFFICES ASSUME NEW s \in Sessions, x.uuidOf[s] # NoUuid, s # i
                   PROVE  x.files[x.uuidOf[s]].id = s
      BY <1>2, <1>3
    <3>2. s \in Ids /\ Known(b, s) /\ x.uuidOf[s] = b.uuidOf[s]
      BY <1>3, <3>1 DEF Known, Ids
    <3>3. b.uuidOf[s] \in Uuids \ {u}
      BY <1>5, <1>6, <3>1, <3>2
    <3> QED
      BY <1>3, <1>4, <3>2, <3>3 DEF NamesFiles, Known
  <2>4. \A w \in Uuids : x.uuidOf[w] \in {w, NoUuid}
    BY <1>2, <1>3, <1>4, LogbookAssumption DEF NamesFiles, Ids
  <2>5. ASSUME NEW w \in Uuids, b.files[w] # NoFile, b.files[w].id = i
        PROVE  w = u
    <3>1. PICK j \in Ids : b.uuidOf[j] = w
      BY <1>1, <2>5 DEF InMemory, FilesAreNamed
    <3>2. w # NoUuid
      BY <2>5, LogbookAssumption
    <3>3. CASE j \in Sessions
      BY <1>4, <2>5, <3>1, <3>2, <3>3 DEF NamesFiles, Known
    <3>4. CASE j \in Uuids
      <4>1. j = w /\ j \in R
        BY <1>1, <1>4, <3>1, <3>2, <3>4 DEF NamesFiles, InMemory, RowsAreKnown, Known
      <4> QED
        BY <1>1, <1>2, <2>5, <3>4, <4>1 DEF InMemory, StubsAreNew
    <3> QED
      BY <3>3, <3>4 DEF Ids
  <2>6. \A w, t \in Uuids : x.files[w] # NoFile /\ x.files[t] # NoFile /\ x.files[w].id = x.files[t].id => w = t
    BY <1>1, <1>2, <1>3, <2>5 DEF InMemory, FilesAreNamed
  <2>7. ASSUME NEW w \in Uuids, x.files[w] # NoFile
        PROVE  \E j \in Ids : x.uuidOf[j] = w
    <3>1. CASE w = u
      BY <1>3, <3>1
    <3>2. CASE w # u
      <4>1. PICK j \in Ids : b.uuidOf[j] = w
        BY <1>1, <1>3, <2>7, <3>2 DEF InMemory, FilesAreNamed
      <4>2. w # NoUuid
        BY <2>7, LogbookAssumption
      <4>3. j # i
        BY <3>2, <4>1, <4>2 DEF Known
      <4> QED
        BY <1>3, <4>1, <4>3
    <3> QED
      BY <3>1, <3>2
  <2>8. NamesFiles(x, x.uuidOf)
    BY <2>1, <2>2, <2>3, <2>4 DEF NamesFiles
  <2> QED
    BY <2>6, <2>7, <2>8 DEF FilesAreNamed
<1>10. RowsAreKnown(x, R, d, q \ {i}) /\ Known(x, i) /\ FileOf(x, i) = d[i]
  <2>1. Known(x, i) /\ FileOf(x, i) = d[i]
    BY <1>2, <1>3 DEF Known, FileOf
  <2>2. \A j \in R : d[j] = Stub => Known(x, j)
    BY <1>1, <1>8, <2>1 DEF InMemory, RowsAreKnown
  <2>3. \A j \in Ids : Known(x, j) => j \in R
    BY <1>1, <1>2, <1>8 DEF InMemory, RowsAreKnown
  <2> QED
    BY <1>1, <2>1, <2>2, <2>3 DEF InMemory, RowsAreKnown
<1>11. StubsAreNew(x, R)
  <2>1. SUFFICES ASSUME NEW w \in R \intersect Uuids, NEW t, t = x.files[w].id
                 PROVE  /\ t \notin R /\ x.cached[t] = NoValues /\ x.unsaved[t] = {}
                        /\ t \notin x.unsavedAll /\ t \notin x.needsFlush
    BY DEF StubsAreNew
  <2>2. w # u
    <3>1. w \in Ids /\ b.uuidOf[w] = w
      BY <1>1, <2>1, StubsHaveFiles
    <3> QED
      BY <1>2, <1>5, <2>1, <3>1, LogbookAssumption
  <2>3. t = b.files[w].id
    BY <1>3, <2>1, <2>2
  <2>4. t \in Ids
    BY <1>1, <2>1, <2>3, StubsHaveFiles
  <2>5. /\ t \notin R /\ b.cached[t] = NoValues /\ b.unsaved[t] = {}
        /\ t \notin b.unsavedAll /\ t \notin b.needsFlush
    BY <1>1, <2>1, <2>3 DEF InMemory, StubsAreNew
  <2> QED
    BY <1>2, <1>3, <2>4, <2>5
<1>12. CacheIsTrue(x, R, d)
  <2>1. SUFFICES ASSUME NEW j \in R, NEW c \in Columns, x.cached[j][c] # NoValue
                 PROVE  x.cached[j][c] = ValueOf(x, ContentOf(x, d, j), c)
    BY DEF CacheIsTrue
  <2>2. j \in Ids /\ b.cached[j][c] = ValueOf(b, ContentOf(b, d, j), c)
    BY <1>1, <1>3, <2>1 DEF InMemory, CacheIsTrue
  <2>3. ContentOf(x, d, j) = ContentOf(b, d, j)
    BY <1>1, <1>8, <2>1, <2>2 DEF ContentOf, InMemory, RowsAreKnown
  <2> QED
    BY <1>3, <2>2, <2>3 DEF ValueOf
<1>13. ChangesAreMarked(x, d, q \ {i})
  <2>1. SUFFICES ASSUME NEW j \in Ids, d[j] # Stub, j # i, ~(Known(x, j) /\ FileOf(x, j) = d[j])
                 PROVE  /\ j \in q \ {i}
                        /\ Known(x, j) => \A c \in x.enabled : FileOf(x, j).val[c] # d[j].val[c] => IsMarked(x, j, c)
                        /\ ~Known(x, j) => j \in x.unsavedAll
    BY <1>10 DEF ChangesAreMarked
  <2>2. /\ j \in q
        /\ Known(b, j) => \A c \in b.enabled : FileOf(b, j).val[c] # d[j].val[c] => IsMarked(b, j, c)
        /\ ~Known(b, j) => j \in b.unsavedAll
    BY <1>1, <1>8, <2>1 DEF InMemory, ChangesAreMarked
  <2> QED
    BY <1>3, <1>8, <2>1, <2>2 DEF IsMarked
<1>14. IndexIsTrue(x)
  <2>1. SUFFICES ASSUME b.index # NoIndex
                 PROVE  IndexIsTrue(x)
    BY <1>3 DEF IndexIsTrue
  <2>. DEFINE f == b.index.uuidOf
  <2>2. NamesFiles(b, f) /\ f \in UuidMaps
    BY <1>1, <2>1, BookFields DEF OnDisk, IndexIsTrue, Indexes
  <2>. HIDE DEF f
  <2>3. \A j \in Ids : f[j] # NoUuid => f[j] \in Uuids
    BY <2>2 DEF UuidMaps
  <2>4. \A j \in Ids : f[j] = u => Known(b, i)
    BY <2>1 DEF FreshUuids, f
  <2>5. \A j \in Ids : f[j] # NoUuid => x.files[f[j]] # NoFile
    BY <1>2, <1>3, <2>2, <2>3 DEF NamesFiles
  <2>6. \A s \in Sessions : f[s] # NoUuid => x.files[f[s]].id = s
    <3>1. SUFFICES ASSUME NEW s \in Sessions, f[s] # NoUuid
                   PROVE  x.files[f[s]].id = s
      OBVIOUS
    <3>2. s \in Ids /\ f[s] \in Uuids /\ b.files[f[s]].id = s /\ b.files[f[s]] # NoFile
      BY <2>2, <2>3, <3>1 DEF NamesFiles, Ids
    <3> QED
      BY <1>2, <1>3, <1>7, <3>2
  <2>7. NamesFiles(x, f)
    BY <2>2, <2>5, <2>6 DEF NamesFiles
  <2>8. ASSUME NEW j \in Ids, NEW c \in Columns, b.index.values[j][c] # NoValue
        PROVE  /\ f[j] # NoUuid /\ c \in b.enabled
               /\ b.index.values[j][c] = [bit |-> x.files[f[j]].val[c], env |-> b.index.env]
    <3>1. /\ f[j] # NoUuid /\ c \in b.enabled
          /\ b.index.values[j][c] = [bit |-> b.files[f[j]].val[c], env |-> b.index.env]
      BY <1>1, <2>1, <2>8 DEF OnDisk, IndexIsTrue, f
    <3>2. x.files[f[j]].val[c] = b.files[f[j]].val[c]
      <4>1. CASE f[j] = u
        <5>1. Known(b, i) /\ b.index.uuidOf[j] = u
          BY <2>4, <4>1 DEF f
        <5>2. d[i].val[c] = FileOf(b, i).val[c]
          BY <2>1, <2>8, <5>1
        <5> QED
          BY <1>3, <4>1, <5>1, <5>2 DEF FileOf
      <4>2. CASE f[j] # u
        BY <1>3, <2>3, <3>1, <4>2
      <4> QED
        BY <4>1, <4>2
    <3> QED
      BY <3>1, <3>2
  <2> QED
    BY <1>3, <2>7, <2>8 DEF IndexIsTrue, f
<1>15. FlushIsAsked(x, d)
  <2>1. SUFFICES ASSUME x.index # NoIndex, NEW k \in Ids, d[k] # Stub, Known(x, k), k \notin x.needsFlush,
                        NEW j \in Ids, NEW c \in Columns,
                        x.index.uuidOf[j] = x.uuidOf[k], x.index.values[j][c] # NoValue
                 PROVE  d[k].val[c] = FileOf(x, k).val[c]
    BY DEF FlushIsAsked
  <2>2. CASE k = i
    BY <1>10, <2>2
  <2>3. CASE k # i
    <3>1. Known(b, k) /\ FileOf(x, k) = FileOf(b, k) /\ x.uuidOf[k] = b.uuidOf[k]
      BY <1>3, <1>8, <2>1, <2>3
    <3> QED
      BY <1>1, <1>3, <2>1, <3>1 DEF OnDisk, FlushIsAsked
  <2> QED
    BY <2>2, <2>3
<1>16. CleanIsWritten(x, R)
  BY <1>3 DEF CleanIsWritten
<1> QED
  BY <1>1, <1>9, <1>10, <1>11, <1>12, <1>13, <1>14, <1>15, <1>16 DEF Good, InMemory, OnDisk

\* saveSession() of a dirty row, whichever write fails.
LEMMA SaveIsGood ==
  ASSUME NEW b \in Books, NEW R, NEW d \in Datas, NEW q, Good(b, R, d, q), NEW i \in q,
         NEW o \in SaveOutcomes(b, d[i])
  PROVE  /\ o.book \in Books /\ o.ok \in BOOLEAN
         /\ ~o.ok => Good(o.book, R, d, q)
         /\ o.ok => Good(o.book, R, d, q \ {i}) /\ InFile(o.book, i, d[i])
<1>1. InMemory(b, R, d, q) /\ OnDisk(b, R, d) /\ i \in Ids /\ d[i] # Stub
  BY DEF Good, InMemory, RowsAreKnown
<1>2. d[i] \in Contents /\ d[i].id = i
  BY <1>1 DEF Datas, InMemory, RowsAreKnown
<1>. DEFINE before == IF i \in b.needsFlush THEN Flushed(b) ELSE b
            uuids == IF Known(b, i) THEN {b.uuidOf[i]} ELSE FreshUuids(b)
<1>3. \/ o = [book |-> b, ok |-> FALSE]
      \/ o = [book |-> before, ok |-> FALSE]
      \/ \E u \in uuids : o = [book |-> Saved(before, d[i], u), ok |-> TRUE]
  BY <1>2 DEF SaveOutcomes
<1>4. before \in Books /\ Good(before, R, d, q) /\ before.files = b.files /\ before.uuidOf = b.uuidOf
  BY <1>1, FlushedIsGood, FlushedFields
<1>5. Known(before, i) = Known(b, i) /\ FileOf(before, i) = FileOf(b, i)
  BY <1>4 DEF Known, FileOf
<1>6. ASSUME ~Known(b, i)
      PROVE  FreshUuids(b) \subseteq FreshUuids(before)
  <2>1. CASE i \in b.needsFlush
    <3>1. before.index.uuidOf = b.uuidOf /\ before.index # NoIndex
      BY <2>1, FlushedFields, IndexOfFields
    <3> QED
      BY <1>4, <3>1 DEF FreshUuids
  <2>2. CASE i \notin b.needsFlush
    BY <2>2
  <2> QED
    BY <2>1, <2>2
<1>7. ASSUME Known(b, i), before.index # NoIndex, NEW j \in Ids, NEW c \in Columns,
             before.index.uuidOf[j] = b.uuidOf[i], before.index.values[j][c] # NoValue
      PROVE  d[i].val[c] = FileOf(before, i).val[c]
  <2>1. i \notin before.needsFlush
    BY FlushedFields
  <2> QED
    <3>1. FlushIsAsked(before, d)
      BY <1>4 DEF Good, OnDisk
    <3>2. before.uuidOf[i] = b.uuidOf[i] /\ Known(before, i)
      BY <1>4, <1>5, <1>7
    <3>. HIDE DEF before
    <3> QED
      BY <1>1, <1>7, <2>1, <3>1, <3>2 DEF FlushIsAsked
<1>. HIDE DEF before
<1>8. CASE o = [book |-> b, ok |-> FALSE]
  BY <1>8
<1>9. CASE o = [book |-> before, ok |-> FALSE]
  BY <1>4, <1>9
<1>10. CASE \E u \in uuids : o = [book |-> Saved(before, d[i], u), ok |-> TRUE]
  <2>1. PICK u \in uuids : o = [book |-> Saved(before, d[i], u), ok |-> TRUE]
    BY <1>10
  <2>2. u \in Uuids
    BY <1>1, KnownHaveFiles DEF FreshUuids
  <2>. DEFINE x == Saved(before, d[i], u)
  <2>3. x \in Books /\ IsWritten(x, before, i, u, d[i])
    BY <1>2, <1>4, <2>2, SavedDoes
  <2>. HIDE DEF x
  <2>4. /\ Known(before, i) => u = before.uuidOf[i]
        /\ ~Known(before, i) => u \in FreshUuids(before)
    BY <1>4, <1>5, <1>6
  <2>5. Good(x, R, d, q \ {i}) /\ InFile(x, i, d[i])
    <3>1. Known(before, i) /\ before.index # NoIndex =>
            \A j \in Ids, c \in Columns : before.index.uuidOf[j] = u /\ before.index.values[j][c] # NoValue
                                           => d[i].val[c] = FileOf(before, i).val[c]
      BY <1>5, <1>7
    <3> QED
      BY <1>1, <1>4, <2>2, <2>3, <2>4, <3>1, WrittenIsGood DEF InFile
  <2>6. o.book = x /\ o.ok = TRUE
    BY <2>1 DEF x
  <2> QED
    BY <2>3, <2>5, <2>6
<1> QED
  BY <1>3, <1>8, <1>9, <1>10

------------------------------------------------------------------------------
(* New and removed rows                                                      *)

LEMMA MarkSessionFields ==
  ASSUME NEW b \in Books, NEW s \in Ids, ~Known(b, s), NEW x, x = MarkSessionUnsaved(b, s)
  PROVE  /\ x \in Books /\ x.files = b.files /\ x.index = b.index /\ x.enabled = b.enabled
         /\ x.env = b.env /\ x.uuidOf = b.uuidOf /\ x.unsaved = b.unsaved
         /\ x.unsavedAll = b.unsavedAll \union {s} /\ x.needsFlush = b.needsFlush
         /\ x.cached[s] = NoValues /\ \A j \in Ids \ {s} : x.cached[j] = b.cached[j]
         /\ x.indexDirty
<1>. DEFINE new == [b.cached EXCEPT ![s] = NoValues]
            all == b.unsavedAll \union {s}
<1>1. x = [b EXCEPT !.cached = new, !.unsavedAll = all, !.needsFlush = b.needsFlush, !.indexDirty = TRUE]
  BY DEF MarkSessionUnsaved
<1>2. b.cached \in ValueMaps /\ b.unsavedAll \subseteq Ids /\ b.needsFlush \subseteq Ids
  BY BookFields
<1>3. new \in ValueMaps /\ new[s] = NoValues /\ \A j \in Ids \ {s} : new[j] = b.cached[j]
  BY <1>2, NoValuesIsTyped DEF ValueMaps
<1>. HIDE DEF new
<1>4. all \in SUBSET Ids
  BY <1>2
<1>. HIDE DEF all
<1>5. x \in Books
  BY <1>1, <1>2, <1>3, <1>4 DEF Books
<1>6. /\ x.cached = new /\ x.unsavedAll = all /\ x.needsFlush = b.needsFlush
      /\ x.files = b.files /\ x.index = b.index /\ x.enabled = b.enabled
      /\ x.env = b.env /\ x.uuidOf = b.uuidOf /\ x.unsaved = b.unsaved
  BY <1>1 DEF Books
<1>7. x.indexDirty
  BY <1>1 DEF Books
<1> QED
  BY <1>3, <1>5, <1>6, <1>7 DEF all

\* A session nobody knows, imported while every row has its SESSION_ID.
LEMMA NewIsGood ==
  ASSUME NEW b \in Books, NEW R, NEW d \in Datas, NEW q, Good(b, R, d, q), R \intersect Uuids = {},
         NEW s \in Sessions, s \notin R, NEW content \in Contents, content.id = s,
         NEW x, x = MarkSessionUnsaved(b, s), NEW e, e = [d EXCEPT ![s] = content]
  PROVE  x \in Books /\ e \in Datas /\ Good(x, R \union {s}, e, q \union {s})
<1>1. InMemory(b, R, d, q) /\ OnDisk(b, R, d) /\ s \in Ids
  BY DEF Good, Ids
<1>2. ~Known(b, s) /\ d[s] = Stub
  BY <1>1 DEF InMemory, RowsAreKnown
<1>3. /\ x \in Books /\ x.files = b.files /\ x.index = b.index /\ x.enabled = b.enabled
      /\ x.env = b.env /\ x.uuidOf = b.uuidOf /\ x.unsaved = b.unsaved
      /\ x.unsavedAll = b.unsavedAll \union {s} /\ x.needsFlush = b.needsFlush
      /\ x.cached[s] = NoValues /\ \A j \in Ids \ {s} : x.cached[j] = b.cached[j]
      /\ x.indexDirty
  BY <1>1, <1>2, MarkSessionFields
<1>4. e \in Datas /\ e[s] = content /\ e[s] # Stub /\ \A j \in Ids \ {s} : e[j] = d[j]
  BY <1>1, NothingIsSomething DEF Datas
<1>5. \A j \in Ids : Known(x, j) = Known(b, j) /\ FileOf(x, j) = FileOf(b, j)
  BY <1>3 DEF Known, FileOf
<1>6. R \union {s} \subseteq Ids /\ q \union {s} \subseteq R \union {s}
  BY <1>1 DEF InMemory
<1>7. FilesAreNamed(x)
  BY <1>1, <1>3 DEF InMemory, FilesAreNamed, NamesFiles
<1>8. RowsAreKnown(x, R \union {s}, e, q \union {s})
  BY <1>1, <1>4, <1>5, <1>6 DEF InMemory, RowsAreKnown
<1>9. StubsAreNew(x, R \union {s})
  BY LogbookAssumption DEF StubsAreNew
<1>10. CacheIsTrue(x, R \union {s}, e)
  <2>1. SUFFICES ASSUME NEW j \in R \union {s}, NEW c \in Columns, x.cached[j][c] # NoValue
                 PROVE  x.cached[j][c] = ValueOf(x, ContentOf(x, e, j), c)
    BY DEF CacheIsTrue
  <2>2. j # s /\ j \in R /\ j \in Ids
    BY <1>3, <1>6, <2>1, NoValuesIsTyped
  <2>3. ContentOf(x, e, j) = ContentOf(b, d, j)
    BY <1>4, <1>5, <2>2 DEF ContentOf
  <2> QED
    BY <1>1, <1>3, <2>1, <2>2, <2>3 DEF InMemory, CacheIsTrue, ValueOf
<1>11. ChangesAreMarked(x, e, q \union {s})
  <2>1. s \in x.unsavedAll /\ ~Known(x, s)
    BY <1>1, <1>2, <1>3, <1>5
  <2>2. \A j \in Ids, c \in Columns : IsMarked(b, j, c) => IsMarked(x, j, c)
    BY <1>3 DEF IsMarked
  <2>3. SUFFICES ASSUME NEW j \in Ids \ {s}, e[j] # Stub, ~(Known(x, j) /\ FileOf(x, j) = e[j])
                 PROVE  /\ j \in q
                        /\ Known(x, j) => \A c \in x.enabled : FileOf(x, j).val[c] # e[j].val[c] => IsMarked(x, j, c)
                        /\ ~Known(x, j) => j \in x.unsavedAll
    BY <2>1 DEF ChangesAreMarked
  <2>4. /\ j \in q
        /\ Known(b, j) => \A c \in b.enabled : FileOf(b, j).val[c] # d[j].val[c] => IsMarked(b, j, c)
        /\ ~Known(b, j) => j \in b.unsavedAll
    BY <1>1, <1>4, <1>5, <2>3 DEF InMemory, ChangesAreMarked
  <2> QED
    BY <1>3, <1>4, <1>5, <2>2, <2>3, <2>4, BookFields
<1>12. OnDisk(x, R \union {s}, e)
  <2>1. IndexIsTrue(x)
    BY <1>1, <1>3, IndexStaysTrue DEF OnDisk
  <2>2. FlushIsAsked(x, e)
    BY <1>1, <1>2, <1>3, <1>4, <1>5 DEF OnDisk, FlushIsAsked
  <2>3. CleanIsWritten(x, R \union {s})
    BY <1>3 DEF CleanIsWritten
  <2> QED
    BY <2>1, <2>2, <2>3 DEF OnDisk
<1> QED
  BY <1>3, <1>4, <1>6, <1>7, <1>8, <1>9, <1>10, <1>11, <1>12 DEF Good, InMemory

LEMMA ForgottenFields ==
  ASSUME NEW b \in Books, NEW i \in Ids, b.uuidOf[i] \in Uuids, NEW x, x = Forgotten(b, i)
  PROVE  /\ x \in Books /\ x.enabled = b.enabled /\ x.env = b.env
         /\ x.files[b.uuidOf[i]] = NoFile /\ \A w \in Uuids \ {b.uuidOf[i]} : x.files[w] = b.files[w]
         /\ x.uuidOf[i] = NoUuid
         /\ \A j \in Ids \ {i} : x.uuidOf[j] = b.uuidOf[j] /\ x.cached[j] = b.cached[j] /\ x.unsaved[j] = b.unsaved[j]
         /\ x.unsavedAll = b.unsavedAll \ {i} /\ x.needsFlush = b.needsFlush \ {i}
<1>. DEFINE files == [b.files EXCEPT ![b.uuidOf[i]] = NoFile]
            names == [b.uuidOf EXCEPT ![i] = NoUuid]
            new == [b.cached EXCEPT ![i] = NoValues]
            marks == [b.unsaved EXCEPT ![i] = {}]
            all == b.unsavedAll \ {i}
            flush == b.needsFlush \ {i}
            y == [b EXCEPT !.files = files, !.uuidOf = names, !.cached = new]
<1>1. x = [y EXCEPT !.unsaved = marks, !.unsavedAll = all, !.needsFlush = flush, !.indexDirty = TRUE]
  BY DEF Forgotten
<1>2. /\ b.cached \in ValueMaps /\ b.unsaved \in [Ids -> SUBSET Columns] /\ b.uuidOf \in UuidMaps
      /\ b.files \in [Uuids -> Contents \union {NoFile}]
      /\ b.unsavedAll \subseteq Ids /\ b.needsFlush \subseteq Ids
  BY BookFields
<1>3. /\ files \in [Uuids -> Contents \union {NoFile}] /\ files[b.uuidOf[i]] = NoFile
      /\ \A w \in Uuids \ {b.uuidOf[i]} : files[w] = b.files[w]
  BY <1>2
<1>. HIDE DEF files
<1>4. names \in UuidMaps /\ names[i] = NoUuid /\ \A j \in Ids \ {i} : names[j] = b.uuidOf[j]
  BY <1>2 DEF UuidMaps
<1>. HIDE DEF names
<1>5. new \in ValueMaps /\ \A j \in Ids \ {i} : new[j] = b.cached[j]
  BY <1>2, NoValuesIsTyped DEF ValueMaps
<1>. HIDE DEF new
<1>6. marks \in [Ids -> SUBSET Columns] /\ \A j \in Ids \ {i} : marks[j] = b.unsaved[j]
  BY <1>2
<1>. HIDE DEF marks
<1>7. all \in SUBSET Ids /\ flush \in SUBSET Ids
  BY <1>2
<1>. HIDE DEF all, flush
<1>8. y \in Books
  BY <1>3, <1>4, <1>5 DEF Books
<1>9. y.files = files /\ y.uuidOf = names /\ y.cached = new /\ y.enabled = b.enabled /\ y.env = b.env
  BY DEF Books
<1>. HIDE DEF y
<1>10. x \in Books
  BY <1>1, <1>6, <1>7, <1>8 DEF Books
<1>11. /\ x.files = y.files /\ x.uuidOf = y.uuidOf /\ x.cached = y.cached /\ x.unsaved = marks
       /\ x.unsavedAll = all /\ x.needsFlush = flush /\ x.enabled = y.enabled /\ x.env = y.env
  BY <1>1, <1>8 DEF Books
<1> QED
  BY <1>3, <1>4, <1>5, <1>6, <1>9, <1>10, <1>11 DEF all, flush

\* A row goes, with its file if it has one.
LEMMA RemovedIsGood ==
  ASSUME NEW b \in Books, NEW R, NEW d \in Datas, NEW q, InMemory(b, R, d, q), NEW i \in R,
         NEW x, x = IF Known(b, i) THEN Forgotten(b, i) ELSE b, NEW e, e = [d EXCEPT ![i] = Stub]
  PROVE  x \in Books /\ e \in Datas /\ InMemory(x, R \ {i}, e, q \ {i})
<1>1. i \in Ids
  BY DEF InMemory
<1>2. e \in Datas /\ e[i] = Stub /\ \A j \in Ids \ {i} : e[j] = d[j]
  BY <1>1 DEF Datas
<1>3. NamesFiles(b, b.uuidOf)
  BY DEF InMemory, FilesAreNamed
<1>4. \A j \in Ids : Known(b, j) => b.uuidOf[j] \in Uuids
  BY KnownHaveFiles
<1>5. R \ {i} \subseteq Ids /\ q \ {i} \subseteq R \ {i}
  BY DEF InMemory
<1>6. CASE ~Known(b, i)
  <2>1. x = b
    BY <1>6
  <2>2. FilesAreNamed(b)
    BY DEF InMemory
  <2>3. RowsAreKnown(b, R \ {i}, e, q \ {i})
    BY <1>1, <1>2, <1>6 DEF InMemory, RowsAreKnown
  <2>4. StubsAreNew(b, R \ {i})
    BY DEF InMemory, StubsAreNew
  <2>5. CacheIsTrue(b, R \ {i}, e)
    BY <1>2, <1>5 DEF InMemory, CacheIsTrue, ContentOf
  <2>6. ChangesAreMarked(b, e, q \ {i})
    BY <1>1, <1>2 DEF InMemory, ChangesAreMarked
  <2> QED
    BY <1>2, <1>5, <2>1, <2>2, <2>3, <2>4, <2>5, <2>6 DEF InMemory
<1>7. CASE Known(b, i)
  <2>. DEFINE u == b.uuidOf[i]
  <2>1. u \in Uuids /\ u # NoUuid
    BY <1>1, <1>4, <1>7 DEF Known
  <2>2. /\ x \in Books /\ x.enabled = b.enabled /\ x.env = b.env
        /\ x.files[u] = NoFile /\ \A w \in Uuids \ {u} : x.files[w] = b.files[w]
        /\ x.uuidOf[i] = NoUuid
        /\ \A j \in Ids \ {i} : x.uuidOf[j] = b.uuidOf[j] /\ x.cached[j] = b.cached[j] /\ x.unsaved[j] = b.unsaved[j]
        /\ x.unsavedAll = b.unsavedAll \ {i} /\ x.needsFlush = b.needsFlush \ {i}
    BY <1>1, <1>7, <2>1, ForgottenFields
  <2>3. \A j \in Ids : b.uuidOf[j] = u => j = i
    BY <1>1, <1>3, <2>1 DEF NamesFiles
  <2>. HIDE DEF u
  <2>4. \A j \in Ids \ {i} : Known(x, j) = Known(b, j) /\ (Known(b, j) => FileOf(x, j) = FileOf(b, j))
    BY <1>4, <2>2, <2>3 DEF Known, FileOf
  <2>5. NamesFiles(x, x.uuidOf)
    <3>1. \A j \in Ids : x.uuidOf[j] # NoUuid => j # i /\ x.uuidOf[j] = b.uuidOf[j] /\ b.uuidOf[j] \in Uuids \ {u}
      BY <1>4, <2>2, <2>3 DEF Known
    <3>2. \A j \in Ids : x.uuidOf[j] # NoUuid => x.files[x.uuidOf[j]] # NoFile
      BY <1>3, <2>2, <3>1 DEF NamesFiles
    <3>3. \A j, k \in Ids : x.uuidOf[j] = x.uuidOf[k] /\ x.uuidOf[j] # NoUuid => j = k
      BY <1>3, <3>1 DEF NamesFiles
    <3>4. \A s \in Sessions : x.uuidOf[s] # NoUuid => x.files[x.uuidOf[s]].id = s
      BY <1>3, <2>2, <3>1 DEF NamesFiles, Ids
    <3>5. \A w \in Uuids : x.uuidOf[w] \in {w, NoUuid}
      BY <1>3, <3>1 DEF NamesFiles, Ids
    <3> QED
      BY <3>2, <3>3, <3>4, <3>5 DEF NamesFiles
  <2>6. FilesAreNamed(x)
    <3>1. \A w, t \in Uuids : x.files[w] # NoFile /\ x.files[t] # NoFile /\ x.files[w].id = x.files[t].id => w = t
      BY <2>2 DEF InMemory, FilesAreNamed
    <3>2. ASSUME NEW w \in Uuids, x.files[w] # NoFile
          PROVE  \E j \in Ids : x.uuidOf[j] = w
      <4>1. w # u /\ b.files[w] # NoFile
        BY <2>2, <3>2
      <4>2. PICK j \in Ids : b.uuidOf[j] = w
        BY <4>1 DEF InMemory, FilesAreNamed
      <4>3. j # i
        BY <4>1, <4>2 DEF u
      <4> QED
        BY <2>2, <4>2, <4>3
    <3> QED
      BY <2>5, <3>1, <3>2 DEF FilesAreNamed
  <2>7. RowsAreKnown(x, R \ {i}, e, q \ {i})
    <3>1. ~Known(x, i)
      BY <2>2 DEF Known
    <3> QED
      BY <1>2, <1>5, <2>4, <3>1 DEF InMemory, RowsAreKnown
  <2>8. StubsAreNew(x, R \ {i})
    <3>1. SUFFICES ASSUME NEW w \in (R \ {i}) \intersect Uuids, NEW t, t = x.files[w].id
                   PROVE  /\ t \notin R /\ x.cached[t] = NoValues /\ x.unsaved[t] = {}
                          /\ t \notin x.unsavedAll /\ t \notin x.needsFlush
      BY DEF StubsAreNew
    <3>2. b.uuidOf[w] = w /\ w \in Ids /\ b.files[w].id \in Ids
      BY <3>1, StubsHaveFiles
    <3>3. t = b.files[w].id /\ t \in Ids
      BY <2>2, <2>3, <3>1, <3>2
    <3>4. /\ t \notin R /\ b.cached[t] = NoValues /\ b.unsaved[t] = {}
          /\ t \notin b.unsavedAll /\ t \notin b.needsFlush
      BY <3>1, <3>3 DEF InMemory, StubsAreNew
    <3> QED
      BY <2>2, <3>3, <3>4
  <2>9. CacheIsTrue(x, R \ {i}, e)
    <3>1. SUFFICES ASSUME NEW j \in R \ {i}, NEW c \in Columns, x.cached[j][c] # NoValue
                   PROVE  x.cached[j][c] = ValueOf(x, ContentOf(x, e, j), c)
      BY DEF CacheIsTrue
    <3>2. j \in Ids \ {i} /\ b.cached[j][c] = ValueOf(b, ContentOf(b, d, j), c) /\ x.cached[j] = b.cached[j]
      BY <1>5, <2>2, <3>1 DEF InMemory, CacheIsTrue
    <3>3. ContentOf(x, e, j) = ContentOf(b, d, j)
      BY <1>2, <2>4, <3>2 DEF ContentOf, InMemory, RowsAreKnown
    <3> QED
      BY <2>2, <3>2, <3>3 DEF ValueOf
  <2>10. ChangesAreMarked(x, e, q \ {i})
    <3>1. SUFFICES ASSUME NEW j \in Ids \ {i}, d[j] # Stub, ~(Known(x, j) /\ FileOf(x, j) = d[j])
                   PROVE  /\ j \in q
                          /\ Known(x, j) => \A c \in x.enabled : FileOf(x, j).val[c] # d[j].val[c] => IsMarked(x, j, c)
                          /\ ~Known(x, j) => j \in x.unsavedAll
      BY <1>2 DEF ChangesAreMarked
    <3>2. /\ j \in q
          /\ Known(b, j) => \A c \in b.enabled : FileOf(b, j).val[c] # d[j].val[c] => IsMarked(b, j, c)
          /\ ~Known(b, j) => j \in b.unsavedAll
      BY <2>4, <3>1 DEF InMemory, ChangesAreMarked
    <3> QED
      BY <2>2, <2>4, <3>1, <3>2 DEF IsMarked
  <2> QED
    BY <1>2, <1>5, <2>2, <2>6, <2>7, <2>8, <2>9, <2>10 DEF InMemory
<1> QED
  BY <1>6, <1>7


------------------------------------------------------------------------------
(* Other columns                                                             *)

LEMMA RecomputedFields ==
  ASSUME lb \in Books, data \in Datas, rows \subseteq Ids, NEW E \in SUBSET Columns, NEW x, x = Recomputed(E)
  PROVE  /\ x \in Books /\ x.files = lb.files /\ x.index = lb.index /\ x.enabled = E
         /\ x.env = lb.env /\ x.uuidOf = lb.uuidOf /\ x.unsaved = lb.unsaved
         /\ lb.unsavedAll \subseteq x.unsavedAll /\ x.unsavedAll \subseteq lb.unsavedAll \union rows
         /\ \A i \in rows : data[i] # Stub /\ i \in dirty => i \in x.unsavedAll
         /\ \A i \in rows : data[i] = Stub /\ i \in x.unsavedAll => i \in lb.unsavedAll
         /\ x.needsFlush \subseteq lb.needsFlush \union rows
         /\ \A i \in Ids : i \notin rows \/ data[i] = Stub => x.cached[i] = lb.cached[i]
         /\ \A i \in rows, c \in Columns :
              data[i] # Stub => x.cached[i][c] \in {NoValue, ValueOf(lb, data[i], c)}
         /\ rows = {} => /\ x.unsavedAll = lb.unsavedAll /\ x.needsFlush = lb.needsFlush
                         /\ x.indexDirty = lb.indexDirty
<1>. DEFINE loaded == {i \in rows : Loaded(i)}
            changed == {i \in loaded : i \in dirty \/ HasUnsaved(lb, i)}
            b == [lb EXCEPT !.enabled = E]
            new == [i \in Ids |-> IF i \in loaded
                      THEN [c \in Columns |-> IF c \in E THEN ValueOf(b, data[i], c) ELSE NoValue]
                      ELSE lb.cached[i]]
            all == lb.unsavedAll \union changed
            flush == lb.needsFlush \union {i \in changed : Known(lb, i)}
            some == lb.indexDirty \/ loaded # {}
<1>1. b \in Books
  BY DEF Books
<1>2. b.files = lb.files /\ b.index = lb.index /\ b.enabled = E /\ b.env = lb.env /\ b.uuidOf = lb.uuidOf /\ b.unsaved = lb.unsaved
  BY DEF Books
<1>3. x = [b EXCEPT !.unsavedAll = all, !.needsFlush = flush, !.indexDirty = some, !.cached = new]
  <2>1. /\ b.unsavedAll = lb.unsavedAll /\ b.needsFlush = lb.needsFlush /\ b.cached = lb.cached
    BY DEF Books
  <2>2. b.indexDirty = lb.indexDirty
    BY DEF Books
  <2> QED
    BY <2>1, <2>2 DEF Recomputed
<1>. HIDE DEF b
<1>4. /\ lb.cached \in ValueMaps /\ lb.unsavedAll \subseteq Ids /\ lb.needsFlush \subseteq Ids
  BY BookFields
<1>5. \A i \in rows, c \in Columns : data[i] # Stub =>
        ValueOf(b, data[i], c) \in Cached /\ ValueOf(b, data[i], c) = ValueOf(lb, data[i], c)
  <2>1. \A i \in rows : data[i] # Stub => data[i] \in Contents
    BY DEF Datas
  <2> QED
    BY <1>1, <1>2, <2>1, ValueIsTyped DEF ValueOf, Cached
<1>6. /\ new \in ValueMaps
      /\ \A i \in Ids : i \notin rows \/ data[i] = Stub => new[i] = lb.cached[i]
      /\ \A i \in rows, c \in Columns : data[i] # Stub => new[i][c] \in {NoValue, ValueOf(lb, data[i], c)}
  <2>1. ASSUME NEW i \in rows, data[i] # Stub
        PROVE  /\ new[i] = [c \in Columns |-> IF c \in E THEN ValueOf(b, data[i], c) ELSE NoValue]
               /\ new[i] \in [Columns -> Cached]
               /\ \A c \in Columns : new[i][c] \in {NoValue, ValueOf(lb, data[i], c)}
    <3>1. new[i] = [c \in Columns |-> IF c \in E THEN ValueOf(b, data[i], c) ELSE NoValue]
      BY <2>1 DEF Loaded
    <3> QED
      BY <1>5, <2>1, <3>1 DEF Cached
  <2>2. ASSUME NEW i \in Ids, i \notin rows \/ data[i] = Stub
        PROVE  new[i] = lb.cached[i]
    BY <2>2 DEF Loaded
  <2>3. new \in ValueMaps
    <3>1. \A i \in Ids : lb.cached[i] \in [Columns -> Cached]
      BY <1>4 DEF ValueMaps
    <3>2. \A i \in Ids : new[i] \in [Columns -> Cached]
      BY <2>1, <2>2, <3>1
    <3> QED
      BY <3>2 DEF ValueMaps
  <2> QED
    BY <2>1, <2>2, <2>3
<1>. HIDE DEF new
<1>7. /\ all \in SUBSET Ids /\ flush \in SUBSET Ids
      /\ lb.unsavedAll \subseteq all /\ all \subseteq lb.unsavedAll \union rows
      /\ \A i \in rows : data[i] # Stub /\ i \in dirty => i \in all
      /\ \A i \in rows : data[i] = Stub /\ i \in all => i \in lb.unsavedAll
      /\ flush \subseteq lb.needsFlush \union rows
      /\ rows = {} => all = lb.unsavedAll /\ flush = lb.needsFlush
  BY <1>4 DEF Loaded
<1>8. some \in BOOLEAN /\ (rows = {} => (some <=> lb.indexDirty))
  OBVIOUS
<1>. HIDE DEF all, flush, some
<1>9. x \in Books
  BY <1>1, <1>3, <1>6, <1>7, <1>8 DEF Books
<1>10. /\ x.unsavedAll = all /\ x.needsFlush = flush /\ x.cached = new /\ x.enabled = b.enabled
       /\ x.files = b.files /\ x.index = b.index /\ x.env = b.env /\ x.uuidOf = b.uuidOf /\ x.unsaved = b.unsaved
  BY <1>1, <1>3 DEF Books
<1>11. x.indexDirty = some
  BY <1>1, <1>3 DEF Books
<1>12. rows = {} => x.indexDirty = lb.indexDirty
  BY <1>8, <1>11, BookFields
<1> QED
  BY <1>2, <1>6, <1>7, <1>9, <1>10, <1>12

\* Every changed row is marked again, so that its values stay out of the index.
LEMMA RecomputedIsGood ==
  ASSUME lb \in Books, data \in Datas, InMemory(lb, rows, data, dirty),
         NEW E \in SUBSET Columns, NEW x, x = Recomputed(E)
  PROVE  x \in Books /\ InMemory(x, rows, data, dirty)
<1>1. rows \subseteq Ids /\ dirty \subseteq rows
  BY DEF InMemory
<1>2. /\ x \in Books /\ x.files = lb.files /\ x.env = lb.env /\ x.uuidOf = lb.uuidOf /\ x.unsaved = lb.unsaved
      /\ x.enabled = E
      /\ lb.unsavedAll \subseteq x.unsavedAll /\ x.unsavedAll \subseteq lb.unsavedAll \union rows
      /\ \A i \in rows : data[i] # Stub /\ i \in dirty => i \in x.unsavedAll
      /\ x.needsFlush \subseteq lb.needsFlush \union rows
      /\ \A i \in Ids : i \notin rows \/ data[i] = Stub => x.cached[i] = lb.cached[i]
      /\ \A i \in rows, c \in Columns :
           data[i] # Stub => x.cached[i][c] \in {NoValue, ValueOf(lb, data[i], c)}
  BY <1>1, RecomputedFields
<1>3. \A i \in Ids : Known(x, i) = Known(lb, i) /\ FileOf(x, i) = FileOf(lb, i)
  BY <1>2 DEF Known, FileOf
<1>4. FilesAreNamed(x)
  BY <1>2 DEF InMemory, FilesAreNamed, NamesFiles
<1>5. RowsAreKnown(x, rows, data, dirty)
  BY <1>1, <1>3 DEF InMemory, RowsAreKnown
<1>6. StubsAreNew(x, rows)
  <2>1. SUFFICES ASSUME NEW u \in rows \intersect Uuids, NEW s, s = x.files[u].id
                 PROVE  /\ s \notin rows /\ x.cached[s] = NoValues /\ x.unsaved[s] = {}
                        /\ s \notin x.unsavedAll /\ s \notin x.needsFlush
    BY DEF StubsAreNew
  <2>2. s = lb.files[u].id /\ s \in Ids
    BY <1>2, <2>1, StubsHaveFiles
  <2>3. /\ s \notin rows /\ lb.cached[s] = NoValues /\ lb.unsaved[s] = {}
        /\ s \notin lb.unsavedAll /\ s \notin lb.needsFlush
    BY <2>1, <2>2 DEF InMemory, StubsAreNew
  <2> QED
    BY <1>2, <2>2, <2>3
<1>7. CacheIsTrue(x, rows, data)
  <2>1. SUFFICES ASSUME NEW i \in rows, NEW c \in Columns, x.cached[i][c] # NoValue
                 PROVE  x.cached[i][c] = ValueOf(x, ContentOf(x, data, i), c)
    BY DEF CacheIsTrue
  <2>2. ValueOf(x, ContentOf(x, data, i), c) = ValueOf(lb, ContentOf(lb, data, i), c)
    BY <1>1, <1>2, <1>3 DEF ValueOf, ContentOf
  <2>3. CASE data[i] = Stub
    BY <1>1, <1>2, <2>1, <2>2, <2>3 DEF InMemory, CacheIsTrue
  <2>4. CASE data[i] # Stub
    BY <1>2, <2>1, <2>2, <2>4 DEF ContentOf
  <2> QED
    BY <2>3, <2>4
<1>8. ChangesAreMarked(x, data, dirty)
  <2>1. SUFFICES ASSUME NEW i \in Ids, data[i] # Stub, ~(Known(x, i) /\ FileOf(x, i) = data[i])
                 PROVE  i \in dirty /\ i \in x.unsavedAll
    BY DEF ChangesAreMarked, IsMarked
  <2>2. i \in dirty
    BY <1>3, <2>1 DEF InMemory, ChangesAreMarked
  <2> QED
    BY <1>1, <1>2, <2>1, <2>2
<1> QED
  BY <1>1, <1>2, <1>4, <1>5, <1>6, <1>7, <1>8 DEF InMemory

\* Without rows there is nothing to recompute and nothing to publish.
LEMMA NoRowsIsGood ==
  ASSUME lb \in Books, data \in Datas, Good(lb, rows, data, dirty), rows = {},
         NEW E \in SUBSET Columns, NEW x, x = Recomputed(E)
  PROVE  x \in Books /\ Good(x, rows, data, dirty)
<1>1. InMemory(lb, rows, data, dirty) /\ OnDisk(lb, rows, data)
  BY DEF Good
<1>2. x \in Books /\ InMemory(x, rows, data, dirty)
  BY <1>1, RecomputedIsGood
<1>3. x.files = lb.files /\ x.index = lb.index /\ x.uuidOf = lb.uuidOf
  BY RecomputedFields
<1>4. x.indexDirty = lb.indexDirty
  BY RecomputedFields
<1>5. \A u \in Uuids : lb.files[u] = NoFile
  <2>1. \A i \in Ids : ~Known(lb, i)
    BY <1>1 DEF InMemory, RowsAreKnown
  <2> QED
    BY <1>1, <2>1, LogbookAssumption DEF InMemory, FilesAreNamed, NamesFiles, Known
<1>6. lb.index # NoIndex => \A i \in Ids : lb.index.uuidOf[i] = NoUuid
  <2>1. SUFFICES ASSUME lb.index # NoIndex, NEW i \in Ids, lb.index.uuidOf[i] # NoUuid
                 PROVE  FALSE
    OBVIOUS
  <2>2. lb.index.uuidOf[i] \in Uuids
    BY <2>1, BookFields DEF Indexes, UuidMaps
  <2> QED
    BY <1>1, <1>5, <2>1, <2>2 DEF OnDisk, IndexIsTrue, NamesFiles
<1>7. IndexIsTrue(x)
  <2>1. SUFFICES ASSUME lb.index # NoIndex
                 PROVE  /\ NamesFiles(x, lb.index.uuidOf)
                        /\ \A i \in Ids, c \in Columns : lb.index.values[i][c] = NoValue
    BY <1>3 DEF IndexIsTrue
  <2>2. NamesFiles(lb, lb.index.uuidOf)
    BY <1>1, <2>1 DEF OnDisk, IndexIsTrue
  <2>3. NamesFiles(x, lb.index.uuidOf)
    BY <1>3, <2>2 DEF NamesFiles
  <2>4. \A i \in Ids, c \in Columns : lb.index.values[i][c] = NoValue
    BY <1>1, <1>6, <2>1 DEF OnDisk, IndexIsTrue
  <2> QED
    BY <2>3, <2>4
<1>8. FlushIsAsked(x, data)
  BY <1>1 DEF FlushIsAsked, InMemory, RowsAreKnown
<1>9. CleanIsWritten(x, rows)
  BY <1>1, <1>3, <1>4 DEF OnDisk, CleanIsWritten
<1> QED
  BY <1>2, <1>7, <1>8, <1>9 DEF Good, OnDisk

------------------------------------------------------------------------------
(* Another environment, another start                                        *)

\* Without values nothing can be wrong of them.
LEMMA DiscardedIsGood ==
  ASSUME lb \in Books, data \in Datas, Good(lb, rows, data, dirty), NEW e \in Environments, NEW x, x = Discarded(e)
  PROVE  x \in Books /\ Good(x, rows, data, dirty)
<1>. DEFINE new == [i \in Ids |-> NoValues]
<1>1. new \in ValueMaps /\ \A i \in Ids : new[i] = NoValues /\ \A c \in Columns : new[i][c] = NoValue
  BY NoValuesIsTyped DEF ValueMaps
<1>2. x = [lb EXCEPT !.env = e, !.cached = new, !.indexDirty = TRUE]
  BY DEF Discarded
<1>. HIDE DEF new
<1>3. x \in Books
  BY <1>1, <1>2 DEF Books
<1>4. /\ x.cached = new /\ x.files = lb.files /\ x.index = lb.index /\ x.enabled = lb.enabled
      /\ x.uuidOf = lb.uuidOf /\ x.unsaved = lb.unsaved /\ x.unsavedAll = lb.unsavedAll /\ x.needsFlush = lb.needsFlush
  BY <1>2 DEF Books
<1>5. x.indexDirty
  BY <1>2 DEF Books
<1>6. InMemory(lb, rows, data, dirty) /\ OnDisk(lb, rows, data)
  BY DEF Good
<1>7. FilesAreNamed(x)
  BY <1>4, <1>6 DEF InMemory, FilesAreNamed, NamesFiles
<1>8. RowsAreKnown(x, rows, data, dirty) /\ ChangesAreMarked(x, data, dirty)
  BY <1>4, <1>6 DEF InMemory, RowsAreKnown, ChangesAreMarked, Known, FileOf, IsMarked
<1>9. StubsAreNew(x, rows)
  <2>1. \A u \in rows \intersect Uuids : lb.files[u].id \in Ids
    BY <1>6, StubsHaveFiles
  <2> QED
    BY <1>1, <1>4, <1>6, <2>1 DEF InMemory, StubsAreNew
<1>10. CacheIsTrue(x, rows, data)
  BY <1>1, <1>4, <1>6 DEF InMemory, CacheIsTrue
<1>11. IndexIsTrue(x)
  BY <1>4, <1>6, IndexStaysTrue DEF OnDisk
<1>12. FlushIsAsked(x, data)
  BY <1>4, <1>6 DEF OnDisk, FlushIsAsked, Known, FileOf
<1>13. CleanIsWritten(x, rows)
  BY <1>5 DEF CleanIsWritten
<1> QED
  BY <1>3, <1>6, <1>7, <1>8, <1>9, <1>10, <1>11, <1>12, <1>13 DEF Good, InMemory, OnDisk

LEMMA OpenedFields ==
  ASSUME NEW b \in Books, NEW e \in Environments, NEW x, x = Opened(b, e)
  PROVE  /\ x \in Books /\ x.files = b.files /\ x.index = b.index /\ x.enabled = b.enabled /\ x.env = e
         /\ \A i \in Ids : x.uuidOf[i] = IF b.index # NoIndex /\ b.index.uuidOf[i] # NoUuid
                                         THEN b.index.uuidOf[i]
                                         ELSE IF i \in Orphans(b) THEN i ELSE NoUuid
         /\ TrustIndex(b, e) => x.cached = b.index.values
         /\ ~TrustIndex(b, e) => \A i \in Ids : x.cached[i] = NoValues
         /\ \A i \in Ids : x.unsaved[i] = {}
         /\ x.unsavedAll = {} /\ x.needsFlush = {}
         /\ b.index # NoIndex /\ ~x.indexDirty => TrustIndex(b, e) /\ Orphans(b) = {}
<1>. DEFINE names == [i \in Ids |-> IF b.index # NoIndex /\ b.index.uuidOf[i] # NoUuid
                                    THEN b.index.uuidOf[i]
                                    ELSE IF i \in Orphans(b) THEN i ELSE NoUuid]
            new == IF TrustIndex(b, e) THEN b.index.values ELSE [i \in Ids |-> NoValues]
            marks == [i \in Ids |-> {}]
            mark == b.index # NoIndex /\ (~TrustIndex(b, e) \/ Orphans(b) # {})
            none == {}
            y == [b EXCEPT !.env = e, !.uuidOf = names, !.cached = new]
<1>1. b.index # NoIndex => b.index.uuidOf \in UuidMaps /\ b.index.values \in ValueMaps
  BY BookFields DEF Indexes
<1>2. names \in UuidMaps /\ \A i \in Ids : names[i] = IF b.index # NoIndex /\ b.index.uuidOf[i] # NoUuid
                                                      THEN b.index.uuidOf[i]
                                                      ELSE IF i \in Orphans(b) THEN i ELSE NoUuid
  <2>1. \A i \in Orphans(b) : i \in Uuids
    BY DEF Orphans
  <2> QED
    BY <1>1, <2>1 DEF UuidMaps
<1>3. /\ new \in ValueMaps
      /\ TrustIndex(b, e) => new = b.index.values
      /\ ~TrustIndex(b, e) => \A i \in Ids : new[i] = NoValues
  <2>1. [i \in Ids |-> NoValues] \in ValueMaps
    BY NoValuesIsTyped DEF ValueMaps
  <2> QED
    BY <1>1, <2>1 DEF TrustIndex
<1>4. marks \in [Ids -> SUBSET Columns] /\ \A i \in Ids : marks[i] = {}
  OBVIOUS
<1>5. mark \in BOOLEAN
  OBVIOUS
<1>6. x = [y EXCEPT !.unsaved = marks, !.unsavedAll = none, !.needsFlush = none, !.indexDirty = mark]
  BY DEF Opened
<1>7. none \in SUBSET Ids
  OBVIOUS
<1>8. mark => b.index # NoIndex /\ (~TrustIndex(b, e) \/ Orphans(b) # {})
  OBVIOUS
<1>9. b.index # NoIndex /\ ~mark => TrustIndex(b, e) /\ Orphans(b) = {}
  OBVIOUS
<1>. HIDE DEF names, new, marks, mark
<1>10. y \in Books
  BY <1>2, <1>3 DEF Books
<1>11. /\ y.files = b.files /\ y.index = b.index /\ y.enabled = b.enabled /\ y.env = e
       /\ y.uuidOf = names /\ y.cached = new
  BY DEF Books
<1>. HIDE DEF y
<1>12. x \in Books
  BY <1>4, <1>5, <1>6, <1>7, <1>10 DEF Books
<1>13. /\ x.files = y.files /\ x.index = y.index /\ x.enabled = y.enabled /\ x.env = y.env
       /\ x.uuidOf = y.uuidOf /\ x.cached = y.cached /\ x.unsaved = marks
       /\ x.unsavedAll = {} /\ x.needsFlush = {}
  BY <1>6, <1>10 DEF Books, none
<1>14. x.indexDirty = mark
  BY <1>6, <1>10 DEF Books
<1> QED
  BY <1>2, <1>3, <1>4, <1>9, <1>11, <1>12, <1>13, <1>14

\* A restart finds what is on disk, and nothing else.
LEMMA OpenedIsGood ==
  ASSUME NEW b \in Books, FilesAreNamed(b), IndexIsTrue(b), NEW e \in Environments, NEW x, x = Opened(b, e),
         NEW R, R = {i \in Ids : x.uuidOf[i] # NoUuid}, NEW d, d = [i \in Ids |-> Stub]
  PROVE  x \in Books /\ d \in Datas /\ Good(x, R, d, {})
<1>1. /\ x \in Books /\ x.files = b.files /\ x.index = b.index /\ x.enabled = b.enabled /\ x.env = e
      /\ \A i \in Ids : x.uuidOf[i] = IF b.index # NoIndex /\ b.index.uuidOf[i] # NoUuid
                                      THEN b.index.uuidOf[i]
                                      ELSE IF i \in Orphans(b) THEN i ELSE NoUuid
      /\ TrustIndex(b, e) => x.cached = b.index.values
      /\ ~TrustIndex(b, e) => \A i \in Ids : x.cached[i] = NoValues
      /\ \A i \in Ids : x.unsaved[i] = {}
      /\ x.unsavedAll = {} /\ x.needsFlush = {}
      /\ b.index # NoIndex /\ ~x.indexDirty => TrustIndex(b, e) /\ Orphans(b) = {}
  BY OpenedFields
<1>2. d \in Datas /\ \A i \in Ids : d[i] = Stub
  BY DEF Datas
<1>3. R \subseteq Ids /\ \A i \in Ids : i \in R <=> Known(x, i)
  BY DEF Known
<1>. DEFINE f == b.index.uuidOf
<1>4. b.index # NoIndex =>
        /\ f \in UuidMaps /\ b.index.values \in ValueMaps
        /\ NamesFiles(b, f)
        /\ \A i \in Ids, c \in Columns :
             b.index.values[i][c] # NoValue =>
               /\ f[i] # NoUuid
               /\ b.index.values[i][c] = [bit |-> b.files[f[i]].val[c], env |-> b.index.env]
  BY BookFields DEF IndexIsTrue, Indexes
<1>5. \A u \in Orphans(b) : /\ u \in Uuids /\ u \in Ids /\ u \notin Sessions /\ u # NoUuid /\ b.files[u] # NoFile
                            /\ b.index # NoIndex => f[u] = NoUuid /\ \A i \in Ids : f[i] # u
  BY LogbookAssumption DEF Orphans, Ids
<1>. HIDE DEF f
<1>6. \A i \in Ids : x.uuidOf[i] # NoUuid =>
        \/ i \in Orphans(b) /\ x.uuidOf[i] = i
        \/ b.index # NoIndex /\ f[i] # NoUuid /\ x.uuidOf[i] = f[i]
  BY <1>1 DEF f
<1>7. NamesFiles(x, x.uuidOf)
  <2>1. \A i \in Ids : x.uuidOf[i] # NoUuid => b.files[x.uuidOf[i]] # NoFile
    BY <1>4, <1>5, <1>6 DEF NamesFiles
  <2>2. \A i, j \in Ids : x.uuidOf[i] = x.uuidOf[j] /\ x.uuidOf[i] # NoUuid => i = j
    BY <1>4, <1>5, <1>6 DEF NamesFiles
  <2>3. \A s \in Sessions : x.uuidOf[s] # NoUuid => b.files[x.uuidOf[s]].id = s
    BY <1>4, <1>5, <1>6 DEF NamesFiles, Ids
  <2>4. \A u \in Uuids : x.uuidOf[u] \in {u, NoUuid}
    BY <1>4, <1>5, <1>6 DEF NamesFiles, Ids
  <2> QED
    BY <1>1, <2>1, <2>2, <2>3, <2>4 DEF NamesFiles
<1>8. FilesAreNamed(x)
  <2>1. \A u, w \in Uuids : x.files[u] # NoFile /\ x.files[w] # NoFile /\ x.files[u].id = x.files[w].id => u = w
    BY <1>1 DEF FilesAreNamed
  <2>2. ASSUME NEW u \in Uuids, x.files[u] # NoFile
        PROVE  \E i \in Ids : x.uuidOf[i] = u
    <3>1. u \in Ids /\ u # NoUuid
      BY LogbookAssumption DEF Ids
    <3>2. CASE u \in Orphans(b)
      BY <1>1, <1>5, <3>1, <3>2 DEF f
    <3>3. CASE u \notin Orphans(b)
      <4>1. b.index # NoIndex /\ ((\E i \in Ids : f[i] = u) \/ f[u] # NoUuid)
        BY <1>1, <2>2, <3>3 DEF Orphans, f
      <4>2. PICK i \in Ids : f[i] = u
        BY <1>4, <3>1, <4>1 DEF NamesFiles
      <4> QED
        BY <1>1, <3>1, <4>1, <4>2 DEF f
    <3> QED
      BY <3>2, <3>3
  <2> QED
    BY <1>7, <2>1, <2>2 DEF FilesAreNamed
<1>9. RowsAreKnown(x, R, d, {})
  BY <1>2, <1>3 DEF RowsAreKnown
<1>10. \A i \in Ids, c \in Columns : x.cached[i][c] # NoValue =>
         /\ TrustIndex(b, e) /\ b.index # NoIndex /\ f[i] # NoUuid /\ x.uuidOf[i] = f[i]
         /\ x.cached[i][c] = [bit |-> b.files[f[i]].val[c], env |-> e]
  <2>1. SUFFICES ASSUME NEW i \in Ids, NEW c \in Columns, x.cached[i][c] # NoValue
                 PROVE  /\ TrustIndex(b, e) /\ b.index # NoIndex /\ f[i] # NoUuid /\ x.uuidOf[i] = f[i]
                        /\ x.cached[i][c] = [bit |-> b.files[f[i]].val[c], env |-> e]
    OBVIOUS
  <2>2. TrustIndex(b, e)
    BY <1>1, <2>1, NoValuesIsTyped
  <2>3. b.index # NoIndex /\ b.index.env = e
    BY <2>2 DEF TrustIndex
  <2>4. x.cached[i][c] = b.index.values[i][c]
    BY <1>1, <2>2
  <2>5. f[i] # NoUuid /\ x.cached[i][c] = [bit |-> b.files[f[i]].val[c], env |-> e]
    BY <1>4, <2>1, <2>3, <2>4
  <2> QED
    BY <1>1, <2>2, <2>3, <2>5 DEF f
<1>11. StubsAreNew(x, R)
  <2>1. SUFFICES ASSUME NEW u \in R \intersect Uuids, NEW s, s = x.files[u].id
                 PROVE  s \notin R /\ x.cached[s] = NoValues /\ x.unsaved[s] = {}
    BY <1>1 DEF StubsAreNew
  <2>2. u \in Ids /\ u \notin Sessions /\ x.uuidOf[u] = u /\ u # NoUuid /\ x.files[u] # NoFile
    BY <1>3, <1>7, <2>1, LogbookAssumption DEF Ids, Known, NamesFiles
  <2>3. x.files[u] \in Contents
    BY <1>1, <2>1, <2>2, BookFields
  <2>4. s \in Sessions /\ s \in Ids
    BY <2>1, <2>3 DEF Contents, Ids
  <2>5. s \notin R
    <3>1. SUFFICES ASSUME s \in R PROVE FALSE
      OBVIOUS
    <3>. DEFINE w == x.uuidOf[s]
    <3>2. w # NoUuid /\ x.files[w] # NoFile /\ x.files[w].id = s
      BY <1>3, <1>7, <2>4, <3>1 DEF Known, NamesFiles
    <3>3. w \in Uuids
      BY <1>1, <2>4, <3>2, BookFields DEF UuidMaps
    <3>4. w = u
      BY <1>8, <2>1, <2>2, <3>2, <3>3 DEF FilesAreNamed
    <3>5. s = u
      BY <1>7, <2>2, <2>4, <3>2, <3>4 DEF NamesFiles
    <3> QED
      BY <2>2, <2>4, <3>5
  <2>6. \A c \in Columns : x.cached[s][c] = NoValue
    <3>1. x.uuidOf[s] = NoUuid
      BY <1>3, <2>4, <2>5 DEF Known
    <3> QED
      BY <1>10, <2>4, <3>1
  <2>7. x.cached[s] \in [Columns -> Cached]
    BY <1>1, <2>4, BookFields DEF ValueMaps
  <2>8. x.cached[s] = NoValues
    BY <2>6, <2>7, NoValuesIsTyped
  <2> QED
    BY <1>1, <2>4, <2>5, <2>8
<1>12. CacheIsTrue(x, R, d)
  <2>1. SUFFICES ASSUME NEW i \in R, NEW c \in Columns, x.cached[i][c] # NoValue
                 PROVE  x.cached[i][c] = ValueOf(x, ContentOf(x, d, i), c)
    BY DEF CacheIsTrue
  <2>2. i \in Ids /\ ContentOf(x, d, i) = b.files[x.uuidOf[i]]
    BY <1>1, <1>2, <1>3, <2>1 DEF ContentOf, FileOf
  <2>3. x.uuidOf[i] = f[i]
    BY <1>10, <2>1, <2>2
  <2>4. x.cached[i][c] = [bit |-> b.files[f[i]].val[c], env |-> e]
    BY <1>10, <2>1, <2>2
  <2> QED
    BY <1>1, <2>2, <2>3, <2>4 DEF ValueOf
<1>13. ChangesAreMarked(x, d, {}) /\ FlushIsAsked(x, d)
  BY <1>2 DEF ChangesAreMarked, FlushIsAsked
<1>14. IndexIsTrue(x)
  BY <1>1, IndexStaysTrue
<1>15. CleanIsWritten(x, R)
  <2>1. SUFFICES ASSUME x.index # NoIndex, ~x.indexDirty
                 PROVE  /\ x.index.uuidOf = x.uuidOf
                        /\ \A i \in R, c \in Columns : x.cached[i][c] \in {NoValue, x.index.values[i][c]}
    BY DEF CleanIsWritten
  <2>2. b.index # NoIndex /\ TrustIndex(b, e) /\ Orphans(b) = {}
    BY <1>1, <2>1
  <2>3. x.cached = x.index.values
    BY <1>1, <2>2
  <2>4. \A i \in Ids : x.uuidOf[i] = f[i]
    BY <1>1, <2>2 DEF f
  <2>5. x.uuidOf \in UuidMaps
    BY <1>1, BookFields
  <2>6. x.uuidOf = f
    BY <1>4, <2>2, <2>4, <2>5 DEF UuidMaps
  <2> QED
    BY <1>1, <2>3, <2>6 DEF f
<1> QED
  BY <1>1, <1>2, <1>3, <1>8, <1>9, <1>11, <1>12, <1>13, <1>14, <1>15 DEF Good, InMemory, OnDisk

------------------------------------------------------------------------------
(* Every behaviour                                                           *)

Faultless == ~FilesLock /\ ~RemovalFails /\ ~ColumnsFail /\ ~StubsByName

\* A row that is left out of the rest was saved, or its save failed.
ClosingIsWhole ==
  /\ mode \in {"running", "closing", "closed"}
  /\ rest \subseteq dirty
  /\ mode # "closing" => rest = {}
  /\ mode = "closing" => dirty \ saveFailed \subseteq rest
  /\ mode = "closed" => dirty \subseteq saveFailed

\* The inductive invariant.
IInv ==
  /\ lb \in Books /\ data \in Datas /\ Good(lb, rows, data, dirty)
  /\ locked = {} /\ loadFailed = {} /\ saveFailed \subseteq dirty
  /\ bulk \in Seq(Edits)
  /\ ClosingIsWhole

Lower == {r \in Nat \X Nat : r[1] < r[2]}

------------------------------------------------------------------------------
(* What the steps are made of                                                *)

LEMMA LowerIsWellFounded == IsWellFoundedOn(Lower, Nat)
<1>1. Lower = OpToRel(<, Nat)
  BY DEF Lower, OpToRel
<1> QED
  BY <1>1, NatLessThanWellFounded, Zenon

LEMMA FirstIsIn ==
  ASSUME NEW S \in SUBSET Ids, S # {}
  PROVE  First(S) \in S
<1>. DEFINE T == {Rank[i] : i \in S}
<1>1. Rank \in [Ids -> Nat]
  BY LogbookAssumption
<1>2. T \subseteq Nat /\ T # {}
  BY <1>1
<1>3. PICK m \in T : \A k \in T : <<k, m>> \notin Lower
  BY <1>2, LowerIsWellFounded, WFMin
<1>4. \A k \in T : m <= k
  <2>1. SUFFICES ASSUME NEW k \in T, ~(m <= k)
                 PROVE  FALSE
    OBVIOUS
  <2>2. k < m
    BY <1>2, <1>3, <2>1
  <2>3. <<k, m>> \in Nat \X Nat /\ <<k, m>>[1] < <<k, m>>[2]
    BY <1>2, <2>1, <2>2
  <2> QED
    BY <1>3, <2>1, <2>3 DEF Lower
<1>5. PICK i \in S : Rank[i] = m
  BY <1>3
<1>6. \A j \in S : Rank[i] <= Rank[j]
  BY <1>4, <1>5
<1> QED
  BY <1>6 DEF First

LEMMA EditedDoes ==
  ASSUME NEW y \in Contents, NEW a, NEW content \in Edited(y, a)
  PROVE  /\ content \in Contents /\ content.id = y.id
         /\ \A c \in Columns : c \notin Affects[a] => content.val[c] = y.val[c]
<1>1. PICK n \in [Affects[a] -> Bits] :
        content = [y EXCEPT !.val = [c \in Columns |-> IF c \in Affects[a] THEN n[c] ELSE y.val[c]]]
  BY DEF Edited, Contents
<1>. DEFINE new == [c \in Columns |-> IF c \in Affects[a] THEN n[c] ELSE y.val[c]]
<1>2. y.val \in [Columns -> Bits]
  BY DEF Contents
<1>3. new \in [Columns -> Bits] /\ \A c \in Columns : c \notin Affects[a] => new[c] = y.val[c]
  BY <1>2
<1>. HIDE DEF new
<1>4. content = [y EXCEPT !.val = new]
  BY <1>1 DEF new
<1>5. content \in Contents /\ content.id = y.id /\ content.val = new
  BY <1>3, <1>4 DEF Contents
<1> QED
  BY <1>3, <1>5

\* An edit of a loaded row, and the marks that go before it.
LEMMA EditIsGood ==
  ASSUME NEW b \in Books, NEW R, NEW d \in Datas, NEW q, Good(b, R, d, q), NEW i \in R, d[i] # Stub,
         NEW a \in Attributes, NEW x, x = Invalidate(b, i, a), NEW content \in Edited(d[i], a),
         NEW e, e = [d EXCEPT ![i] = content]
  PROVE  x \in Books /\ e \in Datas /\ Good(x, R, e, q \union {i})
<1>1. i \in Ids /\ d[i].id = i
  BY DEF Good, InMemory, RowsAreKnown
<1>2. d[i] \in Contents
  BY <1>1 DEF Datas
<1>3. /\ content \in Contents /\ content.id = i
      /\ \A c \in Columns : c \notin Affects[a] => content.val[c] = d[i].val[c]
  BY <1>1, <1>2, EditedDoes
<1>4. /\ x \in Books /\ RowIsMarked(x, b, i)
      /\ \A c \in Affects[a] : /\ x.cached[i][c] = NoValue
                               /\ c \in x.enabled => /\ IsMarked(x, i, c)
                                                     /\ Known(x, i) => i \in x.needsFlush
  BY <1>1, InvalidateDoes
<1>5. Good(x, R, d, q)
  BY <1>4, MarkedIsGood
<1>6. \A c \in Columns : content.val[c] # d[i].val[c] =>
        /\ x.cached[i][c] = NoValue
        /\ c \in x.enabled => IsMarked(x, i, c) /\ (Known(x, i) => i \in x.needsFlush)
  BY <1>3, <1>4
<1>7. e \in Datas /\ Good(x, R, e, q \union {i})
  BY <1>1, <1>3, <1>4, <1>5, <1>6, ChangeIsGood
<1> QED
  BY <1>4, <1>7

\* An attempt to save a row, and what its callers do after it.
LEMMA AttemptIsGood ==
  ASSUME NEW b \in Books, NEW R, NEW d \in Datas, NEW q, Good(b, R, d, q), NEW i \in q,
         NEW o \in SaveOutcomes(b, d[i]), NEW x, x = AfterSave(i, d[i], o)
  PROVE  /\ x \in Books /\ o.ok \in BOOLEAN
         /\ Good(x, R, d, IF o.ok THEN q \ {i} ELSE q)
         /\ o.ok => InFile(x, i, d[i])
<1>1. i \in R /\ i \in Ids /\ d[i] # Stub
  BY DEF Good, InMemory, RowsAreKnown
<1>2. /\ o.book \in Books /\ o.ok \in BOOLEAN
      /\ ~o.ok => Good(o.book, R, d, q)
      /\ o.ok => Good(o.book, R, d, q \ {i}) /\ InFile(o.book, i, d[i])
  BY SaveIsGood
<1>3. CASE o.ok
  <2>. DEFINE y == o.book
  <2>1. y \in Books /\ Good(y, R, d, q \ {i}) /\ InFile(y, i, d[i])
    BY <1>2, <1>3
  <2>2. x = FillMissing(y, i, d[i])
    BY <1>3 DEF AfterSave
  <2>. HIDE DEF y
  <2>3. d[i] = ContentOf(y, d, i)
    BY <1>1 DEF ContentOf
  <2>4. x \in Books /\ Good(x, R, d, q \ {i}) /\ x.files = y.files /\ x.uuidOf = y.uuidOf
    BY <1>1, <2>1, <2>2, <2>3, FillMissingIsGood
  <2> QED
    BY <1>2, <1>3, <2>1, <2>4 DEF InFile, Known, FileOf
<1>4. CASE ~o.ok
  BY <1>2, <1>4 DEF AfterSave
<1> QED
  BY <1>2, <1>3, <1>4

LEMMA FlushOutcomeIsGood ==
  ASSUME NEW b \in Books, NEW R, NEW d \in Datas, NEW q, Good(b, R, d, q), NEW x \in FlushOutcomes(b)
  PROVE  x \in Books /\ Good(x, R, d, q)
<1>1. InMemory(b, R, d, q)
  BY DEF Good
<1>2. Flushed(b) \in Books /\ Good(Flushed(b), R, d, q)
  BY <1>1, FlushedIsGood
<1> QED
  BY <1>2 DEF FlushOutcomes

\* Reading the file of a stub: the row is known by its SESSION_ID from then on.
LEMMA LoadDoes ==
  ASSUME IInv, NEW i \in rows, data[i] = Stub, NEW r, r = IdAfterLoad(i), NEW x, x = LoadedBook(i),
         NEW S, S = RowsAfterLoad(i)
  PROVE  /\ x \in Books /\ Good(x, S, data, dirty)
         /\ r \in S /\ r \in Sessions /\ r \in Ids /\ data[r] = Stub
         /\ FileOf(x, r) = FileOf(lb, i) /\ FileOf(lb, i) \in Contents
<1>1. lb \in Books /\ data \in Datas /\ Good(lb, rows, data, dirty) /\ InMemory(lb, rows, data, dirty)
  BY DEF IInv, Good
<1>2. i \in Ids /\ Known(lb, i)
  BY <1>1 DEF InMemory, RowsAreKnown
<1>. DEFINE y == FileOf(lb, i)
<1>3. y \in Contents /\ y.id \in Sessions /\ y.id \in Ids
  BY <1>1, <1>2, KnownHaveFiles DEF Ids
<1>4. CASE i \in Sessions
  <2>1. y.id = i
    BY <1>1, <1>2, <1>4 DEF InMemory, FilesAreNamed, NamesFiles, Known, FileOf
  <2>2. r = i
    BY <1>2, <2>1 DEF IdAfterLoad
  <2>3. x = lb /\ S = rows
    BY <2>2 DEF LoadedBook, RowsAfterLoad
  <2> QED
    BY <1>1, <1>2, <1>3, <1>4, <2>2, <2>3
<1>5. CASE i \in Uuids
  <2>1. lb.uuidOf[i] = i /\ y = lb.files[i] /\ y.id # i
    BY <1>1, <1>5, StubsHaveFiles DEF FileOf
  <2>2. y.id \notin rows /\ lb.cached[y.id] = NoValues /\ lb.unsaved[y.id] = {}
    BY <1>1, <1>5, <2>1 DEF InMemory, StubsAreNew
  <2>3. ~Known(lb, y.id) /\ data[y.id] = Stub
    BY <1>1, <1>3, <2>2 DEF InMemory, RowsAreKnown
  <2>4. r = y.id
    BY <2>3 DEF IdAfterLoad
  <2>5. x = Remap(lb, i, r) /\ S = (rows \ {i}) \union {r}
    BY <2>1, <2>4 DEF LoadedBook, RowsAfterLoad
  <2>6. x \in Books /\ Renames(x, lb, i, r)
    BY <1>1, <1>2, <1>3, <2>1, <2>2, <2>4, <2>5, RemapDoes
  <2>7. Good(x, S, data, dirty)
    BY <1>1, <1>5, <2>1, <2>4, <2>5, <2>6, RenamedIsGood
  <2>8. FileOf(x, r) = y
    BY <2>1, <2>6 DEF Renames, FileOf
  <2> QED
    BY <1>3, <2>3, <2>4, <2>5, <2>6, <2>7, <2>8
<1> QED
  BY <1>2, <1>4, <1>5 DEF Ids

LEMMA StubIsReadable ==
  ASSUME IInv, NEW i \in rows, data[i] = Stub
  PROVE  Readable(i)
<1>1. lb \in Books /\ InMemory(lb, rows, data, dirty) /\ locked = {}
  BY DEF IInv, Good
<1>2. i \in Ids /\ Known(lb, i)
  BY <1>1 DEF InMemory, RowsAreKnown
<1>3. FileOf(lb, i) # NoFile
  BY <1>1, <1>2, KnownHaveFiles
<1> QED
  BY <1>1, <1>2, <1>3 DEF Readable

\* The rows after the file of one was read.
Read(i) == [data EXCEPT ![IdAfterLoad(i)] = FileOf(lb, i)]

LEMMA LoadIsGood ==
  ASSUME IInv, NEW i \in rows, data[i] = Stub
  PROVE  /\ LoadedBook(i) \in Books /\ Read(i) \in Datas
         /\ Good(LoadedBook(i), RowsAfterLoad(i), Read(i), dirty)
         /\ IdAfterLoad(i) \in RowsAfterLoad(i) /\ IdAfterLoad(i) \in Ids
         /\ Read(i)[IdAfterLoad(i)] = FileOf(lb, i) /\ FileOf(lb, i) # Stub /\ data[IdAfterLoad(i)] = Stub
         /\ \A j \in Ids : j # IdAfterLoad(i) => Read(i)[j] = data[j]
<1>. DEFINE r == IdAfterLoad(i)
            x == LoadedBook(i)
            S == RowsAfterLoad(i)
            y == FileOf(lb, i)
            d == Read(i)
<1>1. data \in Datas
  BY DEF IInv
<1>2. /\ x \in Books /\ Good(x, S, data, dirty)
      /\ r \in S /\ r \in Sessions /\ r \in Ids /\ data[r] = Stub
      /\ y = FileOf(x, r) /\ y \in Contents
  BY LoadDoes
<1>3. d = [data EXCEPT ![r] = y]
  BY DEF Read
<1>. HIDE DEF r, x, S, y, d
<1>4. d \in Datas /\ Good(x, S, d, dirty)
  BY <1>1, <1>2, <1>3, LoadedIsGood
<1>5. d[r] = y /\ \A j \in Ids : j # r => d[j] = data[j]
  BY <1>1, <1>2, <1>3 DEF Datas
<1>6. y # Stub
  BY <1>2, NothingIsSomething
<1> QED
  BY <1>2, <1>4, <1>5, <1>6 DEF r, x, S, y, d

LEMMA RenamedIsQueue ==
  ASSUME IInv, NEW i \in rows, data[i] = Stub
  PROVE  /\ Renamed(bulk, i) \in Seq(Edits)
         /\ bulk # << >> => Renamed(bulk, i) # << >>
<1>1. IdAfterLoad(i) \in Ids
  BY LoadDoes
<1>2. bulk \in Seq(Edits)
  BY DEF IInv
<1>3. /\ DOMAIN bulk = 1..Len(bulk) /\ Len(bulk) \in Nat
      /\ \A k \in 1..Len(bulk) : bulk[k] \in Edits
  BY <1>2
<1>. DEFINE n == Len(bulk)
            item(k) == IF bulk[k].id = i THEN [bulk[k] EXCEPT !.id = IdAfterLoad(i)] ELSE bulk[k]
<1>4. \A k \in 1..n : item(k) \in Edits
  <2>1. \A e \in Edits : [e EXCEPT !.id = IdAfterLoad(i)] \in Edits
    BY <1>1 DEF Edits
  <2> QED
    BY <1>3, <2>1
<1>5. Renamed(bulk, i) = [k \in 1..n |-> item(k)]
  BY <1>3 DEF Renamed
<1>. HIDE DEF item, n
<1>6. n \in Nat
  BY <1>3 DEF n
<1>7. Renamed(bulk, i) \in [1..n -> Edits]
  BY <1>4, <1>5
<1>8. Renamed(bulk, i) \in Seq(Edits) /\ Len(Renamed(bulk, i)) = n
  BY <1>6, <1>7, LenProperties
<1>9. bulk # << >> => n # 0
  BY <1>2, EmptySeq DEF n
<1> QED
  BY <1>8, <1>9

------------------------------------------------------------------------------
(* The initial states and the steps                                          *)

LEMMA InitGood == Init => IInv
<1>. SUFFICES ASSUME Init
              PROVE  IInv
  OBVIOUS
<1>1. PICK e \in Environments :
        lb = [files |-> [u \in Uuids |-> NoFile], index |-> NoIndex,
              enabled |-> Columns, env |-> e,
              uuidOf |-> [i \in Ids |-> NoUuid],
              cached |-> [i \in Ids |-> NoValues],
              unsaved |-> [i \in Ids |-> {}], unsavedAll |-> {}, needsFlush |-> {},
              indexDirty |-> FALSE]
  BY DEF Init
<1>2. /\ [u \in Uuids |-> NoFile] \in [Uuids -> Contents \union {NoFile}]
      /\ [i \in Ids |-> NoUuid] \in UuidMaps
      /\ [i \in Ids |-> NoValues] \in ValueMaps
      /\ [i \in Ids |-> {}] \in [Ids -> SUBSET Columns]
  BY NoValuesIsTyped DEF UuidMaps, ValueMaps
<1>3. lb \in Books
  BY <1>1, <1>2 DEF Books
<1>4. /\ \A u \in Uuids : lb.files[u] = NoFile
      /\ \A i \in Ids : lb.uuidOf[i] = NoUuid
      /\ lb.index = NoIndex
  BY <1>1
<1>5. rows = {} /\ dirty = {} /\ data \in Datas /\ \A i \in Ids : data[i] = Stub
  BY DEF Init, Datas
<1>6. InMemory(lb, rows, data, dirty)
  <2>1. FilesAreNamed(lb)
    BY <1>4 DEF FilesAreNamed, NamesFiles, Ids
  <2>2. RowsAreKnown(lb, rows, data, dirty)
    BY <1>4, <1>5 DEF RowsAreKnown, Known
  <2>3. StubsAreNew(lb, rows) /\ CacheIsTrue(lb, rows, data) /\ ChangesAreMarked(lb, data, dirty)
    BY <1>5 DEF StubsAreNew, CacheIsTrue, ChangesAreMarked
  <2> QED
    BY <1>5, <2>1, <2>2, <2>3 DEF InMemory
<1>7. OnDisk(lb, rows, data)
  BY <1>4 DEF OnDisk, IndexIsTrue, FlushIsAsked, CleanIsWritten
<1>8. ClosingIsWhole
  BY DEF Init, ClosingIsWhole
<1>9. bulk \in Seq(Edits)
  BY EmptySeq DEF Init
<1> QED
  BY <1>3, <1>5, <1>6, <1>7, <1>8, <1>9 DEF Init, IInv, Good

\* What a step of the running program has to show.
LEMMA RunningStep ==
  ASSUME IInv, Running, UNCHANGED <<locked, mode, rest>>,
         lb' \in Books, data' \in Datas, Good(lb', rows', data', dirty'),
         loadFailed' = {}, saveFailed' \subseteq dirty', bulk' \in Seq(Edits)
  PROVE  IInv'
<1>1. ClosingIsWhole'
  BY DEF IInv, ClosingIsWhole, Running
<1> QED
  BY <1>1 DEF IInv

\* What the invariant says of the logbook and the rows.
LEMMA IInvSays ==
  ASSUME IInv
  PROVE  /\ lb \in Books /\ data \in Datas /\ Good(lb, rows, data, dirty)
         /\ rows \subseteq Ids /\ dirty \subseteq rows
         /\ \A i \in dirty : data[i] # Stub
         /\ locked = {} /\ loadFailed = {} /\ saveFailed \subseteq dirty /\ bulk \in Seq(Edits)
BY DEF IInv, Good, InMemory, RowsAreKnown

LEMMA LoadSessionGood ==
  ASSUME IInv, NEW i \in Ids, LoadSession(i)
  PROVE  IInv'
<1>1. Running /\ i \in rows /\ data[i] = Stub /\ UNCHANGED <<locked, dirty, saveFailed, mode, rest>>
  BY DEF LoadSession, Loaded
<1>2. Readable(i)
  BY <1>1, StubIsReadable
<1>3. /\ lb' = LoadedBook(i) /\ rows' = RowsAfterLoad(i) /\ data' = Read(i) /\ bulk' = Renamed(bulk, i)
      /\ loadFailed' = loadFailed
  BY <1>2 DEF LoadSession, Read
<1>4. lb' \in Books /\ data' \in Datas /\ Good(lb', rows', data', dirty')
  BY <1>1, <1>3, LoadIsGood
<1>5. bulk' \in Seq(Edits)
  BY <1>1, <1>3, RenamedIsQueue
<1> QED
  BY <1>1, <1>3, <1>4, <1>5, IInvSays, RunningStep

LEMMA EditGood ==
  ASSUME IInv, NEW i \in Ids, NEW a \in Attributes, Edit(i, a)
  PROVE  IInv'
<1>1. /\ Running /\ i \in rows /\ data[i] # Stub /\ UNCHANGED <<locked, rows, loadFailed, bulk, mode, rest>>
      /\ lb' = Invalidate(lb, i, a)
  BY DEF Edit, Loaded
<1>2. PICK content \in Edited(data[i], a) : data' = [data EXCEPT ![i] = content]
  BY DEF Edit
<1>3. dirty' = dirty \union {i} /\ saveFailed' = saveFailed \ {i}
  BY IInvSays DEF Edit, ScheduleSave
<1>4. lb' \in Books /\ data' \in Datas /\ Good(lb', rows, data', dirty \union {i})
  <2>1. /\ lb \in Books /\ data \in Datas /\ Good(lb, rows, data, dirty) /\ i \in rows /\ data[i] # Stub
        /\ lb' = Invalidate(lb, i, a)
    BY <1>1, IInvSays
  <2>2. lb' \in Books
    BY <2>1, InvalidateDoes
  <2>3. data' \in Datas
    BY <1>2, <2>1, EditIsGood
  <2>4. Good(lb', rows, data', dirty \union {i})
    BY <1>2, <2>1, EditIsGood
  <2> QED
    BY <2>2, <2>3, <2>4
<1>5. Good(lb', rows', data', dirty')
  BY <1>1, <1>3, <1>4
<1> QED
  BY <1>1, <1>3, <1>4, <1>5, IInvSays, RunningStep

LEMMA ImportNewGood ==
  ASSUME IInv, NEW s \in Sessions, ImportNew(s)
  PROVE  IInv'
<1>1. /\ Running /\ s \notin rows /\ UNCHANGED <<locked, loadFailed, bulk, mode, rest>>
      /\ lb' = MarkSessionUnsaved(lb, s) /\ rows' = rows \union {s}
      /\ dirty' = dirty \union {s} /\ saveFailed' = saveFailed \ {s}
  BY DEF ImportNew, ScheduleSave
<1>2. PICK content \in Contents : content.id = s /\ data' = [data EXCEPT ![s] = content]
  BY DEF ImportNew
<1>3. rows \intersect Uuids = {}
  <2>1. SUFFICES ASSUME NEW u \in rows \intersect Uuids
                 PROVE  FALSE
    OBVIOUS
  <2>2. data[u] = Stub
    BY <2>1, IInvSays, StubsHaveFiles DEF Good
  <2>3. Readable(u)
    BY <2>2, StubIsReadable
  <2>4. IdAfterLoad(u) = u
    BY <2>2, <2>3 DEF ImportNew, StubsResolved, Loaded
  <2>5. IdAfterLoad(u) \in Sessions
    BY <2>2, LoadDoes
  <2> QED
    BY <2>1, <2>4, <2>5, LogbookAssumption
<1>4. lb' \in Books /\ data' \in Datas /\ Good(lb', rows', data', dirty')
  BY <1>1, <1>2, <1>3, IInvSays, NewIsGood
<1> QED
  BY <1>1, <1>4, IInvSays, RunningStep

LEMMA ImportMergeGood ==
  ASSUME IInv, NEW s \in Sessions, NEW a \in Attributes, ImportMerge(s, a)
  PROVE  IInv'
<1>1. /\ Running /\ s \in rows /\ UNCHANGED <<locked, rows, bulk, mode, rest>>
      /\ lb' = Invalidate(lb, s, a) /\ loadFailed' = {}
      /\ dirty' = dirty \union {s} /\ saveFailed' = saveFailed \ {s}
  BY IInvSays DEF ImportMerge, ScheduleSave
<1>2. lb' \in Books /\ data' \in Datas /\ Good(lb', rows, data', dirty \union {s})
  <2>1. s \in rows /\ lb' = Invalidate(lb, s, a)
    BY <1>1
  <2>2. CASE data[s] # Stub
    <3>1. PICK c \in Edited(data[s], a) : data' = [data EXCEPT ![s] = c]
      BY <2>2, IInvSays DEF ImportMerge, Loaded
    <3>2. lb \in Books /\ data \in Datas /\ Good(lb, rows, data, dirty) /\ s \in Ids
      BY IInvSays DEF Ids
    <3>3. lb' \in Books
      BY <2>1, <3>2, InvalidateDoes
    <3>4. data' \in Datas
      BY <2>1, <2>2, <3>1, <3>2, EditIsGood
    <3>5. Good(lb', rows, data', dirty \union {s})
      BY <2>1, <2>2, <3>1, <3>2, EditIsGood
    <3> QED
      BY <3>3, <3>4, <3>5
  <2>3. CASE data[s] = Stub
    <3>. DEFINE y == FileOf(lb, s)
                d == [data EXCEPT ![s] = y]
    <3>1. PICK c \in Edited(y, a) : data' = [data EXCEPT ![s] = c]
      BY <2>3 DEF ImportMerge, Loaded
    <3>2. s \in Ids /\ Known(lb, s)
      BY <1>1, <2>3, IInvSays DEF Good, InMemory, RowsAreKnown
    <3>3. y # Stub
      BY <3>2, IInvSays, KnownHaveFiles, NothingIsSomething DEF Good
    <3>. HIDE DEF y
    <3>4. d \in Datas /\ Good(lb, rows, d, dirty)
      BY <1>1, <2>3, IInvSays, LoadedIsGood DEF y
    <3>5. d[s] = y /\ data' = [d EXCEPT ![s] = c]
      BY <3>1, <3>2, IInvSays DEF Datas
    <3>6. c \in Edited(d[s], a) /\ d[s] # Stub
      BY <3>1, <3>3, <3>5
    <3>7. data' = [d EXCEPT ![s] = c]
      BY <3>5
    <3>. HIDE DEF d
    <3>8. lb \in Books
      BY IInvSays
    <3>9. lb' \in Books
      BY <2>1, <3>2, <3>8, InvalidateDoes
    <3>10. data' \in Datas
      BY <2>1, <3>4, <3>6, <3>7, <3>8, EditIsGood
    <3>11. Good(lb', rows, data', dirty \union {s})
      BY <2>1, <3>4, <3>6, <3>7, <3>8, EditIsGood
    <3> QED
      BY <3>9, <3>10, <3>11
  <2> QED
    BY <2>2, <2>3
<1>3. Good(lb', rows', data', dirty')
  BY <1>1, <1>2
<1> QED
  BY <1>1, <1>2, <1>3, IInvSays, RunningStep

\* An eviction that gives the session up has it in its file.
LEMMA EvictSessionDoes ==
  ASSUME IInv, NEW i \in Ids, EvictSession(i)
  PROVE  /\ IInv'
         /\ \A j \in Ids : data[j] # Stub /\ data'[j] = Stub => InFile(lb', j, data[j])
<1>1. /\ Running /\ i \in rows /\ data[i] # Stub /\ UNCHANGED <<locked, rows, bulk, mode, rest>>
      /\ i \notin saveFailed
  BY DEF EvictSession, Loaded
<1>2. /\ lb \in Books /\ data \in Datas /\ Good(lb, rows, data, dirty) /\ dirty \subseteq rows
      /\ saveFailed \subseteq dirty /\ loadFailed = {}
  BY IInvSays
<1>3. CASE i \in dirty
  <2>1. PICK o \in SaveOutcomes(lb, data[i]) :
          /\ lb' = AfterSave(i, data[i], o)
          /\ MarkSaved(i, o)
          /\ data' = IF o.ok THEN [data EXCEPT ![i] = Stub] ELSE data
    BY <1>2, <1>3 DEF EvictSession
  <2>2. loadFailed' = {}
    BY <1>2, <1>3 DEF EvictSession
  <2>3. /\ lb' \in Books /\ o.ok \in BOOLEAN
        /\ Good(lb', rows, data, IF o.ok THEN dirty \ {i} ELSE dirty)
        /\ o.ok => InFile(lb', i, data[i])
    BY <1>2, <1>3, <2>1, AttemptIsGood
  <2>4. CASE o.ok
    <3>1. dirty' = dirty \ {i} /\ saveFailed' = saveFailed \ {i} /\ data' = [data EXCEPT ![i] = Stub]
      BY <2>1, <2>4 DEF MarkSaved
    <3>2. lb' \in Books /\ Good(lb', rows, data, dirty \ {i})
      BY <2>3, <2>4
    <3>3. data' \in Datas /\ Good(lb', rows, data', dirty \ {i})
      <4>1. data' = [data EXCEPT ![i] = Stub] /\ data[i] # Stub /\ i \notin dirty \ {i}
        BY <1>1, <3>1
      <4> QED
        BY <1>2, <3>2, <4>1, UnloadedIsGood
    <3>4. Good(lb', rows', data', dirty')
      BY <1>1, <3>1, <3>3
    <3>5. IInv'
      BY <1>1, <1>2, <2>2, <2>3, <3>1, <3>3, <3>4, IInvSays, RunningStep
    <3>6. \A j \in Ids : j # i => data'[j] = data[j]
      BY <1>2, <3>1 DEF Datas
    <3> QED
      BY <2>3, <2>4, <3>5, <3>6
  <2>5. CASE ~o.ok
    <3>1. dirty' = dirty /\ saveFailed' = saveFailed \union {i} /\ data' = data
      BY <1>3, <2>1, <2>5 DEF MarkSaved
    <3>2. Good(lb', rows', data', dirty')
      BY <1>1, <2>3, <2>5, <3>1
    <3>3. data' \in Datas /\ saveFailed' \subseteq dirty'
      BY <1>2, <1>3, <3>1
    <3>4. IInv'
      BY <1>1, <2>2, <2>3, <3>2, <3>3, IInvSays, RunningStep
    <3> QED
      BY <3>1, <3>4
  <2> QED
    BY <2>3, <2>4, <2>5
<1>4. CASE i \notin dirty
  <2>1. /\ lb' = FillMissing(lb, i, data[i]) /\ data' = [data EXCEPT ![i] = Stub]
        /\ UNCHANGED <<loadFailed, dirty, saveFailed>>
    BY <1>2, <1>4 DEF EvictSession
  <2>2. data[i] = ContentOf(lb, data, i)
    BY <1>1 DEF ContentOf
  <2>3. lb' \in Books /\ Good(lb', rows, data, dirty)
    BY <1>1, <1>2, <2>1, <2>2, FillMissingIsGood
  <2>4. data' \in Datas /\ Good(lb', rows, data', dirty) /\ InFile(lb', i, data[i])
    BY <1>1, <1>2, <1>4, <2>1, <2>3, UnloadedIsGood
  <2>5. Good(lb', rows', data', dirty')
    BY <1>1, <2>1, <2>4
  <2>6. IInv'
    BY <1>1, <1>2, <2>1, <2>3, <2>4, <2>5, IInvSays, RunningStep
  <2>7. \A j \in Ids : j # i => data'[j] = data[j]
    BY <1>2, <2>1 DEF Datas
  <2> QED
    BY <2>4, <2>6, <2>7
<1> QED
  BY <1>3, <1>4

LEMMA RemoveSessionGood ==
  ASSUME Faultless, IInv, NEW i \in Ids, RemoveSession(i)
  PROVE  IInv'
<1>1. /\ Running /\ i \in rows /\ UNCHANGED <<locked, bulk, mode, rest>>
      /\ rows' = rows \ {i} /\ data' = [data EXCEPT ![i] = Stub] /\ loadFailed' = {}
      /\ dirty' = dirty \ {i} /\ saveFailed' = saveFailed \ {i}
  BY IInvSays DEF RemoveSession
<1>2. lb \in Books /\ InMemory(lb, rows, data, dirty) /\ data \in Datas
  BY IInvSays DEF Good
<1>. DEFINE gone == IF Readable(i) THEN Forgotten(lb, i) ELSE lb
<1>3. lb' = Flushed(gone)
  BY DEF RemoveSession, Faultless
<1>4. Readable(i) <=> Known(lb, i)
  BY <1>2, KnownHaveFiles, IInvSays DEF Readable
<1>5. gone = IF Known(lb, i) THEN Forgotten(lb, i) ELSE lb
  BY <1>4
<1>. HIDE DEF gone
<1>6. gone \in Books /\ data' \in Datas /\ InMemory(gone, rows \ {i}, data', dirty \ {i})
  BY <1>1, <1>2, <1>5, RemovedIsGood
<1>7. lb' \in Books /\ Good(lb', rows \ {i}, data', dirty \ {i})
  BY <1>3, <1>6, FlushedIsGood
<1>8. Good(lb', rows', data', dirty')
  BY <1>1, <1>7
<1> QED
  BY <1>1, <1>6, <1>7, <1>8, IInvSays, RunningStep

\* What a step that changes only the logbook and the queue has to show.
LEMMA BookStep ==
  ASSUME IInv, Running, UNCHANGED <<locked, rowVars, mode, rest>>,
         lb' \in Books, Good(lb', rows, data, dirty), bulk' \in Seq(Edits)
  PROVE  IInv'
<1>1. rows' = rows /\ data' = data /\ dirty' = dirty /\ loadFailed' = {} /\ saveFailed' \subseteq dirty' /\ data' \in Datas
  BY IInvSays DEF rowVars
<1>2. Good(lb', rows', data', dirty')
  BY <1>1
<1> QED
  BY <1>1, <1>2, RunningStep

LEMMA SetColumnsGood ==
  ASSUME Faultless, IInv, NEW E \in Layouts, SetColumns(E)
  PROVE  IInv'
<1>1. Running /\ UNCHANGED <<locked, rowVars, bulk, mode, rest>>
  BY DEF SetColumns
<1>2. E \in SUBSET Columns
  BY LogbookAssumption
<1>3. lb' \in Books /\ Good(lb', rows, data, dirty)
  <2>1. CASE rows = {}
    <3>1. lb' = Recomputed(E)
      BY <2>1 DEF SetColumns
    <3> QED
      BY <1>2, <2>1, <3>1, IInvSays, NoRowsIsGood
  <2>2. CASE rows # {}
    <3>1. lb' = Flushed(Recomputed(E))
      BY <2>2 DEF SetColumns, Faultless
    <3>2. Recomputed(E) \in Books /\ InMemory(Recomputed(E), rows, data, dirty)
      BY <1>2, IInvSays, RecomputedIsGood DEF Good
    <3> QED
      BY <3>1, <3>2, IInvSays, FlushedIsGood
  <2> QED
    BY <2>1, <2>2
<1> QED
  BY <1>1, <1>3, IInvSays, BookStep

LEMMA ChangeEnvironmentGood ==
  ASSUME IInv, NEW e \in Environments, ChangeEnvironment(e)
  PROVE  IInv'
<1>1. Running /\ UNCHANGED <<locked, rowVars, bulk, mode, rest>> /\ lb' = Discarded(e)
  BY DEF ChangeEnvironment
<1>2. lb' \in Books /\ Good(lb', rows, data, dirty)
  BY <1>1, IInvSays, DiscardedIsGood
<1> QED
  BY <1>1, <1>2, IInvSays, BookStep

LEMMA StartBulkEditGood ==
  ASSUME IInv, NEW i \in Ids, NEW a \in Attributes, StartBulkEdit(i, a)
  PROVE  IInv'
<1>1. /\ Running /\ i \in rows /\ UNCHANGED <<locked, rowVars, mode, rest>>
      /\ bulk' = Append(bulk, [id |-> i, attr |-> a]) /\ lb' = Invalidate(lb, i, a)
  BY DEF StartBulkEdit
<1>2. lb' \in Books /\ RowIsMarked(lb', lb, i)
  BY <1>1, IInvSays, InvalidateDoes
<1>3. Good(lb', rows, data, dirty)
  BY <1>1, <1>2, IInvSays, MarkedIsGood
<1>4. [id |-> i, attr |-> a] \in Edits
  BY DEF Edits
<1>5. bulk' \in Seq(Edits)
  BY <1>1, <1>4, IInvSays, AppendProperties
<1> QED
  BY <1>1, <1>2, <1>3, <1>5, BookStep

LEMMA FlushStepGood ==
  ASSUME IInv, CancelBulkEdit \/ CancelColumnWorker
  PROVE  IInv'
<1>1. Running /\ UNCHANGED <<locked, rowVars, mode, rest>> /\ lb' \in FlushOutcomes(lb) /\ bulk' \in {bulk, << >>}
  BY DEF CancelBulkEdit, CancelColumnWorker
<1>2. lb' \in Books /\ Good(lb', rows, data, dirty)
  BY <1>1, IInvSays, FlushOutcomeIsGood
<1>3. bulk' \in Seq(Edits)
  BY <1>1, IInvSays, EmptySeq
<1> QED
  BY <1>1, <1>2, <1>3, BookStep

\* An attempt to save row i, and the flush that may follow it.
LEMMA SaveThenFlush ==
  ASSUME NEW b \in Books, NEW R, NEW d \in Datas, NEW q, Good(b, R, d, q), NEW i \in q,
         NEW o \in SaveOutcomes(b, d[i]), NEW x \in FlushOutcomes(AfterSave(i, d[i], o))
  PROVE  /\ x \in Books /\ o.ok \in BOOLEAN
         /\ o.ok => Good(x, R, d, q \ {i}) /\ InFile(x, i, d[i])
         /\ ~o.ok => Good(x, R, d, q)
<1>. DEFINE y == AfterSave(i, d[i], o)
<1>1. /\ y \in Books /\ o.ok \in BOOLEAN
      /\ Good(y, R, d, IF o.ok THEN q \ {i} ELSE q)
      /\ o.ok => InFile(y, i, d[i])
  BY AttemptIsGood
<1>. HIDE DEF y
<1>2. x \in FlushOutcomes(y)
  BY DEF y
<1>3. x.files = y.files /\ x.uuidOf = y.uuidOf
  BY <1>1, <1>2, FlushedFields DEF FlushOutcomes
<1>4. CASE o.ok
  <2>1. Good(y, R, d, q \ {i})
    BY <1>1, <1>4
  <2>2. x \in Books /\ Good(x, R, d, q \ {i})
    BY <1>1, <1>2, <2>1, FlushOutcomeIsGood
  <2>3. InFile(x, i, d[i])
    BY <1>1, <1>3, <1>4 DEF InFile, Known, FileOf
  <2> QED
    BY <1>1, <1>4, <2>2, <2>3
<1>5. CASE ~o.ok
  <2>1. Good(y, R, d, q)
    BY <1>1, <1>5
  <2>2. x \in Books /\ Good(x, R, d, q)
    BY <1>1, <1>2, <2>1, FlushOutcomeIsGood
  <2> QED
    BY <1>1, <1>5, <2>2
<1> QED
  BY <1>1, <1>4, <1>5

LEMMA SaveStepGood ==
  ASSUME IInv, SaveStep
  PROVE  IInv'
<1>. DEFINE i == First(SaveWork)
<1>1. Running /\ SaveWork # {} /\ UNCHANGED <<locked, rows, data, loadFailed, bulk, mode, rest>>
  BY DEF SaveStep
<1>2. PICK o \in SaveOutcomes(lb, data[i]) :
        /\ MarkSaved(i, o)
        /\ lb' \in IF SaveWork = {i} THEN FlushOutcomes(AfterSave(i, data[i], o)) ELSE {AfterSave(i, data[i], o)}
  BY DEF SaveStep
<1>3. SaveWork \in SUBSET Ids
  BY IInvSays DEF SaveWork
<1>4. i \in SaveWork
  BY <1>1, <1>3, FirstIsIn
<1>. HIDE DEF i
<1>5. i \in dirty
  BY <1>4 DEF SaveWork
<1>6. lb' \in FlushOutcomes(AfterSave(i, data[i], o))
  BY <1>2 DEF FlushOutcomes
<1>7. /\ lb' \in Books /\ o.ok \in BOOLEAN
      /\ o.ok => Good(lb', rows, data, dirty \ {i})
      /\ ~o.ok => Good(lb', rows, data, dirty)
  BY <1>5, <1>6, IInvSays, SaveThenFlush
<1>8. /\ o.ok => dirty' = dirty \ {i} /\ saveFailed' = saveFailed \ {i}
      /\ ~o.ok => dirty' = dirty /\ saveFailed' = saveFailed \union {i}
  BY <1>2, <1>5 DEF MarkSaved
<1>9. Good(lb', rows', data', dirty')
  BY <1>1, <1>7, <1>8
<1>10. saveFailed' \subseteq dirty' /\ loadFailed' = {} /\ data' \in Datas /\ bulk' \in Seq(Edits)
  BY <1>1, <1>5, <1>7, <1>8, IInvSays
<1> QED
  BY <1>1, <1>7, <1>9, <1>10, RunningStep

LEMMA TailIsQueue ==
  ASSUME NEW q \in Seq(Edits), q # << >>
  PROVE  Tail(q) \in Seq(Edits) /\ Head(q) \in Edits
BY HeadTailProperties

LEMMA BulkSkipGood ==
  ASSUME IInv, BulkSkip
  PROVE  IInv'
<1>1. /\ Running /\ bulk # << >> /\ UNCHANGED <<locked, rowVars, mode, rest>>
      /\ bulk' = Tail(bulk) /\ lb' \in FlushOutcomes(lb)
  BY DEF BulkSkip, BulkTurn, BulkWork, BulkDone, FlushOutcomes
<1>2. lb' \in Books /\ Good(lb', rows, data, dirty)
  BY <1>1, IInvSays, FlushOutcomeIsGood
<1>3. bulk' \in Seq(Edits)
  BY <1>1, IInvSays, TailIsQueue
<1> QED
  BY <1>1, <1>2, <1>3, BookStep

LEMMA BulkEditLoadedGood ==
  ASSUME IInv, BulkEditLoaded
  PROVE  IInv'
<1>. DEFINE i == Head(bulk).id
            a == Head(bulk).attr
<1>1. /\ Running /\ bulk # << >> /\ UNCHANGED <<locked, rows, loadFailed, mode, rest>>
      /\ i \in rows /\ data[i] # Stub
  BY DEF BulkEditLoaded, BulkTurn, BulkWork, Loaded
<1>2. PICK content \in Edited(data[i], a) :
        /\ data' = [data EXCEPT ![i] = content]
        /\ \E o \in SaveOutcomes(Invalidate(lb, i, a), content) :
             MarkSaved(i, o) /\ BulkDone(Tail(bulk), AfterSave(i, content, o))
  BY DEF BulkEditLoaded
<1>3. PICK o \in SaveOutcomes(Invalidate(lb, i, a), content) :
        MarkSaved(i, o) /\ BulkDone(Tail(bulk), AfterSave(i, content, o))
  BY <1>2
<1>4. a \in Attributes /\ Tail(bulk) \in Seq(Edits)
  BY <1>1, IInvSays, TailIsQueue DEF Edits
<1>5. i \in Ids /\ data \in Datas /\ lb \in Books /\ Good(lb, rows, data, dirty) /\ saveFailed \subseteq dirty
  BY <1>1, IInvSays
<1>. HIDE DEF i, a
<1>6. Invalidate(lb, i, a) \in Books /\ data' \in Datas /\ Good(Invalidate(lb, i, a), rows, data', dirty \union {i})
  <2>1. /\ i \in rows /\ data[i] # Stub /\ data' = [data EXCEPT ![i] = content]
        /\ content \in Edited(data[i], a)
    BY <1>2, <1>1
  <2>2. Invalidate(lb, i, a) \in Books
    BY <1>4, <1>5, InvalidateDoes
  <2>3. data' \in Datas
    BY <1>4, <1>5, <2>1, EditIsGood
  <2>4. Good(Invalidate(lb, i, a), rows, data', dirty \union {i})
    BY <1>4, <1>5, <2>1, EditIsGood
  <2> QED
    BY <2>2, <2>3, <2>4
<1>7. data'[i] = content
  BY <1>2, <1>5 DEF Datas
<1>8. bulk' = Tail(bulk) /\ lb' \in FlushOutcomes(AfterSave(i, data'[i], o))
  BY <1>3, <1>7 DEF BulkDone, FlushOutcomes
<1>9. o \in SaveOutcomes(Invalidate(lb, i, a), data'[i])
  BY <1>7
<1>10. /\ lb' \in Books /\ o.ok \in BOOLEAN
       /\ o.ok => Good(lb', rows, data', (dirty \union {i}) \ {i})
       /\ ~o.ok => Good(lb', rows, data', dirty \union {i})
  <2>1. i \in dirty \union {i}
    OBVIOUS
  <2> QED
    BY <1>6, <1>8, <1>9, <2>1, SaveThenFlush
<1>11. (dirty \union {i}) \ {i} = dirty \ {i}
  OBVIOUS
<1>12. /\ o.ok => dirty' = dirty \ {i} /\ saveFailed' = saveFailed \ {i}
       /\ ~o.ok => dirty' = dirty \union {i} /\ saveFailed' = saveFailed \union {i}
  BY <1>3 DEF MarkSaved
<1>13. Good(lb', rows', data', dirty')
  BY <1>1, <1>10, <1>11, <1>12
<1>14. saveFailed' \subseteq dirty' /\ loadFailed' = {} /\ bulk' \in Seq(Edits)
  BY <1>1, <1>4, <1>5, <1>8, <1>10, <1>12, IInvSays
<1> QED
  BY <1>1, <1>6, <1>10, <1>13, <1>14, RunningStep

\* A stub that is edited is a stub again, unless it could not be saved.
LEMMA BulkEditStubDoes ==
  ASSUME IInv, BulkEditStub
  PROVE  IInv' /\ \A j \in Ids : data[j] # Stub => data'[j] = data[j]
<1>. DEFINE i == Head(bulk).id
            a == Head(bulk).attr
            r == IdAfterLoad(i)
            q == Renamed(bulk, i)
            b == Invalidate(LoadedBook(i), r, a)
<1>1. /\ Running /\ bulk # << >> /\ UNCHANGED <<locked, loadFailed, mode, rest>>
      /\ i \in rows /\ data[i] = Stub /\ rows' = RowsAfterLoad(i)
  BY DEF BulkEditStub, BulkTurn, BulkWork, Loaded
<1>2. PICK content \in Edited(FileOf(lb, i), a) :
        \E o \in SaveOutcomes(b, content) :
          /\ BulkDone(Tail(q), AfterSave(r, content, o))
          /\ data' = IF o.ok THEN data ELSE [data EXCEPT ![r] = content]
          /\ MarkSaved(r, o)
  BY DEF BulkEditStub
<1>3. PICK o \in SaveOutcomes(b, content) :
        /\ BulkDone(Tail(q), AfterSave(r, content, o))
        /\ data' = IF o.ok THEN data ELSE [data EXCEPT ![r] = content]
        /\ MarkSaved(r, o)
  BY <1>2
<1>4. a \in Attributes
  BY <1>1, IInvSays, TailIsQueue DEF Edits
<1>5. Tail(q) \in Seq(Edits)
  BY <1>1, RenamedIsQueue, TailIsQueue
<1>6. /\ LoadedBook(i) \in Books /\ Read(i) \in Datas /\ Good(LoadedBook(i), rows', Read(i), dirty)
      /\ r \in rows' /\ r \in Ids /\ Read(i)[r] = FileOf(lb, i) /\ Read(i)[r] # Stub /\ data[r] = Stub
      /\ Read(i) = [data EXCEPT ![r] = FileOf(lb, i)]
  BY <1>1, LoadIsGood DEF Read
<1>. DEFINE d == [data EXCEPT ![r] = content]
<1>. HIDE DEF i, a, r, q
<1>7. data \in Datas /\ saveFailed \subseteq dirty
  BY IInvSays
<1>8. d = [Read(i) EXCEPT ![r] = content]
  BY <1>6, <1>7 DEF Datas
<1>9. content \in Edited(Read(i)[r], a)
  BY <1>6
<1>10. d[r] = content /\ [d EXCEPT ![r] = Stub] = data /\ \A j \in Ids : j # r => d[j] = data[j]
  BY <1>6, <1>7 DEF Datas
<1>. HIDE DEF d
<1>11. b = Invalidate(LoadedBook(i), r, a)
  OBVIOUS
<1>. HIDE DEF b
<1>12. b \in Books /\ d \in Datas /\ Good(b, rows', d, dirty \union {r})
  <2>1. /\ LoadedBook(i) \in Books /\ Read(i) \in Datas /\ Good(LoadedBook(i), rows', Read(i), dirty)
        /\ r \in rows' /\ Read(i)[r] # Stub
    BY <1>6
  <2>2. b \in Books
    BY <1>4, <1>6, <1>11, InvalidateDoes
  <2>3. d \in Datas
    BY <1>4, <1>8, <1>9, <1>11, <2>1, EditIsGood
  <2>4. Good(b, rows', d, dirty \union {r})
    BY <1>4, <1>8, <1>9, <1>11, <2>1, EditIsGood
  <2> QED
    BY <2>2, <2>3, <2>4
<1>13. bulk' = Tail(q) /\ lb' \in FlushOutcomes(AfterSave(r, d[r], o)) /\ o \in SaveOutcomes(b, d[r])
  BY <1>3, <1>10 DEF BulkDone, FlushOutcomes
<1>14. /\ lb' \in Books /\ o.ok \in BOOLEAN
       /\ o.ok => Good(lb', rows', d, (dirty \union {r}) \ {r})
       /\ ~o.ok => Good(lb', rows', d, dirty \union {r})
  <2>1. r \in dirty \union {r}
    OBVIOUS
  <2> QED
    BY <1>12, <1>13, <2>1, SaveThenFlush
<1>15. CASE o.ok
  <2>1. dirty' = (dirty \union {r}) \ {r} /\ saveFailed' = saveFailed \ {r} /\ data' = data
    BY <1>3, <1>15 DEF MarkSaved
  <2>2. data \in Datas /\ Good(lb', rows', data, (dirty \union {r}) \ {r})
    <3>1. d[r] # Stub /\ data = [d EXCEPT ![r] = Stub] /\ r \notin (dirty \union {r}) \ {r}
      <4>1. content # Stub
        <5>1. Read(i)[r] \in Contents
          BY <1>6 DEF Datas
        <5>2. content \in Contents
          BY <1>4, <1>9, <5>1, EditedDoes
        <5> QED
          BY <5>2, NothingIsSomething
      <4> QED
        BY <1>10, <4>1
    <3>2. Good(lb', rows', d, (dirty \union {r}) \ {r}) /\ lb' \in Books
      BY <1>14, <1>15
    <3> QED
      BY <1>6, <1>12, <3>1, <3>2, UnloadedIsGood
  <2>3. Good(lb', rows', data', dirty')
    BY <2>1, <2>2
  <2>4. saveFailed' \subseteq dirty' /\ loadFailed' = {} /\ bulk' \in Seq(Edits) /\ data' \in Datas
    BY <1>1, <1>5, <1>7, <1>13, <2>1, IInvSays
  <2>5. IInv'
    BY <1>1, <1>14, <2>3, <2>4, RunningStep
  <2> QED
    BY <2>1, <2>5
<1>16. CASE ~o.ok
  <2>1. dirty' = dirty \union {r} /\ saveFailed' = saveFailed \union {r} /\ data' = d
    BY <1>3, <1>16 DEF MarkSaved, d
  <2>2. Good(lb', rows', data', dirty')
    BY <1>14, <1>16, <2>1
  <2>3. saveFailed' \subseteq dirty' /\ loadFailed' = {} /\ bulk' \in Seq(Edits) /\ data' \in Datas
    BY <1>1, <1>5, <1>7, <1>12, <1>13, <2>1, IInvSays
  <2>4. IInv'
    BY <1>1, <1>14, <2>2, <2>3, RunningStep
  <2> QED
    BY <1>6, <1>10, <2>1, <2>4
<1> QED
  BY <1>14, <1>15, <1>16

LEMMA ColumnStepGood ==
  ASSUME IInv, ColumnStep
  PROVE  IInv'
<1>. DEFINE i == First(ColumnWork)
<1>1. /\ Running /\ ColumnWork # {}
      /\ UNCHANGED <<locked, data, loadFailed, dirty, saveFailed, bulk, mode, rest>>
  BY DEF ColumnStep, ColumnTurn
<1>2. \/ data[i] # Stub /\ ColumnDone(rows, FillMissing(lb, i, data[i])) /\ rows' = rows
      \/ /\ data[i] = Stub
         /\ ColumnDone(RowsAfterLoad(i), FillMissing(LoadedBook(i), IdAfterLoad(i), FileOf(lb, i)))
         /\ rows' = RowsAfterLoad(i)
      \/ data[i] = Stub /\ ~Readable(i)
  BY DEF ColumnStep, Loaded
<1>3. ColumnWork \in SUBSET Ids
  BY IInvSays DEF ColumnWork
<1>4. i \in ColumnWork
  BY <1>1, <1>3, FirstIsIn
<1>. HIDE DEF i
<1>5. i \in rows
  BY <1>4 DEF ColumnWork
<1>6. lb' \in Books /\ Good(lb', rows', data, dirty)
  <2>1. CASE data[i] # Stub
    <3>. DEFINE b == FillMissing(lb, i, data[i])
    <3>1. data[i] = ContentOf(lb, data, i)
      BY <2>1 DEF ContentOf
    <3>2. b \in Books /\ Good(b, rows, data, dirty)
      BY <1>5, <3>1, IInvSays, FillMissingIsGood
    <3>. HIDE DEF b
    <3>3. lb' \in FlushOutcomes(b) /\ rows' = rows
      BY <1>2, <2>1 DEF ColumnDone, FlushOutcomes, b
    <3> QED
      BY <3>2, <3>3, IInvSays, FlushOutcomeIsGood
  <2>2. CASE data[i] = Stub
    <3>. DEFINE r == IdAfterLoad(i)
                x == LoadedBook(i)
                b == FillMissing(x, r, FileOf(lb, i))
    <3>1. Readable(i)
      BY <1>5, <2>2, StubIsReadable
    <3>2. /\ x \in Books /\ Good(x, RowsAfterLoad(i), data, dirty)
          /\ r \in RowsAfterLoad(i) /\ data[r] = Stub /\ FileOf(x, r) = FileOf(lb, i)
      BY <1>5, <2>2, LoadDoes
    <3>3. FileOf(lb, i) = ContentOf(x, data, r)
      BY <3>2 DEF ContentOf
    <3>4. b = FillMissing(x, r, ContentOf(x, data, r))
      BY <3>3
    <3>. HIDE DEF x, r
    <3>5. b \in Books /\ Good(b, RowsAfterLoad(i), data, dirty)
      BY <3>2, <3>4, IInvSays, FillMissingIsGood
    <3>6. lb' \in FlushOutcomes(b) /\ rows' = RowsAfterLoad(i)
      BY <1>2, <2>2, <3>1 DEF ColumnDone, FlushOutcomes, x, r
    <3>. HIDE DEF b
    <3> QED
      BY <3>5, <3>6, IInvSays, FlushOutcomeIsGood
  <2> QED
    BY <2>1, <2>2
<1>7. /\ loadFailed' = {} /\ saveFailed' \subseteq dirty' /\ bulk' \in Seq(Edits) /\ data' \in Datas
      /\ Good(lb', rows', data', dirty')
  BY <1>1, <1>6, IInvSays
<1> QED
  BY <1>1, <1>6, <1>7, RunningStep

LEMMA CloseGood ==
  ASSUME IInv, Close
  PROVE  IInv'
<1>1. Running /\ UNCHANGED <<lb, locked, rowVars>> /\ mode' = "closing" /\ rest' = dirty /\ bulk' = << >>
  BY DEF Close
<1>2. /\ lb' = lb /\ rows' = rows /\ data' = data /\ dirty' = dirty
      /\ loadFailed' = loadFailed /\ saveFailed' = saveFailed /\ locked' = locked
  BY <1>1 DEF rowVars
<1>3. ClosingIsWhole'
  BY <1>1, <1>2 DEF ClosingIsWhole
<1>4. bulk' \in Seq(Edits)
  BY <1>1, EmptySeq
<1> QED
  BY <1>2, <1>3, <1>4 DEF IInv

LEMMA CloseSaveGood ==
  ASSUME IInv, CloseSave
  PROVE  IInv'
<1>. DEFINE i == First(rest)
<1>1. mode = "closing" /\ rest # {} /\ rest' = rest \ {i} /\ UNCHANGED <<locked, rows, data, loadFailed, bulk, mode>>
  BY DEF CloseSave
<1>2. PICK o \in SaveOutcomes(lb, data[i]) : lb' = AfterSave(i, data[i], o) /\ MarkSaved(i, o)
  BY DEF CloseSave
<1>3. rest \subseteq dirty /\ dirty \subseteq Ids /\ dirty \ saveFailed \subseteq rest
  BY <1>1, IInvSays DEF IInv, ClosingIsWhole
<1>4. i \in rest
  BY <1>1, <1>3, FirstIsIn
<1>. HIDE DEF i
<1>5. i \in dirty
  BY <1>3, <1>4
<1>6. lb' \in FlushOutcomes(AfterSave(i, data[i], o))
  BY <1>2 DEF FlushOutcomes
<1>7. /\ lb' \in Books /\ o.ok \in BOOLEAN
      /\ o.ok => Good(lb', rows, data, dirty \ {i})
      /\ ~o.ok => Good(lb', rows, data, dirty)
  BY <1>5, <1>6, IInvSays, SaveThenFlush
<1>8. /\ o.ok => dirty' = dirty \ {i} /\ saveFailed' = saveFailed \ {i}
      /\ ~o.ok => dirty' = dirty /\ saveFailed' = saveFailed \union {i}
  BY <1>2, <1>5 DEF MarkSaved
<1>9. Good(lb', rows', data', dirty')
  BY <1>1, <1>7, <1>8
<1>10. saveFailed' \subseteq dirty' /\ rest' \subseteq dirty' /\ dirty' \ saveFailed' \subseteq rest'
  BY <1>1, <1>3, <1>5, <1>7, <1>8, IInvSays
<1>11. ClosingIsWhole'
  BY <1>1, <1>10 DEF ClosingIsWhole
<1> QED
  BY <1>1, <1>7, <1>9, <1>10, <1>11, IInvSays DEF IInv

LEMMA CloseFlushGood ==
  ASSUME IInv, CloseFlush
  PROVE  IInv'
<1>1. /\ mode = "closing" /\ rest = {} /\ mode' = "closed" /\ UNCHANGED <<locked, rowVars, bulk, rest>>
      /\ lb' \in FlushOutcomes(lb)
  BY DEF CloseFlush, FlushOutcomes
<1>2. /\ rows' = rows /\ data' = data /\ dirty' = dirty
      /\ loadFailed' = loadFailed /\ saveFailed' = saveFailed /\ locked' = locked
  BY <1>1 DEF rowVars
<1>3. lb' \in Books /\ Good(lb', rows, data, dirty)
  BY <1>1, IInvSays, FlushOutcomeIsGood
<1>4. ClosingIsWhole'
  BY <1>1, <1>2 DEF IInv, ClosingIsWhole
<1>5. Good(lb', rows', data', dirty')
  BY <1>2, <1>3
<1> QED
  BY <1>1, <1>2, <1>3, <1>4, <1>5 DEF IInv

LEMMA RestartGood ==
  ASSUME IInv, NEW e \in Environments, Restart(e)
  PROVE  IInv'
<1>1. /\ lb' = Opened(lb, e) /\ rows' = {i \in Ids : lb'.uuidOf[i] # NoUuid} /\ data' = [i \in Ids |-> Stub]
      /\ loadFailed' = {} /\ dirty' = {} /\ saveFailed' = {} /\ bulk' = << >> /\ mode' = "running" /\ rest' = {}
      /\ locked' = locked
  BY DEF Restart
<1>2. FilesAreNamed(lb) /\ IndexIsTrue(lb) /\ lb \in Books
  BY IInvSays DEF Good, InMemory, OnDisk
<1>3. lb' \in Books /\ data' \in Datas /\ Good(lb', rows', data', {})
  BY <1>1, <1>2, OpenedIsGood
<1>4. ClosingIsWhole'
  BY <1>1 DEF ClosingIsWhole
<1>5. Good(lb', rows', data', dirty') /\ bulk' \in Seq(Edits)
  BY <1>1, <1>3, EmptySeq
<1> QED
  BY <1>1, <1>3, <1>4, <1>5, IInvSays DEF IInv

LEMMA NextGood ==
  ASSUME Faultless, IInv, [Next]_vars
  PROVE  IInv'
<1>1. CASE UserCalls
  <2>1. ASSUME NEW i \in Ids, NEW a \in Attributes
        PROVE  ~UpdateStub(i, a)
    BY DEF UpdateStub, Faultless
  <2>2. ASSUME NEW u \in Uuids
        PROVE  ~LockFile(u)
    BY DEF LockFile, Faultless
  <2> QED
    BY <1>1, <2>1, <2>2, LoadSessionGood, EvictSessionDoes, RemoveSessionGood, EditGood, StartBulkEditGood,
       ImportNewGood, ImportMergeGood, SetColumnsGood, ChangeEnvironmentGood, FlushStepGood, CloseGood, RestartGood
       DEF UserCalls
<1>2. CASE Tick
  BY <1>2, SaveStepGood, BulkSkipGood, BulkEditLoadedGood, BulkEditStubDoes, ColumnStepGood DEF Tick
<1>3. CASE Closing
  BY <1>3, CloseSaveGood, CloseFlushGood DEF Closing
<1>4. CASE UNCHANGED vars
  <2>1. /\ UNCHANGED <<lb, locked, rows, data, loadFailed, dirty, saveFailed, bulk, mode, rest>>
    BY <1>4 DEF vars, rowVars
  <2>2. ClosingIsWhole'
    BY <2>1 DEF IInv, ClosingIsWhole
  <2> QED
    BY <2>1, <2>2 DEF IInv
<1> QED
  BY <1>1, <1>2, <1>3, <1>4 DEF Next

\* The steps that load and edit make no stub of a row that is loaded.
LEMMA EditsKeepRows ==
  ASSUME Faultless, IInv, NEW j \in Ids, data[j] # Stub,
         \/ \E i \in Ids : LoadSession(i)
         \/ \E i \in Ids, a \in Attributes : Edit(i, a)
         \/ \E s \in Sessions : ImportNew(s)
         \/ \E s \in Sessions, a \in Attributes : ImportMerge(s, a)
         \/ BulkEditLoaded
  PROVE  data'[j] # Stub
<1>1. data \in Datas
  BY IInvSays
<1>2. ASSUME NEW i \in Ids, LoadSession(i)
      PROVE  data'[j] # Stub
  <2>1. i \in rows /\ data[i] = Stub
    BY <1>2 DEF LoadSession, Loaded
  <2>2. data' = Read(i)
    BY <1>2, <2>1, StubIsReadable DEF LoadSession, Read
  <2> QED
    BY <2>1, <2>2, LoadIsGood
<1>3. ASSUME NEW i \in Ids, NEW c, data' = [data EXCEPT ![i] = c], c \in Contents
      PROVE  data'[j] # Stub
  BY <1>1, <1>3, NothingIsSomething DEF Datas
<1>4. ASSUME NEW i \in Ids, NEW a \in Attributes, data[i] # Stub, NEW c \in Edited(data[i], a)
      PROVE  c \in Contents
  <2>1. data[i] \in Contents
    BY <1>1, <1>4 DEF Datas
  <2> QED
    BY <2>1, EditedDoes
<1>5. ASSUME NEW i \in Ids, NEW a \in Attributes, Edit(i, a)
      PROVE  data'[j] # Stub
  BY <1>3, <1>4, <1>5 DEF Edit, Loaded
<1>6. ASSUME NEW s \in Sessions, ImportNew(s)
      PROVE  data'[j] # Stub
  BY <1>3, <1>6 DEF ImportNew, Ids
<1>7. ASSUME NEW s \in Sessions, NEW a \in Attributes, ImportMerge(s, a)
      PROVE  data'[j] # Stub
  <2>1. s \in Ids /\ s \in rows
    BY <1>7 DEF ImportMerge, Ids
  <2>2. CASE data[s] # Stub
    BY <1>3, <1>4, <1>7, <2>1, <2>2, IInvSays DEF ImportMerge, Loaded
  <2>3. CASE data[s] = Stub
    <3>1. FileOf(lb, s) \in Contents
      <4>1. Known(lb, s)
        BY <2>1, <2>3, IInvSays DEF Good, InMemory, RowsAreKnown
      <4> QED
        BY <2>1, <4>1, IInvSays, KnownHaveFiles DEF Good
    <3>2. PICK c \in Edited(FileOf(lb, s), a) : data' = [data EXCEPT ![s] = c]
      BY <1>7, <2>3 DEF ImportMerge, Loaded
    <3>3. c \in Contents
      BY <3>1, EditedDoes
    <3> QED
      BY <1>3, <2>1, <3>2, <3>3
  <2> QED
    BY <2>2, <2>3
<1>8. ASSUME BulkEditLoaded
      PROVE  data'[j] # Stub
  <2>. DEFINE i == Head(bulk).id
              a == Head(bulk).attr
  <2>1. PICK c \in Edited(data[i], a) : data' = [data EXCEPT ![i] = c]
    BY <1>8 DEF BulkEditLoaded
  <2>2. i \in rows /\ data[i] # Stub /\ bulk # << >>
    BY <1>8 DEF BulkEditLoaded, BulkTurn, BulkWork, Loaded
  <2>3. i \in Ids /\ a \in Attributes
    BY <2>2, IInvSays, TailIsQueue DEF Edits
  <2>. HIDE DEF i, a
  <2> QED
    BY <1>3, <1>4, <2>1, <2>2, <2>3
<1> QED
  BY <1>2, <1>5, <1>6, <1>7, <1>8

\* Only an eviction, a removal or a restart makes a stub of a loaded row.
LEMMA DroppedIsSaved ==
  ASSUME Faultless, IInv, [Next]_vars, NEW j \in rows, data[j] # Stub, j \in rows', data'[j] = Stub
  PROVE  Restarted \/ InFile(lb', j, data[j])
<1>1. j \in Ids /\ data \in Datas
  BY IInvSays
<1>2. data'[j] # data[j]
  OBVIOUS
<1>3. CASE UserCalls
  <2>1. ASSUME NEW i \in Ids, EvictSession(i)
        PROVE  InFile(lb', j, data[j])
    BY <1>1, <2>1, EvictSessionDoes
  <2>2. ASSUME NEW i \in Ids, RemoveSession(i)
        PROVE  FALSE
    BY <1>1, <1>2, <2>2 DEF RemoveSession, Datas
  <2>3. ASSUME NEW i \in Ids, NEW a \in Attributes, UpdateStub(i, a)
        PROVE  FALSE
    BY <2>3 DEF UpdateStub, Faultless
  <2>4. ASSUME UNCHANGED rowVars
        PROVE  FALSE
    BY <1>2, <2>4 DEF rowVars
  <2>5. ASSUME \/ \E i \in Ids, a \in Attributes : StartBulkEdit(i, a)
               \/ \E E \in Layouts : SetColumns(E)
               \/ \E e \in Environments : ChangeEnvironment(e)
               \/ CancelBulkEdit \/ CancelColumnWorker \/ Close
               \/ \E u \in Uuids : LockFile(u)
        PROVE  UNCHANGED rowVars
    BY <2>5 DEF StartBulkEdit, SetColumns, ChangeEnvironment, CancelBulkEdit, CancelColumnWorker, Close, LockFile
  <2> QED
    BY <1>1, <1>3, <2>1, <2>2, <2>3, <2>4, <2>5, EditsKeepRows DEF UserCalls, Restarted
<1>4. CASE Tick
  <2>1. CASE BulkEditStub
    BY <1>1, <1>2, <2>1, BulkEditStubDoes
  <2>2. CASE SaveStep \/ BulkSkip \/ ColumnStep
    BY <1>2, <2>2 DEF SaveStep, BulkSkip, ColumnStep, rowVars
  <2> QED
    BY <1>1, <1>4, <2>1, <2>2, EditsKeepRows DEF Tick
<1>5. CASE Closing
  BY <1>2, <1>5 DEF Closing, CloseSave, CloseFlush, rowVars
<1>6. CASE UNCHANGED vars
  BY <1>2, <1>6 DEF vars, rowVars
<1> QED
  BY <1>3, <1>4, <1>5, <1>6 DEF Next

------------------------------------------------------------------------------
(* The properties                                                            *)

LEMMA IInvAgrees == IInv => ValuesAgree
<1>. SUFFICES ASSUME IInv
              PROVE  ValuesAgree
  OBVIOUS
<1>1. InMemory(lb, rows, data, dirty) /\ OnDisk(lb, rows, data) /\ lb \in Books
  BY IInvSays DEF Good
<1>2. IndexAgrees
  BY <1>1 DEF OnDisk, IndexIsTrue, IndexAgrees
<1>3. CacheAgrees
  <2>1. SUFFICES ASSUME NEW i \in rows, NEW c \in lb.enabled, lb.cached[i][c] # NoValue
                 PROVE  \/ Loaded(i) /\ lb.cached[i][c] = ValueOf(lb, data[i], c)
                        \/ ~Loaded(i) /\ (Readable(i) => lb.cached[i][c] = ValueOf(lb, FileOf(lb, i), c))
    BY DEF CacheAgrees
  <2>2. c \in Columns
    BY <1>1, <2>1, BookFields
  <2>3. lb.cached[i][c] = ValueOf(lb, ContentOf(lb, data, i), c)
    BY <1>1, <2>1, <2>2 DEF InMemory, CacheIsTrue
  <2> QED
    BY <2>3 DEF ContentOf, Loaded
<1>4. EditsAreMarked
  <2>1. SUFFICES ASSUME NEW i \in rows, data[i] # Stub, ~(Known(lb, i) /\ FileOf(lb, i) = data[i])
                 PROVE  /\ i \in dirty
                        /\ Known(lb, i) => \A c \in lb.enabled : FileOf(lb, i).val[c] # data[i].val[c] => Marked(i, c)
                        /\ ~Known(lb, i) => i \in lb.unsavedAll
    BY DEF EditsAreMarked, Loaded
  <2>2. i \in Ids
    BY <1>1 DEF InMemory
  <2> QED
    BY <1>1, <2>1, <2>2 DEF InMemory, ChangesAreMarked, Marked, IsMarked
<1>5. CleanIndexIsOnDisk
  BY <1>1 DEF OnDisk, CleanIsWritten, CleanIndexIsOnDisk
<1> QED
  BY <1>2, <1>3, <1>4, <1>5 DEF ValuesAgree

LEMMA IInvTyped == IInv => TypeOK
<1>. SUFFICES ASSUME IInv
              PROVE  TypeOK
  OBVIOUS
<1>1. /\ lb \in Books /\ data \in Datas /\ rows \subseteq Ids /\ dirty \subseteq rows
      /\ locked = {} /\ loadFailed = {} /\ saveFailed \subseteq dirty
      /\ \A i \in dirty : data[i] # Stub
      /\ \A i \in Ids : data[i] # Stub => i \in rows /\ i \in Sessions /\ data[i].id = i
      /\ mode \in {"running", "closing", "closed"} /\ rest \subseteq dirty
  BY IInvSays DEF IInv, ClosingIsWhole, Good, InMemory, RowsAreKnown
<1>2. DOMAIN lb = {"files", "index", "enabled", "env", "uuidOf", "cached", "unsaved",
                   "unsavedAll", "needsFlush", "indexDirty"}
  BY <1>1 DEF Books
<1>3. /\ \A u \in Uuids : lb.files[u] \in Contents \union {NoFile}
      /\ lb.env \in Environments /\ lb.enabled \subseteq Columns /\ lb.indexDirty \in BOOLEAN
      /\ \A i \in Ids : /\ lb.uuidOf[i] \in Uuids \union {NoUuid}
                        /\ lb.cached[i] \in [Columns -> Cached]
                        /\ lb.unsaved[i] \subseteq Columns
      /\ lb.unsavedAll \subseteq Ids /\ lb.needsFlush \subseteq Ids
  BY <1>1, BookFields DEF UuidMaps, ValueMaps
<1>4. \A i \in Ids : data[i] \in Shown \union {Stub} /\ (Loaded(i) => i \in rows)
  <2>1. \A x \in Contents : x \in Shown
    BY DEF Contents, Shown, Bits, Nothing
  <2> QED
    BY <1>1, <2>1 DEF Datas, Loaded
<1>5. lb.index # NoIndex => /\ lb.index.env \in Environments
                            /\ lb.index.uuidOf \in [Ids -> Uuids \union {NoUuid}]
                            /\ \A i \in Ids : lb.index.values[i] \in [Columns -> Cached]
  BY <1>1, BookFields DEF Indexes, UuidMaps, ValueMaps
<1>6. \A i \in rows : (i \in loadFailed) = (Loaded(i) /\ data[i].id = NoSession)
  BY <1>1, LogbookAssumption DEF Loaded
<1> QED
  BY <1>1, <1>2, <1>3, <1>4, <1>5, <1>6 DEF TypeOK, Loaded

LEMMA IInvKeeps == IInv => NothingIsLost
<1>. SUFFICES ASSUME IInv
              PROVE  NothingIsLost
  OBVIOUS
<1>1. InMemory(lb, rows, data, dirty)
  BY IInvSays DEF Good
<1>2. FilesAreKnown
  BY <1>1 DEF InMemory, FilesAreNamed, FilesAreKnown
<1>3. ClosedIsSaved
  <2>1. SUFFICES ASSUME mode = "closed", NEW i \in rows, data[i] # Stub, i \notin saveFailed
                 PROVE  Known(lb, i) /\ FileOf(lb, i) = data[i]
    BY DEF ClosedIsSaved, Loaded
  <2>2. i \notin dirty /\ i \in Ids
    BY <1>1, <2>1 DEF IInv, ClosingIsWhole, InMemory
  <2> QED
    BY <1>1, <2>1, <2>2 DEF InMemory, ChangesAreMarked
<1> QED
  BY <1>2, <1>3, IInvTyped DEF NothingIsLost

LEMMA IInvHolds == ASSUME Faultless PROVE Spec => []IInv
<1>1. IInv /\ [Next]_vars => IInv'
  BY NextGood
<1> QED
  BY <1>1, InitGood, PTL DEF Spec

\* index.json, the cached values and the marks of unsaved columns never disagree
\* with the session files and the sessions in memory, whichever writes fail and
\* wherever the program stops.
THEOREM ValuesAlwaysAgree == ASSUME Faultless PROVE Spec => []ValuesAgree
BY IInvHolds, IInvAgrees, PTL

\* Every session file belongs to a row, and a program that has closed has written
\* all it could.
THEOREM NothingIsEverLost == ASSUME Faultless PROVE Spec => []NothingIsLost
BY IInvHolds, IInvKeeps, PTL

\* No edit is dropped with the row that held it.
THEOREM NothingIsEverDropped == ASSUME Faultless PROVE Spec => NothingDropped
<1>1. IInv /\ [Next]_vars =>
        [\A i \in rows :
           Loaded(i) /\ i \notin loadFailed /\ i \in rows' /\ data'[i] = Stub
             => Restarted \/ (lb'.uuidOf[i] # NoUuid /\ lb'.files[lb'.uuidOf[i]] = data[i])]_vars
  BY DroppedIsSaved DEF Loaded, InFile, Known, FileOf
<1> QED
  BY <1>1, IInvHolds, PTL DEF NothingDropped, Spec

------------------------------------------------------------------------------
(* Files that are not lost. Whatever fails, no session file gets out of      *)
(* sight: files that cannot be read, removals and index writes that fail,    *)
(* and edits by the name of a stub. Of the faults that Logbook has switches  *)
(* for, none is excluded here.                                               *)

Fields == {"files", "index", "enabled", "env", "uuidOf", "cached", "unsaved",
           "unsavedAll", "needsFlush", "indexDirty"}
Files == [Uuids -> Contents \union {NoFile}]
NoNames == [i \in Ids |-> NoUuid]

\* The map from ids to files that a restart would find.
Indexed(b) == IF b.index = NoIndex THEN NoNames ELSE b.index.uuidOf

\* A map m from ids to files is sound for the files fs: a file is named once, by its
\* own name or by the SESSION_ID in it.  It need not be there.
Points(fs, m) ==
  /\ \A i, j \in Ids : m[i] = m[j] /\ m[i] # NoUuid => i = j
  /\ \A s \in Sessions : m[s] # NoUuid /\ fs[m[s]] # NoFile => fs[m[s]].id = s
  /\ \A u \in Uuids : m[u] \in {u, NoUuid}

\* The map m in memory names every file, and the map n on disk gives no file that
\* m names to another session.
Traced(fs, m, n) ==
  /\ fs \in Files /\ m \in UuidMaps /\ n \in UuidMaps
  /\ Points(fs, m) /\ Points(fs, n)
  /\ \A u \in Uuids : fs[u] # NoFile => \E i \in Ids : m[i] = u
  /\ \A i, j \in Ids : n[i] = m[j] /\ m[j] # NoUuid => i = j \/ i \in Uuids

Traces(b) == DOMAIN b = Fields /\ Traced(b.files, b.uuidOf, Indexed(b))

\* What is saved is a session, under its own id; what is not to be saved has a
\* file; and a placeholder is never to be saved.
RowsStand(b, R, d, q, f) ==
  /\ R \subseteq Ids /\ q \subseteq R /\ f \subseteq R /\ q \intersect f = {}
  /\ DOMAIN d = Ids
  /\ \A i \in f : DOMAIN d[i] = {"id", "val"}
  /\ \A i \in q : d[i] # Stub
  /\ \A i \in Ids : d[i] # Stub /\ i \notin f =>
       i \in R /\ d[i] \in Contents /\ (i \in Sessions => d[i].id = i)
  /\ \A i \in R : i \notin q \/ i \in Uuids => Known(b, i)

RestStands == rest \subseteq dirty /\ (Running => rest = {})

FInv == Traces(lb) /\ RowsStand(lb, rows, data, dirty, loadFailed) /\ RestStands

------------------------------------------------------------------------------
(* Maps and files                                                            *)

LEMMA IdsAreTwo ==
  /\ \A i \in Ids : i \in Sessions \/ i \in Uuids
  /\ \A i \in Sessions : i \in Ids /\ i \notin Uuids
  /\ \A i \in Uuids : i \in Ids /\ i \notin Sessions
  /\ NoUuid \notin Uuids
BY LogbookAssumption DEF Ids

\* A flush puts the map in memory on disk.
LEMMA FlushTraces ==
  ASSUME NEW fs, NEW m, NEW n, Traced(fs, m, n)
  PROVE  Traced(fs, m, m)
BY DEF Traced, Points

\* A session is written to its file, or to one that neither map names.
LEMMA WriteTraces ==
  ASSUME NEW fs, NEW m, NEW n, Traced(fs, m, n), NEW y \in Contents, NEW s, s = y.id, NEW u \in Uuids,
         \/ m[s] = u
         \/ m[s] = NoUuid /\ fs[u] = NoFile /\ \A i \in Ids : m[i] # u /\ n[i] # u
  PROVE  Traced([fs EXCEPT ![u] = y], [m EXCEPT ![s] = u], n)
<1>. DEFINE gs == [fs EXCEPT ![u] = y]
            k == [m EXCEPT ![s] = u]
<1>1. fs \in Files /\ m \in UuidMaps /\ n \in UuidMaps /\ s \in Sessions /\ s \in Ids
  BY IdsAreTwo DEF Traced, Contents
<1>2. gs \in Files /\ gs[u] = y /\ \A w \in Uuids : w # u => gs[w] = fs[w]
  BY <1>1 DEF Files
<1>3. k \in UuidMaps /\ k[s] = u /\ \A i \in Ids : i # s => k[i] = m[i]
  BY <1>1 DEF UuidMaps
<1>. HIDE DEF gs, k
<1>4. u # NoUuid /\ y # NoFile
  BY IdsAreTwo, NothingIsSomething
<1>5. \A i \in Ids : i # s => m[i] # u
  BY <1>1, <1>4 DEF Traced, Points
<1>6. \A i \in Sessions : i # s => n[i] # u
  BY <1>1, <1>4, IdsAreTwo DEF Traced
<1>7. Points(gs, k)
  <2>1. \A i, j \in Ids : k[i] = k[j] /\ k[i] # NoUuid => i = j
    BY <1>3, <1>5 DEF Traced, Points
  <2>2. ASSUME NEW i \in Sessions, k[i] # NoUuid, gs[k[i]] # NoFile
        PROVE  gs[k[i]].id = i
    <3>1. CASE i = s
      BY <1>2, <1>3, <3>1
    <3>2. CASE i # s
      <4>1. k[i] = m[i] /\ m[i] # u /\ m[i] \in Uuids
        BY <1>1, <1>3, <1>5, <2>2, <3>2, IdsAreTwo DEF UuidMaps
      <4> QED
        BY <1>2, <2>2, <4>1 DEF Traced, Points
    <3> QED
      BY <3>1, <3>2
  <2>3. \A w \in Uuids : k[w] \in {w, NoUuid}
    BY <1>1, <1>3, IdsAreTwo DEF Traced, Points
  <2> QED
    BY <2>1, <2>2, <2>3 DEF Points
<1>8. Points(gs, n)
  <2>1. ASSUME NEW i \in Sessions, n[i] # NoUuid, gs[n[i]] # NoFile
        PROVE  gs[n[i]].id = i
    <3>1. n[i] \in Uuids
      BY <1>1, <2>1, IdsAreTwo DEF UuidMaps
    <3>2. CASE i = s /\ n[i] = u
      BY <1>2, <3>2
    <3>3. CASE n[i] # u
      BY <1>2, <2>1, <3>1, <3>3 DEF Traced, Points
    <3> QED
      BY <1>6, <3>2, <3>3
  <2> QED
    BY <2>1 DEF Traced, Points
<1>9. ASSUME NEW w \in Uuids, gs[w] # NoFile
      PROVE  \E i \in Ids : k[i] = w
  <2>1. CASE w = u
    BY <1>1, <1>3, <2>1
  <2>2. CASE w # u
    <3>1. PICK i \in Ids : m[i] = w
      BY <1>2, <1>9, <2>2 DEF Traced
    <3>2. i # s
      BY <2>2, <3>1, IdsAreTwo
    <3> QED
      BY <1>3, <3>1, <3>2
  <2> QED
    BY <2>1, <2>2
<1>10. ASSUME NEW i \in Ids, NEW j \in Ids, n[i] = k[j], k[j] # NoUuid
       PROVE  i = j \/ i \in Uuids
  <2>1. CASE j = s
    BY <1>3, <1>6, <1>10, <2>1, IdsAreTwo
  <2>2. CASE j # s
    BY <1>3, <1>10, <2>2 DEF Traced
  <2> QED
    BY <2>1, <2>2
<1> QED
  BY <1>1, <1>2, <1>3, <1>7, <1>8, <1>9, <1>10 DEF Traced, gs, k

\* The file of i turns out to be the session s, which has none.
LEMMA RenameTraces ==
  ASSUME NEW fs, NEW m, NEW n, Traced(fs, m, n), NEW i \in Ids, NEW s \in Sessions, i # s,
         m[i] # NoUuid, m[s] = NoUuid, fs[m[i]] # NoFile, fs[m[i]].id = s
  PROVE  /\ i \in Uuids
         /\ Traced(fs, [[m EXCEPT ![s] = m[i]] EXCEPT ![i] = NoUuid], n)
<1>. DEFINE k == [[m EXCEPT ![s] = m[i]] EXCEPT ![i] = NoUuid]
<1>1. fs \in Files /\ m \in UuidMaps /\ n \in UuidMaps /\ s \in Ids
  BY IdsAreTwo DEF Traced
<1>2. i \in Uuids /\ m[i] = i
  <2>1. i \notin Sessions
    BY DEF Traced, Points
  <2> QED
    BY <2>1, IdsAreTwo DEF Traced, Points
<1>3. k \in UuidMaps /\ k[s] = i /\ k[i] = NoUuid /\ \A j \in Ids : j # i /\ j # s => k[j] = m[j]
  BY <1>1, <1>2 DEF UuidMaps
<1>. HIDE DEF k
<1>4. \A j \in Ids : j # i => m[j] # i
  BY <1>2 DEF Traced, Points
<1>5. Points(fs, k)
  <2>1. \A h, j \in Ids : k[h] = k[j] /\ k[h] # NoUuid => h = j
    BY <1>3, <1>4 DEF Traced, Points
  <2>2. \A j \in Sessions : k[j] # NoUuid /\ fs[k[j]] # NoFile => fs[k[j]].id = j
    BY <1>2, <1>3, IdsAreTwo DEF Traced, Points
  <2>3. \A u \in Uuids : k[u] \in {u, NoUuid}
    BY <1>1, <1>3, IdsAreTwo DEF Traced, Points
  <2> QED
    BY <2>1, <2>2, <2>3 DEF Points
<1>6. ASSUME NEW u \in Uuids, fs[u] # NoFile
      PROVE  \E j \in Ids : k[j] = u
  <2>1. PICK j \in Ids : m[j] = u
    BY <1>6 DEF Traced
  <2>2. CASE j = i
    BY <1>1, <1>2, <1>3, <2>1, <2>2
  <2>3. CASE j # i
    <3>1. j # s
      BY <2>1, IdsAreTwo
    <3> QED
      BY <1>3, <2>1, <2>3, <3>1
  <2> QED
    BY <2>2, <2>3
<1>7. ASSUME NEW h \in Ids, NEW j \in Ids, n[h] = k[j], k[j] # NoUuid
      PROVE  h = j \/ h \in Uuids
  <2>1. CASE j = s
    <3>1. n[h] = m[i]
      BY <1>2, <1>3, <1>7, <2>1
    <3> QED
      BY <1>2, <3>1 DEF Traced
  <2>2. CASE j # s
    BY <1>3, <1>7, <2>2 DEF Traced
  <2> QED
    BY <2>1, <2>2
<1>8. Traced(fs, k, n)
  BY <1>1, <1>3, <1>5, <1>6, <1>7 DEF Traced
<1> QED
  BY <1>2, <1>8 DEF k

\* The file of i is removed.
LEMMA ForgetTraces ==
  ASSUME NEW fs, NEW m, NEW n, Traced(fs, m, n), NEW i \in Ids, m[i] # NoUuid
  PROVE  Traced([fs EXCEPT ![m[i]] = NoFile], [m EXCEPT ![i] = NoUuid], n)
<1>. DEFINE gs == [fs EXCEPT ![m[i]] = NoFile]
            k == [m EXCEPT ![i] = NoUuid]
<1>1. fs \in Files /\ m \in UuidMaps /\ n \in UuidMaps /\ m[i] \in Uuids
  BY DEF Traced, UuidMaps
<1>2. gs \in Files /\ gs[m[i]] = NoFile /\ \A w \in Uuids : w # m[i] => gs[w] = fs[w]
  BY <1>1 DEF Files
<1>3. k \in UuidMaps /\ k[i] = NoUuid /\ \A j \in Ids : j # i => k[j] = m[j]
  BY <1>1 DEF UuidMaps
<1>. HIDE DEF gs, k
<1>4. ASSUME NEW f \in UuidMaps, Points(fs, f)
      PROVE  Points(gs, f)
  <2>1. \A j \in Sessions : f[j] # NoUuid => f[j] \in Uuids
    BY IdsAreTwo DEF UuidMaps
  <2>2. \A j \in Sessions : f[j] # NoUuid /\ gs[f[j]] # NoFile => gs[f[j]].id = j
    BY <1>2, <1>4, <2>1 DEF Points
  <2> QED
    BY <1>4, <2>2 DEF Points
<1>5. Points(gs, k) /\ Points(gs, n)
  <2>1. Points(fs, k)
    BY <1>3, IdsAreTwo DEF Traced, Points
  <2> QED
    BY <1>1, <1>3, <1>4, <2>1 DEF Traced
<1>6. \A u \in Uuids : gs[u] # NoFile => \E j \in Ids : k[j] = u
  BY <1>2, <1>3 DEF Traced
<1>7. \A h, j \in Ids : n[h] = k[j] /\ k[j] # NoUuid => h = j \/ h \in Uuids
  BY <1>3 DEF Traced
<1> QED
  BY <1>1, <1>2, <1>3, <1>5, <1>6, <1>7 DEF Traced, gs, k

\* A restart reads the map on disk and adopts the files it does not name.
LEMMA OpenTraces ==
  ASSUME NEW fs, NEW m, NEW n, Traced(fs, m, n), NEW A,
         A = {u \in Uuids : fs[u] # NoFile /\ (\A i \in Ids : n[i] # u) /\ n[u] = NoUuid},
         NEW k \in UuidMaps,
         \A i \in Ids : k[i] = IF n[i] # NoUuid THEN n[i] ELSE IF i \in A THEN i ELSE NoUuid
  PROVE  Traced(fs, k, n)
<1>1. fs \in Files /\ n \in UuidMaps /\ Points(fs, n) /\ A \subseteq Uuids
  BY DEF Traced
<1>2. Points(fs, k)
  <2>1. \A i, j \in Ids : k[i] = k[j] /\ k[i] # NoUuid => i = j
    BY <1>1 DEF Points
  <2>2. \A s \in Sessions : k[s] = n[s]
    BY <1>1, IdsAreTwo
  <2>3. \A u \in Uuids : k[u] \in {u, NoUuid}
    BY <1>1, IdsAreTwo DEF Points
  <2> QED
    BY <1>1, <2>1, <2>2, <2>3 DEF Points
<1>3. ASSUME NEW u \in Uuids, fs[u] # NoFile
      PROVE  \E i \in Ids : k[i] = u
  <2>1. CASE \E i \in Ids : n[i] = u
    BY <2>1, IdsAreTwo
  <2>2. CASE \A i \in Ids : n[i] # u
    <3>1. u \in A /\ u \in Ids
      BY <1>1, <1>3, <2>2, IdsAreTwo DEF Points
    <3>2. k[u] = u
      BY <3>1
    <3> QED
      BY <3>1, <3>2
  <2> QED
    BY <2>1, <2>2
<1>4. \A i, j \in Ids : n[i] = k[j] /\ k[j] # NoUuid => i = j \/ i \in Uuids
  BY <1>1 DEF Points
<1> QED
  BY <1>1, <1>2, <1>3, <1>4 DEF Traced
------------------------------------------------------------------------------
(* The operators on a logbook                                                *)

\* x has the files and the names of b.
Kept(x, b) == DOMAIN x = Fields /\ x.files = b.files /\ x.uuidOf = b.uuidOf /\ x.index = b.index
Knows(x, b) == \A i \in Ids : Known(b, i) => Known(x, i)

LEMMA KeptTraces ==
  ASSUME NEW b, Traces(b), NEW x, Kept(x, b)
  PROVE  Traces(x) /\ Knows(x, b) /\ \A i \in Ids : Known(x, i) = Known(b, i)
BY DEF Traces, Kept, Knows, Known, Indexed

LEMMA MarkColumnsKeeps ==
  ASSUME NEW b, DOMAIN b = Fields, NEW i, NEW A
  PROVE  Kept(MarkColumnsUnsaved(b, i, A), b)
BY DEF MarkColumnsUnsaved, Kept, Fields

LEMMA InvalidateKeeps ==
  ASSUME NEW b, DOMAIN b = Fields, NEW i, NEW a
  PROVE  Kept(Invalidate(b, i, a), b)
<1>. DEFINE y == DropDisabled(b, i)
<1>1. Kept(y, b)
  BY DEF DropDisabled, Kept, Fields
<1>2. Invalidate(b, i, a) = MarkColumnsUnsaved(y, i, Affects[a] \intersect b.enabled)
  BY DEF Invalidate
<1>. HIDE DEF y
<1>3. Kept(MarkColumnsUnsaved(y, i, Affects[a] \intersect b.enabled), y)
  BY <1>1, MarkColumnsKeeps DEF Kept
<1> QED
  BY <1>1, <1>2, <1>3 DEF Kept

LEMMA MarkSessionKeeps ==
  ASSUME NEW b, DOMAIN b = Fields, NEW i
  PROVE  Kept(MarkSessionUnsaved(b, i), b)
BY DEF MarkSessionUnsaved, Kept, Fields

LEMMA FillMissingKeeps ==
  ASSUME NEW b, DOMAIN b = Fields, NEW i, NEW y
  PROVE  Kept(FillMissing(b, i, y), b)
BY DEF FillMissing, Kept, Fields

LEMMA RecomputedKeeps ==
  ASSUME DOMAIN lb = Fields, NEW E
  PROVE  Kept(Recomputed(E), lb)
BY DEF Recomputed, Kept, Fields

LEMMA DiscardedKeeps ==
  ASSUME DOMAIN lb = Fields, NEW e
  PROVE  Kept(Discarded(e), lb)
BY DEF Discarded, Kept, Fields

LEMMA FlushedTraces ==
  ASSUME NEW b, Traces(b)
  PROVE  /\ Traces(Flushed(b)) /\ Knows(Flushed(b), b)
         /\ Flushed(b).files = b.files /\ Flushed(b).uuidOf = b.uuidOf
<1>. DEFINE x == Flushed(b)
<1>1. DOMAIN x = Fields /\ x.files = b.files /\ x.uuidOf = b.uuidOf /\ x.index = IndexOf(b)
  BY DEF Flushed, Traces, Fields
<1>2. IndexOf(b).uuidOf = b.uuidOf /\ IndexOf(b) # NoIndex
  <2>1. DOMAIN IndexOf(b) = {"env", "uuidOf", "values"} /\ DOMAIN NoIndex = {"none"}
    BY DEF IndexOf, NoIndex
  <2>2. IndexOf(b).uuidOf = b.uuidOf
    BY DEF IndexOf
  <2> QED
    BY <2>1, <2>2
<1>. HIDE DEF x
<1>3. Indexed(x) = b.uuidOf
  BY <1>1, <1>2 DEF Indexed
<1>4. Traced(b.files, b.uuidOf, b.uuidOf)
  BY FlushTraces DEF Traces
<1> QED
  BY <1>1, <1>3, <1>4 DEF Traces, Knows, Known, x

LEMMA FlushOutcomeTraces ==
  ASSUME NEW b, Traces(b), NEW x \in FlushOutcomes(b)
  PROVE  Traces(x) /\ Knows(x, b)
BY FlushedTraces DEF FlushOutcomes, Knows

LEMMA SavedTraces ==
  ASSUME NEW b, Traces(b), NEW y \in Contents, NEW u \in Uuids,
         \/ Known(b, y.id) /\ u = b.uuidOf[y.id]
         \/ ~Known(b, y.id) /\ b.files[u] = NoFile /\ \A i \in Ids : b.uuidOf[i] # u /\ Indexed(b)[i] # u,
         NEW x, x = Saved(b, y, u)
  PROVE  Traces(x) /\ Knows(x, b) /\ Known(x, y.id)
<1>1. y.id \in Ids
  BY IdsAreTwo DEF Contents
<1>2. /\ DOMAIN x = Fields /\ x.files = [b.files EXCEPT ![u] = y] /\ x.uuidOf = [b.uuidOf EXCEPT ![y.id] = u]
      /\ x.index = b.index
  BY DEF Saved, Traces, Fields
<1>3. Traced(b.files, b.uuidOf, Indexed(b)) /\ Indexed(x) = Indexed(b)
  BY <1>2 DEF Traces, Indexed
<1>4. Traced(x.files, x.uuidOf, Indexed(x))
  BY <1>2, <1>3, WriteTraces DEF Known
<1>5. b.uuidOf \in UuidMaps
  BY <1>3 DEF Traced
<1> QED
  BY <1>1, <1>2, <1>4, <1>5, IdsAreTwo DEF Traces, Knows, Known, UuidMaps

LEMMA SaveTraces ==
  ASSUME NEW b, Traces(b), NEW y \in Contents, NEW o \in SaveOutcomes(b, y), NEW i
  PROVE  /\ Traces(AfterSave(i, y, o)) /\ Knows(AfterSave(i, y, o), b)
         /\ o.ok \in BOOLEAN /\ (o.ok => Known(AfterSave(i, y, o), y.id))
<1>. DEFINE before == IF y.id \in b.needsFlush THEN Flushed(b) ELSE b
            uuids == IF Known(b, y.id) THEN {b.uuidOf[y.id]} ELSE FreshUuids(b)
<1>1. Traces(before) /\ Knows(before, b) /\ before.files = b.files /\ before.uuidOf = b.uuidOf
  BY FlushedTraces DEF Knows
<1>2. Indexed(before) = Indexed(b) \/ Indexed(before) = b.uuidOf
  <2>1. Flushed(b).index = IndexOf(b) /\ IndexOf(b).uuidOf = b.uuidOf
    BY DEF Flushed, IndexOf, Traces, Fields
  <2>2. DOMAIN IndexOf(b) = {"env", "uuidOf", "values"} /\ DOMAIN NoIndex = {"none"}
    BY DEF IndexOf, NoIndex
  <2>3. Indexed(Flushed(b)) = b.uuidOf
    BY <2>1, <2>2 DEF Indexed
  <2> QED
    BY <2>3
<1>3. \/ o = [book |-> b, ok |-> FALSE] \/ o = [book |-> before, ok |-> FALSE]
      \/ \E u \in uuids : o = [book |-> Saved(before, y, u), ok |-> TRUE]
  BY DEF SaveOutcomes
<1>4. ASSUME NEW u \in uuids
      PROVE  /\ u \in Uuids
             /\ \/ Known(before, y.id) /\ u = before.uuidOf[y.id]
                \/ ~Known(before, y.id) /\ before.files[u] = NoFile
                     /\ \A j \in Ids : before.uuidOf[j] # u /\ Indexed(before)[j] # u
  <2>1. y.id \in Ids /\ b.uuidOf \in UuidMaps
    BY IdsAreTwo DEF Contents, Traces, Traced
  <2>2. CASE Known(b, y.id)
    BY <1>1, <2>1, <2>2 DEF Known, UuidMaps
  <2>3. CASE ~Known(b, y.id)
    <3>1. u \in FreshUuids(b)
      BY <2>3
    <3>2. u \in Uuids /\ b.files[u] = NoFile /\ (\A j \in Ids : b.uuidOf[j] # u)
          /\ \A j \in Ids : Indexed(b)[j] # u
      BY <3>1, IdsAreTwo DEF FreshUuids, Indexed, NoNames
    <3> QED
      BY <1>1, <1>2, <2>3, <3>2 DEF Known
  <2> QED
    BY <2>2, <2>3
<1>. HIDE DEF before, uuids
<1>5. CASE ~o.ok
  <2>1. o.book = b \/ o.book = before
    BY <1>3, <1>5
  <2>2. AfterSave(i, y, o) = o.book /\ o.ok = FALSE
    BY <1>3, <1>5 DEF AfterSave
  <2> QED
    BY <1>1, <1>5, <2>1, <2>2 DEF Knows
<1>6. CASE o.ok
  <2>1. PICK u \in uuids : o = [book |-> Saved(before, y, u), ok |-> TRUE]
    BY <1>3, <1>6
  <2>2. PICK z : z = Saved(before, y, u)
    OBVIOUS
  <2>3. Traces(z) /\ Knows(z, before) /\ Known(z, y.id)
    BY <1>1, <1>4, <2>2, SavedTraces
  <2>4. AfterSave(i, y, o) = FillMissing(z, i, y) /\ o.ok = TRUE
    BY <2>1, <2>2 DEF AfterSave
  <2>5. Kept(FillMissing(z, i, y), z)
    BY <2>3, FillMissingKeeps DEF Traces
  <2>6. y.id \in Ids
    BY IdsAreTwo DEF Contents
  <2>7. PICK x : x = FillMissing(z, i, y)
    OBVIOUS
  <2>8. Traces(x) /\ Knows(x, z) /\ Known(x, y.id)
    BY <2>3, <2>5, <2>6, <2>7, KeptTraces
  <2> QED
    BY <1>1, <2>3, <2>4, <2>7, <2>8 DEF Knows
<1> QED
  BY <1>5, <1>6

\* Reading the file of a row.
LEMMA LoadTraces ==
  ASSUME Traces(lb), NEW i \in Ids, Readable(i), NEW r, r = IdAfterLoad(i), NEW x, x = LoadedBook(i)
  PROVE  /\ Traces(x) /\ r \in Ids /\ Known(x, r)
         /\ \A j \in Ids : j # i /\ Known(lb, j) => Known(x, j)
         /\ FileOf(lb, i) \in Contents /\ (r \in Sessions => FileOf(lb, i).id = r)
         /\ r # i => r \in Sessions /\ ~Known(lb, r)
<1>1. Known(lb, i) /\ FileOf(lb, i) # NoFile
  BY DEF Readable
<1>2. lb.uuidOf \in UuidMaps /\ lb.files \in Files /\ Points(lb.files, lb.uuidOf)
  BY DEF Traces, Traced
<1>3. lb.uuidOf[i] \in Uuids /\ FileOf(lb, i) \in Contents
  BY <1>1, <1>2 DEF Known, UuidMaps, Files, FileOf
<1>4. PICK s : s = FileOf(lb, i).id
  OBVIOUS
<1>5. s \in Sessions /\ s \in Ids
  BY <1>3, <1>4, IdsAreTwo DEF Contents
<1>6. i \in Sessions => s = i
  BY <1>1, <1>2, <1>4 DEF Points, Known, FileOf
<1>7. CASE r = i
  <2>1. x = lb
    BY <1>7 DEF LoadedBook
  <2> QED
    BY <1>1, <1>3, <1>4, <1>6, <1>7, <2>1
<1>8. CASE r # i
  <2>1. r = s /\ ~Known(lb, s)
    BY <1>4, <1>8 DEF IdAfterLoad
  <2>2. x = Remap(lb, i, s)
    BY <1>8, <2>1 DEF LoadedBook
  <2>3. /\ DOMAIN x = Fields /\ x.files = lb.files /\ x.index = lb.index
        /\ x.uuidOf = [[lb.uuidOf EXCEPT ![s] = lb.uuidOf[i]] EXCEPT ![i] = NoUuid]
    <3>1. DOMAIN lb = Fields
      BY DEF Traces
    <3>2. DOMAIN x = Fields /\ x.files = lb.files /\ x.index = lb.index
      BY <2>2, <3>1 DEF Remap, Fields
    <3>3. x.uuidOf = [[lb.uuidOf EXCEPT ![s] = lb.uuidOf[i]] EXCEPT ![i] = NoUuid]
      BY <2>2, <3>1 DEF Remap, Fields
    <3> QED
      BY <3>2, <3>3
  <2>4. Traced(x.files, x.uuidOf, Indexed(lb))
    BY <1>1, <1>4, <1>5, <1>8, <2>1, <2>3, RenameTraces DEF Traces, Known, FileOf
  <2>5. Traces(x)
    BY <2>3, <2>4 DEF Traces, Indexed
  <2>6. x.uuidOf[s] = lb.uuidOf[i] /\ \A j \in Ids : j # i /\ j # s => x.uuidOf[j] = lb.uuidOf[j]
    BY <1>2, <1>5, <1>8, <2>1, <2>3 DEF UuidMaps
  <2> QED
    BY <1>1, <1>3, <1>4, <1>5, <2>1, <2>5, <2>6 DEF Known
<1> QED
  BY <1>7, <1>8

LEMMA ForgottenTraces ==
  ASSUME NEW b, Traces(b), NEW i \in Ids, Known(b, i), NEW x, x = Forgotten(b, i)
  PROVE  Traces(x) /\ \A j \in Ids : j # i /\ Known(b, j) => Known(x, j)
<1>1. DOMAIN b = Fields
  BY DEF Traces
<1>2. /\ DOMAIN x = Fields /\ x.files = [b.files EXCEPT ![b.uuidOf[i]] = NoFile]
      /\ x.uuidOf = [b.uuidOf EXCEPT ![i] = NoUuid] /\ x.index = b.index
  BY <1>1 DEF Forgotten, Fields
<1>3. Traced(x.files, x.uuidOf, Indexed(b))
  BY <1>2, ForgetTraces DEF Traces, Known
<1>4. b.uuidOf \in UuidMaps
  BY DEF Traces, Traced
<1> QED
  BY <1>2, <1>3, <1>4 DEF Traces, Indexed, Known, UuidMaps

LEMMA OpenedTraces ==
  ASSUME NEW b, Traces(b), NEW e, NEW x, x = Opened(b, e)
  PROVE  Traces(x)
<1>1. DOMAIN b = Fields
  BY DEF Traces
<1>. DEFINE k == [i \in Ids |-> IF b.index # NoIndex /\ b.index.uuidOf[i] # NoUuid
                                THEN b.index.uuidOf[i]
                                ELSE IF i \in Orphans(b) THEN i ELSE NoUuid]
            n == Indexed(b)
<1>2. DOMAIN x = Fields /\ x.files = b.files /\ x.index = b.index /\ x.uuidOf = k
  BY <1>1 DEF Opened, Fields
<1>3. Traced(b.files, b.uuidOf, n) /\ n \in UuidMaps
  BY DEF Traces, Traced
<1>4. Orphans(b) = {u \in Uuids : b.files[u] # NoFile /\ (\A i \in Ids : n[i] # u) /\ n[u] = NoUuid}
  BY IdsAreTwo DEF Orphans, Indexed, NoNames
<1>5. \A i \in Ids : k[i] = IF n[i] # NoUuid THEN n[i] ELSE IF i \in Orphans(b) THEN i ELSE NoUuid
  BY DEF Indexed, NoNames
<1>6. k \in UuidMaps
  <2>1. \A i \in Ids : k[i] \in Uuids \union {NoUuid}
    BY <1>3, <1>4, <1>5 DEF UuidMaps
  <2> QED
    BY <2>1 DEF UuidMaps
<1>. HIDE DEF k, n
<1>7. Traced(b.files, k, n)
  BY <1>3, <1>4, <1>5, <1>6, OpenTraces
<1> QED
  BY <1>2, <1>7 DEF Traces, Indexed, n

------------------------------------------------------------------------------
(* Rows                                                                      *)

LEMMA PlaceholdersAreNoStubs ==
  /\ Stub \notin Contents /\ DOMAIN Stub # {"id", "val"}
  /\ DOMAIN Placeholder = {"id", "val"} /\ \A y \in Contents : DOMAIN y = {"id", "val"}
<1>1. DOMAIN Stub = {"none"} /\ {"none"} # {"id", "val"}
  BY DEF Stub
<1> QED
  BY <1>1, NothingIsSomething DEF Placeholder, Contents

LEMMA EditKeepsDomain ==
  ASSUME NEW y, NEW a, NEW content \in Edited(y, a)
  PROVE  DOMAIN content = DOMAIN y
BY DEF Edited

\* What a logbook that knows more files says of the same rows.
LEMMA RowsStandOn ==
  ASSUME NEW b, NEW R, NEW d, NEW q, NEW f, RowsStand(b, R, d, q, f), NEW x, Knows(x, b)
  PROVE  RowsStand(x, R, d, q, f)
BY DEF RowsStand, Knows

\* A stub goes.
LEMMA StubGoes ==
  ASSUME NEW b, NEW R, NEW d, NEW q, NEW f, RowsStand(b, R, d, q, f), NEW i, d[i] = Stub,
         NEW x, \A j \in Ids : j # i /\ Known(b, j) => Known(x, j)
  PROVE  RowsStand(x, R \ {i}, d, q, f)
<1>1. i \notin q /\ i \notin f
  BY PlaceholdersAreNoStubs DEF RowsStand
<1>2. \A j \in Ids : d[j] # Stub => j # i
  OBVIOUS
<1> QED
  BY <1>1, <1>2 DEF RowsStand

\* A row comes whose file is known.
LEMMA RowComes ==
  ASSUME NEW b, NEW R, NEW d, NEW q, NEW f, RowsStand(b, R, d, q, f), NEW i \in Ids, Known(b, i)
  PROVE  RowsStand(b, R \union {i}, d, q, f)
BY DEF RowsStand

\* A row gets a session, of its own id if it is known by one.
LEMMA RowIsSet ==
  ASSUME NEW b, NEW R, NEW d, NEW q, NEW f, RowsStand(b, R, d, q, f), NEW i \in Ids,
         NEW y \in Contents, i \in Sessions => y.id = i, NEW e, e = [d EXCEPT ![i] = y],
         NEW p, p = q \/ p = q \union {i}, NEW g, g = f \/ g = f \ {i}, i \notin g,
         i \in p \/ Known(b, i), i \in Uuids => Known(b, i)
  PROVE  RowsStand(b, R \union {i}, e, p, g)
<1>1. DOMAIN e = Ids /\ e[i] = y /\ \A j \in Ids : j # i => e[j] = d[j]
  BY DEF RowsStand
<1>2. y # Stub
  BY PlaceholdersAreNoStubs
<1>3. R \union {i} \subseteq Ids /\ p \subseteq R \union {i} /\ g \subseteq R \union {i} /\ p \intersect g = {}
  BY DEF RowsStand
<1>4. \A j \in g : DOMAIN e[j] = {"id", "val"}
  BY <1>1 DEF RowsStand
<1>5. \A j \in p : e[j] # Stub
  BY <1>1, <1>2 DEF RowsStand
<1>6. \A j \in Ids : e[j] # Stub /\ j \notin g =>
        j \in R \union {i} /\ e[j] \in Contents /\ (j \in Sessions => e[j].id = j)
  BY <1>1 DEF RowsStand
<1>7. \A j \in R \union {i} : j \notin p \/ j \in Uuids => Known(b, j)
  BY DEF RowsStand
<1> QED
  BY <1>1, <1>3, <1>4, <1>5, <1>6, <1>7 DEF RowsStand

\* A row is saved.
LEMMA RowIsClean ==
  ASSUME NEW b, NEW R, NEW d, NEW q, NEW f, RowsStand(b, R, d, q, f), NEW i, i \in R => Known(b, i)
  PROVE  RowsStand(b, R, d, q \ {i}, f)
BY DEF RowsStand

\* A row becomes a stub.
LEMMA RowIsUnloaded ==
  ASSUME NEW b, NEW R, NEW d, NEW q, NEW f, RowsStand(b, R, d, q, f), NEW i \in Ids, i \notin q,
         NEW e, e = [d EXCEPT ![i] = Stub]
  PROVE  RowsStand(b, R, e, q, f \ {i})
<1>1. DOMAIN e = Ids /\ e[i] = Stub /\ \A j \in Ids : j # i => e[j] = d[j]
  BY DEF RowsStand
<1> QED
  BY <1>1, PlaceholdersAreNoStubs DEF RowsStand

\* What is to be saved is a session.
LEMMA DirtyIsSession ==
  ASSUME NEW b, NEW R, NEW d, NEW q, NEW f, RowsStand(b, R, d, q, f), NEW i \in q
  PROVE  /\ i \in Ids /\ i \in R /\ i \notin f /\ d[i] \in Contents
         /\ i \in Sessions => d[i].id = i
         /\ i \in Uuids => Known(b, i)
BY DEF RowsStand

\* An attempt to save a session under its row.
LEMMA AttemptStands ==
  ASSUME NEW b, Traces(b), NEW R, NEW d, NEW q, NEW f, RowsStand(b, R, d, q, f), NEW i \in Ids,
         NEW y \in Contents, i \in Sessions => y.id = i, i \in Uuids => Known(b, i),
         NEW o \in SaveOutcomes(b, y), NEW x, x = AfterSave(i, y, o)
  PROVE  /\ Traces(x) /\ Knows(x, b) /\ RowsStand(x, R, d, q, f)
         /\ o.ok \in BOOLEAN /\ (o.ok => Known(x, i))
<1>1. Traces(x) /\ Knows(x, b) /\ o.ok \in BOOLEAN /\ (o.ok => Known(x, y.id))
  BY SaveTraces
<1>2. RowsStand(x, R, d, q, f)
  BY <1>1, RowsStandOn
<1> QED
  BY <1>1, <1>2, IdsAreTwo DEF Knows

------------------------------------------------------------------------------
(* The initial states and the steps                                          *)

LEMMA InitFiles == Init => FInv
<1>. SUFFICES ASSUME Init
              PROVE  FInv
  OBVIOUS
<1>1. /\ DOMAIN lb = Fields /\ lb.files = [u \in Uuids |-> NoFile] /\ lb.index = NoIndex
      /\ lb.uuidOf = [i \in Ids |-> NoUuid]
  BY DEF Init, Fields
<1>2. lb.files \in Files /\ lb.uuidOf \in UuidMaps /\ Indexed(lb) = NoNames /\ NoNames = lb.uuidOf
  BY <1>1 DEF Files, UuidMaps, Indexed, NoNames
<1>3. Points(lb.files, lb.uuidOf)
  BY <1>1, IdsAreTwo DEF Points
<1>4. Traces(lb)
  BY <1>1, <1>2, <1>3 DEF Traces, Traced
<1>5. RowsStand(lb, rows, data, dirty, loadFailed)
  BY DEF Init, RowsStand
<1>6. RestStands
  BY DEF Init, RestStands
<1> QED
  BY <1>4, <1>5, <1>6 DEF FInv

\* What a step of the running program has to show.
LEMMA RunningFiles ==
  ASSUME FInv, Running, rest' = rest, Traces(lb'), RowsStand(lb', rows', data', dirty', loadFailed')
  PROVE  FInv'
BY DEF FInv, RestStands, Running

LEMMA FInvSays ==
  ASSUME FInv
  PROVE  /\ Traces(lb) /\ DOMAIN lb = Fields /\ RowsStand(lb, rows, data, dirty, loadFailed)
         /\ rows \subseteq Ids /\ dirty \subseteq rows /\ loadFailed \subseteq rows
         /\ dirty \subseteq Ids /\ dirty \intersect loadFailed = {}
BY DEF FInv, Traces, RowsStand

\* A step that only keeps the logbook's files and names.
LEMMA BookFiles ==
  ASSUME FInv, UNCHANGED rowVars, Running, rest' = rest, NEW x, Kept(x, lb), lb' \in FlushOutcomes(x) \union {x}
  PROVE  FInv'
<1>1. Traces(x) /\ Knows(x, lb)
  BY KeptTraces, FInvSays
<1>2. Traces(lb') /\ Knows(lb', x)
  BY <1>1, FlushOutcomeTraces DEF Knows
<1>3. Knows(lb', lb)
  BY <1>1, <1>2 DEF Knows
<1>4. RowsStand(lb', rows', data', dirty', loadFailed')
  BY <1>3, FInvSays, RowsStandOn DEF rowVars
<1> QED
  BY <1>2, <1>4, RunningFiles

\* Reading the file of a stub.
LEMMA LoadStands ==
  ASSUME FInv, NEW i \in rows, ~Loaded(i), Readable(i), NEW r, r = IdAfterLoad(i),
         NEW x, x = LoadedBook(i), NEW S, S = RowsAfterLoad(i)
  PROVE  /\ Traces(x) /\ DOMAIN x = Fields /\ r \in Ids /\ Known(x, r) /\ r \notin loadFailed
         /\ S = (rows \ {i}) \union {r}
         /\ RowsStand(x, rows \ {i}, data, dirty, loadFailed)
         /\ RowsStand(x, S, data, dirty, loadFailed)
         /\ FileOf(lb, i) \in Contents /\ (r \in Sessions => FileOf(lb, i).id = r)
<1>1. i \in Ids /\ data[i] = Stub /\ Traces(lb)
  BY FInvSays DEF Loaded
<1>2. /\ Traces(x) /\ r \in Ids /\ Known(x, r)
      /\ \A j \in Ids : j # i /\ Known(lb, j) => Known(x, j)
      /\ FileOf(lb, i) \in Contents /\ (r \in Sessions => FileOf(lb, i).id = r)
      /\ r # i => r \in Sessions /\ ~Known(lb, r)
  BY <1>1, LoadTraces
<1>3. r \notin loadFailed
  BY <1>1, <1>2, FInvSays, PlaceholdersAreNoStubs DEF RowsStand
<1>4. S = (rows \ {i}) \union {r}
  BY DEF RowsAfterLoad
<1>5. RowsStand(x, rows \ {i}, data, dirty, loadFailed)
  BY <1>1, <1>2, FInvSays, StubGoes
<1>6. RowsStand(x, S, data, dirty, loadFailed)
  BY <1>2, <1>4, <1>5, RowComes
<1> QED
  BY <1>2, <1>3, <1>4, <1>5, <1>6 DEF Traces

LEMMA LoadSessionFiles ==
  ASSUME FInv, NEW i \in Ids, LoadSession(i)
  PROVE  FInv'
<1>1. Running /\ i \in rows /\ ~Loaded(i) /\ UNCHANGED <<dirty, rest>> /\ data[i] = Stub
  BY DEF LoadSession, Loaded
<1>2. CASE Readable(i)
  <2>. DEFINE r == IdAfterLoad(i)
              x == LoadedBook(i)
              S == RowsAfterLoad(i)
  <2>1. /\ Traces(x) /\ r \in Ids /\ Known(x, r) /\ r \notin loadFailed /\ S = (rows \ {i}) \union {r}
        /\ RowsStand(x, rows \ {i}, data, dirty, loadFailed)
        /\ FileOf(lb, i) \in Contents /\ (r \in Sessions => FileOf(lb, i).id = r)
    BY <1>1, <1>2, LoadStands
  <2>2. lb' = x /\ rows' = S /\ data' = [data EXCEPT ![r] = FileOf(lb, i)] /\ loadFailed' = loadFailed
    BY <1>2 DEF LoadSession
  <2>. HIDE DEF r, x, S
  <2>3. RowsStand(x, S, data', dirty, loadFailed)
    BY <2>1, <2>2, RowIsSet
  <2> QED
    BY <1>1, <2>1, <2>2, <2>3, RunningFiles
<1>3. CASE ~Readable(i)
  <2>1. data' = [data EXCEPT ![i] = Placeholder] /\ loadFailed' = loadFailed \union {i} /\ UNCHANGED <<lb, rows>>
    BY <1>3 DEF LoadSession
  <2>2. RowsStand(lb, rows, data, dirty, loadFailed)
    BY FInvSays
  <2>3. i \notin dirty
    BY <1>1, <2>2 DEF RowsStand
  <2>4. DOMAIN data' = Ids /\ data'[i] = Placeholder /\ \A j \in Ids : j # i => data'[j] = data[j]
    BY <2>1, <2>2 DEF RowsStand
  <2>5. RowsStand(lb, rows, data', dirty, loadFailed')
    BY <1>1, <2>1, <2>2, <2>3, <2>4, PlaceholdersAreNoStubs DEF RowsStand
  <2> QED
    BY <1>1, <2>1, <2>5, FInvSays, RunningFiles
<1> QED
  BY <1>2, <1>3

LEMMA EditFiles ==
  ASSUME FInv, NEW i \in Ids, NEW a \in Attributes, Edit(i, a)
  PROVE  FInv'
<1>1. /\ Running /\ i \in rows /\ data[i] # Stub /\ UNCHANGED <<rows, loadFailed, rest>>
      /\ lb' = Invalidate(lb, i, a)
      /\ dirty' = IF i \in loadFailed THEN dirty ELSE dirty \union {i}
  BY DEF Edit, Loaded, ScheduleSave
<1>2. PICK content \in Edited(data[i], a) : data' = [data EXCEPT ![i] = content]
  BY DEF Edit
<1>3. Traces(lb') /\ RowsStand(lb', rows, data, dirty, loadFailed)
  <2>1. Kept(lb', lb)
    BY <1>1, FInvSays, InvalidateKeeps
  <2>2. Traces(lb') /\ Knows(lb', lb)
    BY <2>1, FInvSays, KeptTraces
  <2> QED
    BY <2>2, FInvSays, RowsStandOn
<1>4. CASE i \in loadFailed
  <2>1. DOMAIN content = {"id", "val"}
    BY <1>2, <1>3, <1>4, EditKeepsDomain DEF RowsStand
  <2>2. DOMAIN data' = Ids /\ data'[i] = content /\ \A j \in Ids : j # i => data'[j] = data[j]
    BY <1>2, <1>3 DEF RowsStand
  <2>3. RowsStand(lb', rows, data', dirty, loadFailed)
    BY <1>3, <1>4, <2>1, <2>2 DEF RowsStand
  <2> QED
    BY <1>1, <1>3, <1>4, <2>3, RunningFiles
<1>5. CASE i \notin loadFailed
  <2>1. data[i] \in Contents /\ (i \in Sessions => data[i].id = i)
    BY <1>1, <1>3, <1>5 DEF RowsStand
  <2>2. content \in Contents /\ (i \in Sessions => content.id = i)
    BY <1>2, <2>1, EditedDoes
  <2>3. i \in Uuids => Known(lb', i)
    BY <1>1, <1>3 DEF RowsStand
  <2>4. RowsStand(lb', rows \union {i}, data', dirty', loadFailed)
    BY <1>1, <1>2, <1>3, <1>5, <2>2, <2>3, RowIsSet
  <2>5. rows' = rows \union {i}
    BY <1>1
  <2> QED
    BY <1>1, <1>3, <2>4, <2>5, RunningFiles
<1> QED
  BY <1>4, <1>5

LEMMA UpdateStubFiles ==
  ASSUME FInv, NEW i \in Ids, NEW a \in Attributes, UpdateStub(i, a)
  PROVE  FInv'
<1>. DEFINE r == IdAfterLoad(i)
            x == LoadedBook(i)
            S == RowsAfterLoad(i)
<1>1. /\ Running /\ i \in rows /\ ~Loaded(i) /\ Readable(i) /\ UNCHANGED <<loadFailed, dirty, rest>>
      /\ lb' = Invalidate(x, r, a) /\ rows' = S
  BY DEF UpdateStub
<1>2. PICK content \in Edited(FileOf(lb, i), a) : data' = [data EXCEPT ![r] = content]
  BY DEF UpdateStub
<1>3. /\ Traces(x) /\ DOMAIN x = Fields /\ r \in Ids /\ Known(x, r) /\ r \notin loadFailed
      /\ S = (rows \ {i}) \union {r}
      /\ RowsStand(x, rows \ {i}, data, dirty, loadFailed)
      /\ FileOf(lb, i) \in Contents /\ (r \in Sessions => FileOf(lb, i).id = r)
  BY <1>1, LoadStands
<1>. HIDE DEF r, x, S
<1>4. Traces(lb') /\ Knows(lb', x)
  BY <1>1, <1>3, InvalidateKeeps, KeptTraces
<1>5. content \in Contents /\ (r \in Sessions => content.id = r)
  BY <1>2, <1>3, EditedDoes
<1>6. RowsStand(lb', rows \ {i}, data, dirty, loadFailed) /\ Known(lb', r)
  BY <1>3, <1>4, RowsStandOn DEF Knows
<1>7. RowsStand(lb', S, data', dirty, loadFailed)
  BY <1>2, <1>3, <1>5, <1>6, RowIsSet
<1> QED
  BY <1>1, <1>4, <1>7, RunningFiles

LEMMA ImportNewFiles ==
  ASSUME FInv, NEW s \in Sessions, ImportNew(s)
  PROVE  FInv'
<1>1. /\ Running /\ s \notin rows /\ UNCHANGED <<loadFailed, rest>>
      /\ lb' = MarkSessionUnsaved(lb, s) /\ rows' = rows \union {s} /\ dirty' = dirty \union {s}
  BY DEF ImportNew, ScheduleSave
<1>2. PICK content \in Contents : content.id = s /\ data' = [data EXCEPT ![s] = content]
  BY DEF ImportNew
<1>3. Traces(lb') /\ Knows(lb', lb)
  BY <1>1, FInvSays, MarkSessionKeeps, KeptTraces
<1>4. RowsStand(lb', rows, data, dirty, loadFailed) /\ s \notin loadFailed /\ s \in Ids /\ s \notin Uuids
  BY <1>1, <1>3, FInvSays, RowsStandOn, IdsAreTwo
<1>5. RowsStand(lb', rows', data', dirty', loadFailed)
  BY <1>1, <1>2, <1>4, RowIsSet
<1> QED
  BY <1>1, <1>3, <1>5, RunningFiles

LEMMA ImportMergeFiles ==
  ASSUME FInv, NEW s \in Sessions, NEW a \in Attributes, ImportMerge(s, a)
  PROVE  FInv'
<1>1. /\ Running /\ s \in rows /\ UNCHANGED <<rows, rest>> /\ loadFailed' = loadFailed \ {s}
      /\ lb' = Invalidate(lb, s, a) /\ dirty' = dirty \union {s}
  BY DEF ImportMerge, ScheduleSave
<1>2. s \in Ids /\ s \notin Uuids
  BY IdsAreTwo
<1>3. RowsStand(lb, rows, data, dirty, loadFailed) /\ Traces(lb)
  BY FInvSays
<1>4. \E content \in Contents : content.id = s /\ data' = [data EXCEPT ![s] = content]
  <2>1. CASE Loaded(s) /\ s \notin loadFailed /\ \E c \in Edited(data[s], a) : data' = [data EXCEPT ![s] = c]
    <3>1. data[s] \in Contents /\ data[s].id = s
      BY <1>2, <1>3, <2>1 DEF RowsStand, Loaded
    <3> QED
      BY <2>1, <3>1, EditedDoes
  <2>2. CASE /\ Readable(s) /\ FileOf(lb, s).id = s
             /\ \E c \in Edited(FileOf(lb, s), a) : data' = [data EXCEPT ![s] = c]
    <3>1. FileOf(lb, s) \in Contents
      BY <1>2, <1>3, <2>2, LoadTraces
    <3> QED
      BY <2>2, <3>1, EditedDoes
  <2> QED
    BY <2>1, <2>2 DEF ImportMerge
<1>5. PICK content \in Contents : content.id = s /\ data' = [data EXCEPT ![s] = content]
  BY <1>4
<1>6. Traces(lb') /\ Knows(lb', lb)
  BY <1>1, FInvSays, InvalidateKeeps, KeptTraces
<1>7. RowsStand(lb', rows, data, dirty, loadFailed)
  BY <1>3, <1>6, RowsStandOn
<1>8. RowsStand(lb', rows \union {s}, data', dirty', loadFailed')
  BY <1>1, <1>2, <1>5, <1>7, RowIsSet
<1>9. rows' = rows \union {s}
  BY <1>1
<1> QED
  BY <1>1, <1>6, <1>8, <1>9, RunningFiles

LEMMA EvictSessionFiles ==
  ASSUME FInv, NEW i \in Ids, EvictSession(i)
  PROVE  FInv'
<1>1. Running /\ i \in rows /\ data[i] # Stub /\ UNCHANGED <<rows, rest>>
  BY DEF EvictSession, Loaded
<1>2. RowsStand(lb, rows, data, dirty, loadFailed) /\ Traces(lb) /\ dirty \intersect loadFailed = {}
  BY FInvSays
<1>3. CASE /\ i \in loadFailed /\ data' = [data EXCEPT ![i] = Stub] /\ loadFailed' = loadFailed \ {i}
           /\ UNCHANGED <<lb, dirty>>
  <2>1. RowsStand(lb, rows, data', dirty, loadFailed')
    BY <1>2, <1>3, RowIsUnloaded
  <2> QED
    BY <1>1, <1>2, <1>3, <2>1, RunningFiles
<1>4. CASE /\ i \notin loadFailed /\ i \in dirty /\ loadFailed' = loadFailed
           /\ \E o \in SaveOutcomes(lb, data[i]) :
                /\ lb' = AfterSave(i, data[i], o)
                /\ MarkSaved(i, o)
                /\ data' = IF o.ok THEN [data EXCEPT ![i] = Stub] ELSE data
  <2>1. PICK o \in SaveOutcomes(lb, data[i]) :
          /\ lb' = AfterSave(i, data[i], o)
          /\ dirty' = IF o.ok THEN dirty \ {i} ELSE dirty \union {i}
          /\ data' = IF o.ok THEN [data EXCEPT ![i] = Stub] ELSE data
    BY <1>4 DEF MarkSaved
  <2>2. data[i] \in Contents /\ (i \in Sessions => data[i].id = i) /\ (i \in Uuids => Known(lb, i))
    BY <1>2, <1>4, DirtyIsSession
  <2>3. /\ Traces(lb') /\ RowsStand(lb', rows, data, dirty, loadFailed)
        /\ o.ok \in BOOLEAN /\ (o.ok => Known(lb', i))
    BY <1>2, <2>1, <2>2, AttemptStands
  <2>4. CASE o.ok
    <3>1. RowsStand(lb', rows, data, dirty \ {i}, loadFailed)
      BY <2>3, <2>4, RowIsClean
    <3>2. RowsStand(lb', rows, data', dirty \ {i}, loadFailed \ {i})
      BY <2>1, <2>4, <3>1, RowIsUnloaded
    <3>3. dirty' = dirty \ {i} /\ loadFailed' = loadFailed \ {i}
      BY <1>4, <2>1, <2>4
    <3> QED
      BY <1>1, <2>3, <3>2, <3>3, RunningFiles
  <2>5. CASE ~o.ok
    <3>1. dirty' = dirty /\ data' = data
      BY <1>4, <2>1, <2>5
    <3> QED
      BY <1>1, <1>4, <2>3, <3>1, RunningFiles
  <2> QED
    BY <2>4, <2>5
<1>5. CASE /\ i \notin loadFailed /\ i \notin dirty /\ lb' = FillMissing(lb, i, data[i])
           /\ data' = [data EXCEPT ![i] = Stub] /\ UNCHANGED <<loadFailed, dirty>>
  <2>1. Traces(lb') /\ Knows(lb', lb)
    BY <1>5, FInvSays, FillMissingKeeps, KeptTraces
  <2>2. RowsStand(lb', rows, data, dirty, loadFailed)
    BY <1>2, <2>1, RowsStandOn
  <2>3. RowsStand(lb', rows, data', dirty, loadFailed \ {i})
    BY <1>5, <2>2, RowIsUnloaded
  <2>4. loadFailed' = loadFailed \ {i} /\ dirty' = dirty
    BY <1>5
  <2> QED
    BY <1>1, <2>1, <2>3, <2>4, RunningFiles
<1> QED
  BY <1>3, <1>4, <1>5 DEF EvictSession

LEMMA RemoveSessionFiles ==
  ASSUME FInv, NEW i \in Ids, RemoveSession(i)
  PROVE  FInv'
<1>. DEFINE gone == IF Readable(i) THEN Forgotten(lb, i) ELSE lb
<1>1. /\ Running /\ i \in rows /\ UNCHANGED rest /\ rows' = rows \ {i} /\ data' = [data EXCEPT ![i] = Stub]
      /\ loadFailed' = loadFailed \ {i} /\ dirty' = dirty \ {i}
  BY DEF RemoveSession
<1>2. \E x \in {gone, lb} : lb' \in FlushOutcomes(x)
  BY DEF RemoveSession, FlushOutcomes
<1>3. PICK x \in {gone, lb} : lb' \in FlushOutcomes(x)
  BY <1>2
<1>4. Traces(x) /\ \A j \in Ids : j # i /\ Known(lb, j) => Known(x, j)
  <2>1. Readable(i) => Known(lb, i)
    BY DEF Readable
  <2> QED
    BY <2>1, FInvSays, ForgottenTraces
<1>. HIDE DEF gone
<1>5. Traces(lb') /\ Knows(lb', x)
  BY <1>3, <1>4, FlushOutcomeTraces
<1>6. \A j \in Ids : j # i /\ Known(lb, j) => Known(lb', j)
  BY <1>4, <1>5 DEF Knows
<1>7. RowsStand(lb, rows, data, dirty, loadFailed)
  BY FInvSays
<1>8. DOMAIN data' = Ids /\ data'[i] = Stub /\ \A j \in Ids : j # i => data'[j] = data[j]
  BY <1>1, <1>7 DEF RowsStand
<1>9. RowsStand(lb', rows', data', dirty', loadFailed')
  BY <1>1, <1>6, <1>7, <1>8 DEF RowsStand
<1> QED
  BY <1>1, <1>5, <1>9, RunningFiles

LEMMA BookStepsFiles ==
  ASSUME FInv,
         \/ \E E \in Layouts : SetColumns(E)
         \/ \E e \in Environments : ChangeEnvironment(e)
         \/ \E i \in Ids, a \in Attributes : StartBulkEdit(i, a)
         \/ CancelBulkEdit \/ CancelColumnWorker
  PROVE  FInv'
<1>1. DOMAIN lb = Fields /\ Kept(lb, lb)
  BY FInvSays DEF Kept
<1>2. ASSUME NEW E \in Layouts, SetColumns(E)
      PROVE  FInv'
  <2>1. Kept(Recomputed(E), lb)
    BY <1>1, RecomputedKeeps
  <2>2. lb' \in FlushOutcomes(Recomputed(E)) \union {Recomputed(E)}
    BY <1>2 DEF SetColumns, FlushOutcomes
  <2>3. UNCHANGED rowVars /\ Running /\ rest' = rest
    BY <1>2 DEF SetColumns
  <2> QED
    BY <2>1, <2>2, <2>3, BookFiles
<1>3. ASSUME NEW e \in Environments, ChangeEnvironment(e)
      PROVE  FInv'
  BY <1>1, <1>3, DiscardedKeeps, BookFiles DEF ChangeEnvironment
<1>4. ASSUME NEW i \in Ids, NEW a \in Attributes, StartBulkEdit(i, a)
      PROVE  FInv'
  BY <1>1, <1>4, InvalidateKeeps, BookFiles DEF StartBulkEdit
<1>5. ASSUME CancelBulkEdit \/ CancelColumnWorker
      PROVE  FInv'
  BY <1>1, <1>5, BookFiles DEF CancelBulkEdit, CancelColumnWorker
<1> QED
  BY <1>2, <1>3, <1>4, <1>5

\* A session is saved, and then perhaps the index is written.
LEMMA SaveFiles ==
  ASSUME FInv, NEW i \in dirty, NEW o \in SaveOutcomes(lb, data[i]), MarkSaved(i, o),
         UNCHANGED <<rows, data, loadFailed>>,
         NEW x, x = AfterSave(i, data[i], o), lb' \in FlushOutcomes(x) \union {x}
  PROVE  Traces(lb') /\ RowsStand(lb', rows', data', dirty', loadFailed')
<1>1. RowsStand(lb, rows, data, dirty, loadFailed) /\ Traces(lb)
  BY FInvSays
<1>2. i \in Ids /\ data[i] \in Contents /\ (i \in Sessions => data[i].id = i) /\ (i \in Uuids => Known(lb, i))
  BY <1>1, DirtyIsSession
<1>3. /\ Traces(x) /\ RowsStand(x, rows, data, dirty, loadFailed)
      /\ o.ok \in BOOLEAN /\ (o.ok => Known(x, i))
  BY <1>1, <1>2, AttemptStands
<1>4. Traces(lb') /\ Knows(lb', x)
  BY <1>3, FlushOutcomeTraces DEF Knows
<1>5. RowsStand(lb', rows, data, dirty, loadFailed) /\ (o.ok => Known(lb', i))
  BY <1>2, <1>3, <1>4, RowsStandOn DEF Knows
<1>6. dirty' = IF o.ok THEN dirty \ {i} ELSE dirty
  BY DEF MarkSaved
<1> QED
  BY <1>4, <1>5, <1>6, RowIsClean

LEMMA SaveStepFiles ==
  ASSUME FInv, SaveStep
  PROVE  FInv'
<1>. DEFINE i == First(SaveWork)
<1>1. Running /\ SaveWork # {} /\ SaveWork \subseteq dirty /\ UNCHANGED <<rows, data, loadFailed, rest>>
  BY DEF SaveStep, SaveWork
<1>2. i \in dirty
  <2>1. SaveWork \in SUBSET Ids
    BY <1>1, FInvSays
  <2> QED
    BY <1>1, <2>1, FirstIsIn
<1>3. PICK o \in SaveOutcomes(lb, data[i]) :
        MarkSaved(i, o) /\ lb' \in FlushOutcomes(AfterSave(i, data[i], o)) \union {AfterSave(i, data[i], o)}
  BY DEF SaveStep
<1>. HIDE DEF i
<1>4. Traces(lb') /\ RowsStand(lb', rows', data', dirty', loadFailed')
  BY <1>1, <1>2, <1>3, SaveFiles
<1> QED
  BY <1>1, <1>4, RunningFiles

LEMMA BulkSkipFiles ==
  ASSUME FInv, BulkSkip
  PROVE  FInv'
<1>1. UNCHANGED rowVars /\ Running /\ rest' = rest /\ lb' \in FlushOutcomes(lb) \union {lb}
  BY DEF BulkSkip, BulkTurn, BulkDone
<1>2. Kept(lb, lb)
  BY FInvSays DEF Kept
<1> QED
  BY <1>1, <1>2, BookFiles

LEMMA BulkEditLoadedFiles ==
  ASSUME FInv, BulkEditLoaded
  PROVE  FInv'
<1>. DEFINE i == Head(bulk).id
            a == Head(bulk).attr
            b == Invalidate(lb, i, a)
<1>1. /\ Running /\ i \in rows /\ data[i] # Stub /\ i \notin loadFailed /\ UNCHANGED <<rows, loadFailed, rest>>
  BY DEF BulkEditLoaded, BulkTurn, Loaded
<1>2. PICK content \in Edited(data[i], a) :
        /\ data' = [data EXCEPT ![i] = content]
        /\ \E o \in SaveOutcomes(b, content) :
             /\ MarkSaved(i, o)
             /\ BulkDone(Tail(bulk), AfterSave(i, content, o))
  BY DEF BulkEditLoaded
<1>3. PICK o \in SaveOutcomes(b, content) :
        MarkSaved(i, o) /\ BulkDone(Tail(bulk), AfterSave(i, content, o))
  BY <1>2
<1>4. Traces(b) /\ Knows(b, lb)
  BY FInvSays, InvalidateKeeps, KeptTraces
<1>. HIDE DEF i, a, b
<1>5. RowsStand(b, rows, data, dirty, loadFailed) /\ i \in Ids
  BY <1>1, <1>4, FInvSays, RowsStandOn
<1>6. /\ data[i] \in Contents /\ (i \in Sessions => data[i].id = i)
      /\ i \in Uuids => Known(b, i)
      /\ i \notin dirty => Known(b, i)
  BY <1>1, <1>5 DEF RowsStand
<1>7. content \in Contents /\ (i \in Sessions => content.id = i)
  BY <1>2, <1>6, EditedDoes
<1>8. RowsStand(b, rows \union {i}, data', dirty, loadFailed)
  BY <1>1, <1>2, <1>5, <1>6, <1>7, RowIsSet
<1>9. RowsStand(b, rows, data', dirty, loadFailed)
  <2>1. rows \union {i} = rows
    BY <1>1
  <2> QED
    BY <1>8, <2>1
<1>10. PICK x : x = AfterSave(i, content, o)
  OBVIOUS
<1>11. /\ Traces(x) /\ RowsStand(x, rows, data', dirty, loadFailed)
       /\ o.ok \in BOOLEAN /\ (o.ok => Known(x, i))
  BY <1>3, <1>4, <1>5, <1>6, <1>7, <1>9, <1>10, AttemptStands
<1>12. lb' \in FlushOutcomes(x) \union {x}
  BY <1>3, <1>10 DEF BulkDone
<1>13. Traces(lb') /\ Knows(lb', x)
  BY <1>11, <1>12, FlushOutcomeTraces DEF Knows
<1>14. RowsStand(lb', rows, data', dirty, loadFailed) /\ (o.ok => Known(lb', i))
  BY <1>5, <1>11, <1>13, RowsStandOn DEF Knows
<1>15. RowsStand(lb', rows, data', dirty', loadFailed)
  <2>1. CASE o.ok
    <3>1. dirty' = dirty \ {i}
      BY <1>3, <2>1 DEF MarkSaved
    <3> QED
      BY <1>14, <2>1, <3>1, RowIsClean
  <2>2. CASE ~o.ok
    <3>1. dirty' = dirty \union {i}
      BY <1>3, <2>2 DEF MarkSaved
    <3>2. data' = [data EXCEPT ![i] = content]
      BY <1>2
    <3>3. data'[i] # Stub
      BY <1>5, <1>7, <3>2, PlaceholdersAreNoStubs DEF RowsStand
    <3> QED
      BY <1>1, <1>14, <3>1, <3>3 DEF RowsStand
  <2> QED
    BY <2>1, <2>2
<1> QED
  BY <1>1, <1>13, <1>15, RunningFiles

LEMMA BulkEditStubFiles ==
  ASSUME FInv, BulkEditStub
  PROVE  FInv'
<1>. DEFINE i == Head(bulk).id
            a == Head(bulk).attr
            r == IdAfterLoad(i)
            z == LoadedBook(i)
            b == Invalidate(z, r, a)
            S == RowsAfterLoad(i)
<1>1. /\ Running /\ i \in rows /\ ~Loaded(i) /\ Readable(i) /\ UNCHANGED <<loadFailed, rest>> /\ rows' = S
  BY DEF BulkEditStub, BulkTurn
<1>2. PICK content \in Edited(FileOf(lb, i), a) :
        \E o \in SaveOutcomes(b, content) :
          /\ BulkDone(Tail(Renamed(bulk, i)), AfterSave(r, content, o))
          /\ data' = IF o.ok THEN data ELSE [data EXCEPT ![r] = content]
          /\ MarkSaved(r, o)
  BY DEF BulkEditStub
<1>3. PICK o \in SaveOutcomes(b, content) :
        /\ BulkDone(Tail(Renamed(bulk, i)), AfterSave(r, content, o))
        /\ data' = IF o.ok THEN data ELSE [data EXCEPT ![r] = content]
        /\ MarkSaved(r, o)
  BY <1>2
<1>4. /\ Traces(z) /\ DOMAIN z = Fields /\ r \in Ids /\ Known(z, r) /\ r \notin loadFailed
      /\ S = (rows \ {i}) \union {r}
      /\ RowsStand(z, rows \ {i}, data, dirty, loadFailed)
      /\ RowsStand(z, S, data, dirty, loadFailed)
      /\ FileOf(lb, i) \in Contents /\ (r \in Sessions => FileOf(lb, i).id = r)
  BY <1>1, LoadStands
<1>. HIDE DEF r, z, S
<1>5. Traces(b) /\ Knows(b, z)
  BY <1>4, InvalidateKeeps, KeptTraces
<1>6. content \in Contents /\ (r \in Sessions => content.id = r)
  BY <1>2, <1>4, EditedDoes
<1>. HIDE DEF i, a, b
<1>7. PICK x : x = AfterSave(r, content, o)
  OBVIOUS
<1>8. RowsStand(b, rows \ {i}, data, dirty, loadFailed) /\ RowsStand(b, S, data, dirty, loadFailed) /\ Known(b, r)
  BY <1>4, <1>5, RowsStandOn DEF Knows
<1>9. /\ Traces(x) /\ Knows(x, b) /\ o.ok \in BOOLEAN
  BY <1>4, <1>5, <1>6, <1>7, <1>8, AttemptStands
<1>10. lb' \in FlushOutcomes(x) \union {x}
  BY <1>3, <1>7 DEF BulkDone
<1>11. Traces(lb') /\ Knows(lb', x)
  BY <1>9, <1>10, FlushOutcomeTraces DEF Knows
<1>12. Knows(lb', b)
  BY <1>9, <1>11 DEF Knows
<1>13. /\ RowsStand(lb', rows \ {i}, data, dirty, loadFailed) /\ RowsStand(lb', S, data, dirty, loadFailed)
       /\ Known(lb', r)
  BY <1>4, <1>8, <1>12, RowsStandOn DEF Knows
<1>14. CASE o.ok
  <2>1. data' = data /\ dirty' = dirty \ {r}
    BY <1>3, <1>14 DEF MarkSaved
  <2>2. RowsStand(lb', S, data', dirty', loadFailed)
    BY <1>13, <2>1, RowIsClean
  <2> QED
    BY <1>1, <1>11, <2>2, RunningFiles
<1>15. CASE ~o.ok
  <2>1. data' = [data EXCEPT ![r] = content] /\ dirty' = dirty \union {r}
    BY <1>3, <1>15 DEF MarkSaved
  <2>2. RowsStand(lb', (rows \ {i}) \union {r}, data', dirty', loadFailed)
    BY <1>4, <1>6, <1>13, <2>1, RowIsSet
  <2> QED
    BY <1>1, <1>4, <1>11, <2>2, RunningFiles
<1> QED
  BY <1>14, <1>15

LEMMA ColumnStepFiles ==
  ASSUME FInv, ColumnStep
  PROVE  FInv'
<1>. DEFINE i == First(ColumnWork)
<1>1. Running /\ ColumnWork # {} /\ UNCHANGED <<data, loadFailed, dirty, rest>>
  BY DEF ColumnStep, ColumnTurn
<1>2. i \in rows /\ i \in Ids
  <2>1. ColumnWork \in SUBSET Ids
    BY FInvSays DEF ColumnWork
  <2> QED
    BY <1>1, <2>1, FirstIsIn DEF ColumnWork
<1>3. ASSUME NEW x, Traces(x), RowsStand(x, rows', data, dirty, loadFailed), NEW y, Kept(y, x),
             ColumnDone(rows', y)
      PROVE  FInv'
  <2>1. Traces(y) /\ Knows(y, x)
    BY <1>3, KeptTraces
  <2>2. lb' \in FlushOutcomes(y) \union {y}
    BY <1>3 DEF ColumnDone
  <2>3. Traces(lb') /\ Knows(lb', y)
    BY <2>1, <2>2, FlushOutcomeTraces DEF Knows
  <2>4. Knows(lb', x)
    BY <2>1, <2>3 DEF Knows
  <2>5. RowsStand(lb', rows', data, dirty, loadFailed)
    BY <1>3, <2>4, RowsStandOn
  <2> QED
    BY <1>1, <2>3, <2>5, RunningFiles
<1>4. CASE Loaded(i) /\ ColumnDone(rows, FillMissing(lb, i, data[i])) /\ UNCHANGED rows
  <2>1. Kept(FillMissing(lb, i, data[i]), lb)
    BY FInvSays, FillMissingKeeps
  <2>2. Traces(lb) /\ RowsStand(lb, rows', data, dirty, loadFailed)
    BY <1>4, FInvSays
  <2> QED
    BY <1>3, <1>4, <2>1, <2>2
<1>5. CASE /\ ~Loaded(i) /\ Readable(i) /\ rows' = RowsAfterLoad(i)
           /\ ColumnDone(RowsAfterLoad(i), FillMissing(LoadedBook(i), IdAfterLoad(i), FileOf(lb, i)))
  <2>1. PICK x : x = LoadedBook(i)
    OBVIOUS
  <2>2. Traces(x) /\ DOMAIN x = Fields /\ RowsStand(x, rows', data, dirty, loadFailed)
    BY <1>2, <1>5, <2>1, LoadStands
  <2>3. Kept(FillMissing(x, IdAfterLoad(i), FileOf(lb, i)), x)
    BY <2>2, FillMissingKeeps
  <2> QED
    BY <1>3, <1>5, <2>1, <2>2, <2>3
<1>6. CASE ~Loaded(i) /\ ~Readable(i) /\ ColumnDone(rows, lb) /\ UNCHANGED rows
  <2>1. Kept(lb, lb)
    BY FInvSays DEF Kept
  <2>2. Traces(lb) /\ RowsStand(lb, rows', data, dirty, loadFailed)
    BY <1>6, FInvSays
  <2> QED
    BY <1>3, <1>6, <2>1, <2>2
<1> QED
  BY <1>4, <1>5, <1>6 DEF ColumnStep

LEMMA ClosingFiles ==
  ASSUME FInv, Close \/ CloseSave \/ CloseFlush
  PROVE  FInv'
<1>1. RowsStand(lb, rows, data, dirty, loadFailed) /\ Traces(lb)
  BY FInvSays
<1>2. CASE Close
  <2>1. UNCHANGED <<lb, rows, data, dirty, loadFailed>> /\ rest' = dirty /\ mode' = "closing"
    BY <1>2 DEF Close, rowVars
  <2> QED
    BY <1>1, <2>1 DEF FInv, RestStands, Running
<1>3. CASE CloseSave
  <2>. DEFINE i == First(rest)
  <2>1. rest # {} /\ mode = "closing" /\ rest' = rest \ {i} /\ UNCHANGED <<rows, data, loadFailed, mode>>
    BY <1>3 DEF CloseSave
  <2>2. rest \subseteq dirty
    BY DEF FInv, RestStands
  <2>3. i \in rest /\ i \in dirty
    <3>1. rest \in SUBSET Ids
      BY <2>2, FInvSays
    <3> QED
      BY <2>1, <2>2, <3>1, FirstIsIn
  <2>4. PICK o \in SaveOutcomes(lb, data[i]) : lb' = AfterSave(i, data[i], o) /\ MarkSaved(i, o)
    BY <1>3 DEF CloseSave
  <2>. HIDE DEF i
  <2>5. Traces(lb') /\ RowsStand(lb', rows', data', dirty', loadFailed')
    BY <2>1, <2>3, <2>4, SaveFiles
  <2>6. dirty \ {i} \subseteq dirty'
    BY <2>4 DEF MarkSaved
  <2>7. rest' \subseteq dirty' /\ mode' # "running"
    BY <2>1, <2>2, <2>6
  <2> QED
    BY <2>5, <2>7 DEF FInv, RestStands, Running
<1>4. CASE CloseFlush
  <2>1. rest = {} /\ UNCHANGED <<rows, data, dirty, loadFailed, rest>> /\ lb' \in FlushOutcomes(lb) \union {lb}
    BY <1>4 DEF CloseFlush, rowVars
  <2>2. Traces(lb') /\ Knows(lb', lb)
    BY <1>1, <2>1, FlushOutcomeTraces DEF Knows
  <2>3. RowsStand(lb', rows', data', dirty', loadFailed')
    BY <1>1, <2>1, <2>2, RowsStandOn
  <2> QED
    BY <2>1, <2>2, <2>3 DEF FInv, RestStands
<1> QED
  BY <1>2, <1>3, <1>4

LEMMA RestartFiles ==
  ASSUME FInv, NEW e \in Environments, Restart(e)
  PROVE  FInv'
<1>1. /\ lb' = Opened(lb, e) /\ rows' = {i \in Ids : lb'.uuidOf[i] # NoUuid}
      /\ data' = [i \in Ids |-> Stub] /\ loadFailed' = {} /\ dirty' = {} /\ rest' = {}
  BY DEF Restart
<1>2. Traces(lb')
  BY <1>1, FInvSays, OpenedTraces
<1>3. RowsStand(lb', rows', data', dirty', loadFailed')
  BY <1>1 DEF RowsStand, Known
<1> QED
  BY <1>1, <1>2, <1>3 DEF FInv, RestStands

LEMMA NextFiles ==
  ASSUME FInv, [Next]_vars
  PROVE  FInv'
<1>1. CASE UNCHANGED vars
  BY <1>1 DEF vars, rowVars, FInv, Traces, RowsStand, RestStands, Known, Running
<1>2. CASE UserCalls
  <2>1. ASSUME NEW i \in Ids, LoadSession(i) \/ EvictSession(i) \/ RemoveSession(i)
        PROVE  FInv'
    BY <2>1, LoadSessionFiles, EvictSessionFiles, RemoveSessionFiles
  <2>2. ASSUME NEW i \in Ids, NEW a \in Attributes, Edit(i, a) \/ UpdateStub(i, a)
        PROVE  FInv'
    BY <2>2, EditFiles, UpdateStubFiles
  <2>3. ASSUME NEW s \in Sessions, ImportNew(s) \/ \E a \in Attributes : ImportMerge(s, a)
        PROVE  FInv'
    BY <2>3, ImportNewFiles, ImportMergeFiles
  <2>4. ASSUME NEW u \in Uuids, LockFile(u)
        PROVE  FInv'
    BY <2>4 DEF LockFile, rowVars, FInv, Traces, RowsStand, RestStands, Known, Running
  <2> QED
    BY <1>2, <2>1, <2>2, <2>3, <2>4, BookStepsFiles, ClosingFiles, RestartFiles DEF UserCalls
<1>3. CASE Tick
  BY <1>3, SaveStepFiles, BulkSkipFiles, BulkEditLoadedFiles, BulkEditStubFiles, ColumnStepFiles DEF Tick
<1>4. CASE Closing
  BY <1>4, ClosingFiles DEF Closing
<1> QED
  BY <1>1, <1>2, <1>3, <1>4 DEF Next

------------------------------------------------------------------------------
(* The theorem                                                               *)

\* While the program runs every session file belongs to an id, and so to a row
\* unless the user removed it, whichever files cannot be read, whichever writes
\* and removals fail, and wherever the program stopped (logbookmanager.cpp:
\* initialize, saveSession, remapSessionId, removeSession).
THEOREM FilesAreAlwaysKnown == Spec => []FilesAreKnown
<1>1. FInv => FilesAreKnown
  BY DEF FInv, Traces, Traced, FilesAreKnown
<1> QED
  BY <1>1, InitFiles, NextFiles, PTL DEF Spec

===============================================================================
