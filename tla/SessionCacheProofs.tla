-------------------------- MODULE SessionCacheProofs --------------------------
(* Proofs about SessionCache for any number of sessions, capacities and jobs, *)
(* and for users, a disk and a scheduler that take any number of steps.       *)
EXTENDS SessionCache, TLAPS, FiniteSetTheorems, WellFoundedInduction

-------------------------------------------------------------------------------
(* The inductive invariant                                                    *)

Idents == [session : Sessions \union {0}, byName : BOOLEAN]

\* The type of the model; nothing is said of what waits in the load queue.
Typed(r) ==
  r \in [rows : SUBSET Sessions, stems : SUBSET Sessions, vis : SUBSET Sessions, mem : SUBSET Sessions,
         ghost : SUBSET Sessions, dirty : SUBSET Sessions, failed : SUBSET Sessions, pins : [Sessions -> Nat],
         lru : SUBSET Idents, newer : SUBSET (Idents \X Idents), capacity : Nat, passQueued : BOOLEAN,
         focus : Idents, queue : {r.queue}, batch : BOOLEAN, retried : SUBSET Sessions, quiet : BOOLEAN]

\* Only rows are in memory; what is unsaved is there, and not in a placeholder.
RowsHold(r) ==
  /\ r.mem \subseteq r.rows /\ r.vis \subseteq r.rows /\ r.ghost \subseteq r.mem
  /\ r.dirty \subseteq r.mem \ r.ghost /\ r.failed \subseteq r.retried

\* The newer entry of two is told by a strict partial order of the list.
NewestFirst(list, newer) ==
  /\ newer \subseteq list \X list
  /\ \A x \in list : <<x, x>> \notin newer
  /\ \A u, v, x \in list : <<u, v>> \in newer /\ <<v, x>> \in newer => <<u, x>> \in newer

\* The list names hidden rows in memory only.
ListedAreHidden(r) == r.lru \subseteq Ids(r, r.mem \ r.vis)

Sound(r) == Typed(r) /\ RowsHold(r) /\ NewestFirst(r.lru, r.newer) /\ ListedAreHidden(r)

\* Every hidden row in memory is in the list, except those of X.
HiddenAreListed(r, X) ==
  \A s \in r.mem \ (r.vis \union X) : Id(r, s) # r.focus => Id(r, s) \in r.lru

\* The entries that evictIfNeeded() may have to remove.
Loose(r) == {id \in r.lru : r.pins[id.session] = 0 /\ id.session \notin r.retried}
RoomOf(r) == IF r.capacity = 0 THEN 1 ELSE r.capacity
Bounded(r) == r.passQueued \/ Cardinality(Loose(r)) <= RoomOf(r)

OnScreen(r) == Shown(r) \ r.ghost
DrawnAreShown(r, d) == ~r.batch /\ ~r.quiet => d = OnScreen(r)

CacheSound(r) == Sound(r) /\ HiddenAreListed(r, {}) /\ Bounded(r)
IInv == CacheSound(m) /\ DrawnAreShown(m, drawn)

-------------------------------------------------------------------------------
(* Identifiers                                                                *)

LEMMA IdFields ==
  ASSUME NEW r, NEW s
  PROVE  /\ Id(r, s).session = s
         /\ s \in Sessions => Id(r, s) \in Idents
BY DEF Id, Idents

LEMMA IdSame ==
  ASSUME NEW r, NEW q, NEW s, s \in r.stems <=> s \in q.stems
  PROVE  Id(r, s) = Id(q, s)
BY DEF Id

LEMMA IdNames ==
  ASSUME NEW r, NEW s
  PROVE  Names(r, Id(r, s)) <=> s \in r.rows
BY IdFields DEF Names

-------------------------------------------------------------------------------
(* Of the entries that may leave those go that fewer than n others are older  *)
(* than: all of them, or n of them at least.                                  *)

LEMMA OldestLeave ==
  ASSUME NEW L, IsFiniteSet(L), NEW n \in Int, NEW older \in [L -> SUBSET L],
         \A x \in L : x \notin older[x],
         \A x, y \in L : y \in older[x] => older[y] \subseteq older[x],
         NEW E \in SUBSET L, \A x \in L : x \in E <=> Cardinality(older[x]) < n
  PROVE  E = L \/ Cardinality(E) >= n
<1> SUFFICES ASSUME E # L PROVE Cardinality(E) >= n
  OBVIOUS
<1> DEFINE T == {o \in SUBSET L : \E x \in L \ E : o = older[x]}
<1>1. PICK x \in L \ E : older[x] \in T /\ \A z \in T : ~(z \subseteq older[x] /\ z # older[x])
  <2>1. T \subseteq SUBSET L /\ T # {}
    <3>1. PICK x \in L : x \notin E
      OBVIOUS
    <3>2. older[x] \in T
      BY <3>1
    <3> QED BY <3>2
  <2>2. IsWellFoundedOn(StrictSubsetOrdering(L), SUBSET L)
    <3>1. FiniteSubsetsOf(L) = SUBSET L
      BY FS_FiniteSubsetsOfFinite
    <3>2. IsWellFoundedOn(StrictSubsetOrdering(L), FiniteSubsetsOf(L))
      BY FS_StrictSubsetOrderingWellFounded
    <3> QED BY <3>1, <3>2
  <2> HIDE DEF T
  <2>3. PICK o \in T : \A z \in T : <<z, o>> \notin StrictSubsetOrdering(L)
    BY <2>1, <2>2, WFMin
  <2>4. \A z \in T : ~(z \subseteq o /\ z # o)
    BY <2>1, <2>3 DEF StrictSubsetOrdering
  <2>5. PICK x \in L \ E : o = older[x]
    BY <2>3 DEF T
  <2> QED BY <2>3, <2>4, <2>5
<1>2. older[x] \subseteq E
  <2> SUFFICES ASSUME NEW y \in older[x], y \notin E PROVE FALSE
    OBVIOUS
  <2>1. y \in L /\ older[y] \subseteq older[x] /\ y \notin older[y]
    OBVIOUS
  <2>2. older[y] \in T
    BY <2>1
  <2> HIDE DEF T
  <2> QED BY <1>1, <2>1, <2>2
<1>3. IsFiniteSet(E) /\ Cardinality(E) \in Nat
  BY FS_Subset, FS_CardinalityType
<1>4. Cardinality(older[x]) <= Cardinality(E) /\ Cardinality(older[x]) \in Nat
  BY <1>2, <1>3, FS_Subset, FS_CardinalityType
<1>5. ~(Cardinality(older[x]) < n)
  OBVIOUS
<1> QED BY <1>3, <1>4, <1>5

-------------------------------------------------------------------------------
(* The list                                                                   *)

SameWindow(r, q) ==
  /\ q.rows = r.rows /\ q.pins = r.pins /\ q.capacity = r.capacity
  /\ q.passQueued = r.passQueued /\ q.focus = r.focus /\ q.batch = r.batch /\ q.quiet = r.quiet
SameDesk(r, q) == SameWindow(r, q) /\ q.stems = r.stems

SameMemory(r, q) ==
  /\ q.mem = r.mem /\ q.ghost = r.ghost /\ q.dirty = r.dirty /\ q.failed = r.failed
  /\ q.retried = r.retried

LEMMA LruRemoveFields ==
  ASSUME NEW r, Typed(r), NEW ids
  PROVE  LET q == LruRemove(r, ids)
         IN  /\ Typed(q) /\ SameDesk(r, q) /\ SameMemory(r, q) /\ q.vis = r.vis
             /\ q.lru = r.lru \ ids
             /\ q.newer = {x \in r.newer : x[1] \notin ids /\ x[2] \notin ids}
BY DEF LruRemove, Typed, SameDesk, SameWindow, SameMemory

LEMMA LruTouchFields ==
  ASSUME NEW r, Typed(r), NEW S \in SUBSET Sessions
  PROVE  LET q == LruTouch(r, S)
             ids == Ids(r, S)
         IN  /\ Typed(q) /\ SameDesk(r, q) /\ SameMemory(r, q) /\ q.vis = r.vis
             /\ q.lru = (r.lru \ ids) \union ids
             /\ q.newer = ({x \in r.newer : x[1] \notin ids /\ x[2] \notin ids}
                            \union (ids \X (r.lru \ ids)))
                          \union {x \in ids \X ids : x[1].session > x[2].session}
<1> DEFINE ids == Ids(r, S)
           out == LruRemove(r, ids)
           among == {x \in ids \X ids : x[1].session > x[2].session}
           newer == (out.newer \union (ids \X out.lru)) \union among
<1>1. Typed(out) /\ SameDesk(r, out) /\ SameMemory(r, out) /\ out.vis = r.vis
      /\ out.lru = r.lru \ ids /\ out.newer = {x \in r.newer : x[1] \notin ids /\ x[2] \notin ids}
  <2> HIDE DEF ids
  <2> QED BY LruRemoveFields
<1>2. ids \subseteq Idents
  BY IdFields DEF Ids
<1>3. out.lru \union ids \subseteq Idents /\ newer \subseteq Idents \X Idents
  <2> HIDE DEF ids, out
  <2> QED BY <1>1, <1>2 DEF Typed
<1>4. LruTouch(r, S) = [out EXCEPT !.lru = out.lru \union ids, !.newer = newer]
  BY DEF LruTouch
<1> QED
  <2>1. /\ Typed(LruTouch(r, S)) /\ SameDesk(out, LruTouch(r, S)) /\ SameMemory(out, LruTouch(r, S))
        /\ LruTouch(r, S).vis = out.vis
        /\ LruTouch(r, S).lru = out.lru \union ids /\ LruTouch(r, S).newer = newer
    <3> HIDE DEF ids, out, newer
    <3> DEFINE list == out.lru \union ids
    <3>1. list \in SUBSET Idents /\ newer \in SUBSET (Idents \X Idents)
      BY <1>3
    <3> HIDE DEF list
    <3> DEFINE a == [out EXCEPT !.lru = list]
               q == [a EXCEPT !.newer = newer]
    <3>2. /\ Typed(a) /\ SameDesk(out, a) /\ SameMemory(out, a) /\ a.vis = out.vis
          /\ a.lru = list /\ a.newer = out.newer
      BY <1>1, <3>1 DEF Typed, SameDesk, SameWindow, SameMemory
    <3> HIDE DEF a
    <3>3. /\ Typed(q) /\ SameDesk(a, q) /\ SameMemory(a, q) /\ q.vis = a.vis
          /\ q.lru = a.lru /\ q.newer = newer
      BY <3>1, <3>2 DEF Typed, SameDesk, SameWindow, SameMemory
    <3>4. LruTouch(r, S) = q
      BY <1>4 DEF list, a
    <3> HIDE DEF q
    <3> QED BY <3>2, <3>3, <3>4 DEF SameDesk, SameWindow, SameMemory, list
  <2> HIDE DEF out
  <2> QED BY <1>1, <2>1 DEF SameDesk, SameWindow, SameMemory

\* Removing entries and using rows leaves the newest first.
LEMMA RemoveNewest ==
  ASSUME NEW list, NEW newer, NewestFirst(list, newer), NEW ids, NEW rest,
         rest = {x \in newer : x[1] \notin ids /\ x[2] \notin ids}
  PROVE  NewestFirst(list \ ids, rest)
BY DEF NewestFirst

LEMMA TouchNewest ==
  ASSUME NEW r, NEW list, NEW newer, NewestFirst(list, newer), NEW S \in SUBSET Sessions, IsSessionCache
  PROVE  LET ids == Ids(r, S)
         IN  NewestFirst((list \ ids) \union ids,
                         ({x \in newer : x[1] \notin ids /\ x[2] \notin ids} \union (ids \X (list \ ids)))
                           \union {x \in ids \X ids : x[1].session > x[2].session})
<1> DEFINE ids == Ids(r, S)
           rest == {x \in newer : x[1] \notin ids /\ x[2] \notin ids}
           among == {x \in ids \X ids : x[1].session > x[2].session}
           all == (rest \union (ids \X (list \ ids))) \union among
<1>1. ASSUME NEW x \in ids PROVE x.session \in Nat
  <2>1. PICK s \in S : x = Id(r, s)
    BY DEF Ids
  <2> QED BY <2>1, IdFields DEF IsSessionCache
<1> SUFFICES NewestFirst((list \ ids) \union ids, all)
  OBVIOUS
<1> HIDE DEF ids
<1>2. \A u, v : <<u, v>> \in all <=> \/ u \notin ids /\ v \notin ids /\ <<u, v>> \in newer
                                     \/ u \in ids /\ v \in list \ ids
                                     \/ u \in ids /\ v \in ids /\ u.session > v.session
  OBVIOUS
<1>3. all \subseteq ((list \ ids) \union ids) \X ((list \ ids) \union ids)
  BY DEF NewestFirst
<1>4. \A u, v : <<u, v>> \in newer => u \in list /\ v \in list
  BY DEF NewestFirst
<1> HIDE DEF all
<1> QED BY <1>1, <1>2, <1>3, <1>4 DEF NewestFirst
\* A record with another list, or another memory, is a model again.
LEMMA ListSound ==
  ASSUME NEW r, NEW q, Sound(r), Typed(q), SameDesk(r, q), SameMemory(r, q), q.vis = r.vis,
         NewestFirst(q.lru, q.newer), q.lru \subseteq Ids(r, r.mem \ r.vis)
  PROVE  Sound(q)
<1>1. RowsHold(q)
  BY DEF Sound, RowsHold, SameDesk, SameWindow, SameMemory
<1>2. Ids(q, q.mem \ q.vis) = Ids(r, r.mem \ r.vis)
  BY IdSame DEF SameDesk, SameWindow, SameMemory, Ids
<1> QED BY <1>1, <1>2 DEF Sound, ListedAreHidden

LEMMA RemoveSound ==
  ASSUME NEW r, Sound(r), NEW ids
  PROVE  Sound(LruRemove(r, ids))
<1> DEFINE q == LruRemove(r, ids)
<1>1. /\ Typed(q) /\ SameDesk(r, q) /\ SameMemory(r, q) /\ q.vis = r.vis
      /\ q.lru = r.lru \ ids
      /\ q.newer = {x \in r.newer : x[1] \notin ids /\ x[2] \notin ids}
  BY LruRemoveFields DEF Sound
<1> HIDE DEF q
<1>2. NewestFirst(q.lru, q.newer)
  <2>1. NewestFirst(r.lru, r.newer)
    BY DEF Sound
  <2>2. NewestFirst(r.lru \ ids, q.newer)
    BY <1>1, <2>1, RemoveNewest
  <2> QED BY <1>1, <2>2
<1>3. q.lru \subseteq Ids(r, r.mem \ r.vis)
  BY <1>1 DEF Sound, ListedAreHidden
<1>4. Sound(q)
  BY <1>1, <1>2, <1>3, ListSound
<1> QED BY <1>4 DEF q

\* Hidden rows in memory are used.
LEMMA TouchSound ==
  ASSUME NEW r, Sound(r), IsSessionCache, NEW S, S \subseteq r.mem \ r.vis
  PROVE  LET q == LruTouch(r, S)
         IN  /\ Sound(q) /\ SameDesk(r, q) /\ SameMemory(r, q) /\ q.vis = r.vis
             /\ q.lru = r.lru \union Ids(r, S)
<1> DEFINE q == LruTouch(r, S)
<1>a. S \in SUBSET Sessions
  BY DEF Sound, Typed
<1>1. /\ Typed(q) /\ SameDesk(r, q) /\ SameMemory(r, q) /\ q.vis = r.vis
      /\ q.lru = (r.lru \ Ids(r, S)) \union Ids(r, S)
      /\ q.newer = ({x \in r.newer : x[1] \notin Ids(r, S) /\ x[2] \notin Ids(r, S)}
                     \union (Ids(r, S) \X (r.lru \ Ids(r, S))))
                   \union {x \in Ids(r, S) \X Ids(r, S) : x[1].session > x[2].session}
  BY <1>a, LruTouchFields DEF Sound
<1> HIDE DEF q
<1>2. NewestFirst(q.lru, q.newer)
  BY <1>a, <1>1, TouchNewest DEF Sound
<1>3. q.lru \subseteq Ids(r, r.mem \ r.vis)
  <2>1. Ids(r, S) \subseteq Ids(r, r.mem \ r.vis)
    BY DEF Ids
  <2> QED BY <1>1, <2>1 DEF Sound, ListedAreHidden
<1>4. Sound(q)
  BY <1>1, <1>2, <1>3, ListSound
<1>5. q.lru = r.lru \union Ids(r, S)
  BY <1>1
<1> HIDE DEF q
<1>6. /\ Sound(q) /\ SameDesk(r, q) /\ SameMemory(r, q) /\ q.vis = r.vis
      /\ q.lru = r.lru \union Ids(r, S)
  BY <1>1, <1>4, <1>5
<1> QED BY <1>6 DEF q

-------------------------------------------------------------------------------
(* Eviction                                                                   *)

Out(r, ids) == {id \in ids : ~Stays(r, id)}
Met(r, ids) == {s \in r.rows \intersect r.mem : Id(r, s) \in ids}
Left(r, ids) == {s \in Met(r, ids) : Id(r, s) \in Out(r, ids)}
Refused(r, ids) == {s \in Met(r, ids) \ r.failed : Unsaved(r, s) /\ r.pins[s] = 0}

LEMMA EvictSessionsFields ==
  ASSUME NEW r, Typed(r), NEW ids
  PROVE  LET q == EvictSessions(r, ids)
             out == LruRemove(r, Out(r, ids))
         IN  /\ Typed(q) /\ SameDesk(r, q) /\ q.vis = r.vis /\ q.lru = out.lru /\ q.newer = out.newer
             /\ q.mem = r.mem \ Left(r, ids) /\ q.ghost = r.ghost \ Left(r, ids)
             /\ q.dirty = r.dirty \ {s \in Left(r, ids) : s \in r.ghost \/ ~disk.full}
             /\ q.failed = r.failed \union Refused(r, ids)
             /\ q.retried = r.retried \union Refused(r, ids)
<1> DEFINE out == LruRemove(r, Out(r, ids))
           left == Left(r, ids)
           refused == Refused(r, ids)
           saved == {s \in left : s \in r.ghost \/ ~disk.full}
<1>1. /\ Typed(out) /\ SameDesk(r, out) /\ SameMemory(r, out) /\ out.vis = r.vis
  BY LruRemoveFields
<1>2. refused \subseteq Sessions
  BY DEF Refused, Met, Typed
<1>3. EvictSessions(r, ids) =
        [out EXCEPT !.mem = out.mem \ left, !.ghost = out.ghost \ left, !.dirty = out.dirty \ saved,
                    !.failed = out.failed \union refused, !.retried = out.retried \union refused]
  BY DEF EvictSessions, Out, Left, Met, Refused
<1> HIDE DEF out, left, refused, saved
<1> DEFINE a == [out EXCEPT !.mem = out.mem \ left]
           b == [a EXCEPT !.ghost = out.ghost \ left]
           c == [b EXCEPT !.dirty = out.dirty \ saved]
           d == [c EXCEPT !.failed = out.failed \union refused]
           q == [d EXCEPT !.retried = out.retried \union refused]
<1>t. /\ out.mem \ left \in SUBSET Sessions /\ out.ghost \ left \in SUBSET Sessions
      /\ out.dirty \ saved \in SUBSET Sessions
      /\ out.failed \union refused \in SUBSET Sessions /\ out.retried \union refused \in SUBSET Sessions
  BY <1>1, <1>2 DEF Typed
<1>4. /\ Typed(a) /\ SameDesk(out, a) /\ a.vis = out.vis /\ a.lru = out.lru /\ a.newer = out.newer
      /\ a.mem = out.mem \ left /\ a.ghost = out.ghost /\ a.dirty = out.dirty
      /\ a.failed = out.failed /\ a.retried = out.retried
  BY <1>1, <1>t DEF Typed, SameDesk, SameWindow
<1>e. EvictSessions(r, ids) = q
  BY <1>3
<1> HIDE DEF a
<1>5. /\ Typed(b) /\ SameDesk(a, b) /\ b.vis = a.vis /\ b.lru = a.lru /\ b.newer = a.newer
      /\ b.mem = a.mem /\ b.ghost = out.ghost \ left /\ b.dirty = a.dirty
      /\ b.failed = a.failed /\ b.retried = a.retried
  BY <1>4, <1>t DEF Typed, SameDesk, SameWindow
<1> HIDE DEF b
<1>6. /\ Typed(c) /\ SameDesk(b, c) /\ c.vis = b.vis /\ c.lru = b.lru /\ c.newer = b.newer
      /\ c.mem = b.mem /\ c.ghost = b.ghost /\ c.dirty = out.dirty \ saved
      /\ c.failed = b.failed /\ c.retried = b.retried
  BY <1>5, <1>t DEF Typed, SameDesk, SameWindow
<1> HIDE DEF c
<1>7. /\ Typed(d) /\ SameDesk(c, d) /\ d.vis = c.vis /\ d.lru = c.lru /\ d.newer = c.newer
      /\ d.mem = c.mem /\ d.ghost = c.ghost /\ d.dirty = c.dirty
      /\ d.failed = out.failed \union refused /\ d.retried = c.retried
  BY <1>6, <1>t DEF Typed, SameDesk, SameWindow
<1> HIDE DEF d
<1>8. /\ Typed(q) /\ SameDesk(d, q) /\ q.vis = d.vis /\ q.lru = d.lru /\ q.newer = d.newer
      /\ q.mem = d.mem /\ q.ghost = d.ghost /\ q.dirty = d.dirty
      /\ q.failed = d.failed /\ q.retried = out.retried \union refused
  BY <1>7, <1>t DEF Typed, SameDesk, SameWindow
<1> HIDE DEF q
<1>9. SameDesk(r, q)
  BY <1>1, <1>4, <1>5, <1>6, <1>7, <1>8 DEF SameDesk, SameWindow
<1>10. /\ q.vis = r.vis /\ q.lru = out.lru /\ q.newer = out.newer
       /\ q.mem = r.mem \ left /\ q.ghost = r.ghost \ left /\ q.dirty = r.dirty \ saved
       /\ q.failed = r.failed \union refused /\ q.retried = r.retried \union refused
  BY <1>1, <1>4, <1>5, <1>6, <1>7, <1>8 DEF SameMemory
<1> QED BY <1>8, <1>9, <1>10, <1>e DEF out, left, refused, saved

LEMMA ListFinite ==
  ASSUME NEW r, Sound(r), IsSessionCache
  PROVE  IsFiniteSet(r.lru) /\ Cardinality(r.lru) \in Nat
<1> DEFINE f == [s \in r.mem |-> Id(r, s)]
           T == {f[s] : s \in r.mem}
<1>1. IsFiniteSet(r.mem)
  BY FS_Subset DEF Sound, Typed, IsSessionCache
<1>2. f \in Surjection(r.mem, T)
  BY DEF Surjection
<1>3. IsFiniteSet(T)
  <2> HIDE DEF f, T
  <2> QED BY <1>1, <1>2, FS_Surjection
<1>4. r.lru \subseteq T
  BY DEF Sound, ListedAreHidden, Ids
<1> HIDE DEF T
<1> QED BY <1>3, <1>4, FS_Subset, FS_CardinalityType

\* A listed identifier is that of a hidden row in memory.
LEMMA ListedRow ==
  ASSUME NEW r, Sound(r), NEW id \in r.lru
  PROVE  /\ id.session \in r.mem \ r.vis /\ id.session \in r.rows /\ id.session \in Sessions
         /\ Id(r, id.session) = id /\ Names(r, id)
<1>1. PICK s \in r.mem \ r.vis : id = Id(r, s)
  BY DEF Sound, ListedAreHidden, Ids
<1> QED BY <1>1, IdFields, IdNames DEF Sound, RowsHold, Typed

\* q is r, of which some idle rows have left memory.
RowsLeft(r, q) ==
  /\ SameDesk(r, q) /\ q.vis = r.vis /\ q.lru \subseteq r.lru
  /\ q.mem \subseteq r.mem /\ q.ghost = r.ghost \intersect q.mem
  /\ \A s \in r.mem \ q.mem : s \notin r.vis /\ r.pins[s] = 0 /\ Id(r, s) \in r.lru
  /\ \A s \in q.mem : Id(r, s) \in r.lru => Id(r, s) \in q.lru

LEMMA LeftKeepsListed ==
  ASSUME NEW r, NEW q, RowsLeft(r, q), NEW X, HiddenAreListed(r, X)
  PROVE  HiddenAreListed(q, X)
BY IdSame DEF RowsLeft, SameDesk, SameWindow, HiddenAreListed

LEMMA LeftKeepsScreen ==
  ASSUME NEW r, NEW q, RowsLeft(r, q)
  PROVE  OnScreen(q) = OnScreen(r) /\ Shown(q) = Shown(r)
BY DEF RowsLeft, SameDesk, SameWindow, OnScreen, Shown

LEMMA EvictSessionsSound ==
  ASSUME NEW r, Sound(r), NEW ids, ids \subseteq r.lru
  PROVE  LET q == EvictSessions(r, ids)
         IN  Sound(q) /\ RowsLeft(r, q)
<1> DEFINE q == EvictSessions(r, ids)
<1>1. /\ Typed(q) /\ SameDesk(r, q) /\ q.vis = r.vis
      /\ q.lru = LruRemove(r, Out(r, ids)).lru /\ q.newer = LruRemove(r, Out(r, ids)).newer
      /\ q.mem = r.mem \ Left(r, ids) /\ q.ghost = r.ghost \ Left(r, ids)
      /\ q.dirty = r.dirty \ {s \in Left(r, ids) : s \in r.ghost \/ ~disk.full}
      /\ q.failed = r.failed \union Refused(r, ids)
      /\ q.retried = r.retried \union Refused(r, ids)
  BY EvictSessionsFields DEF Sound
<1> HIDE DEF q
<1>2. q.lru = r.lru \ Out(r, ids)
  BY <1>1, LruRemoveFields DEF Sound
<1>3. NewestFirst(q.lru, q.newer)
  <2>1. Sound(LruRemove(r, Out(r, ids)))
    BY RemoveSound
  <2> QED BY <1>1, <2>1 DEF Sound
<1>4. ASSUME NEW s \in Left(r, ids)
      PROVE  s \in r.mem \ r.vis /\ r.pins[s] = 0 /\ Id(r, s) \in r.lru /\ (s \in r.dirty \ r.ghost => ~disk.full)
  <2>1. s \in r.rows /\ s \in r.mem /\ Id(r, s) \in ids /\ ~Stays(r, Id(r, s))
    BY DEF Left, Met, Out
  <2>2. ~(r.pins[s] > 0) /\ ~Unsaved(r, s)
    BY <2>1, IdNames, IdFields DEF Stays
  <2>3. Id(r, s).session = s /\ Id(r, s) \in r.lru
    BY <2>1, IdFields
  <2>4. s \notin r.vis
    BY <2>3, ListedRow
  <2>5. r.pins[s] \in Nat
    BY <2>1 DEF Sound, Typed
  <2> QED BY <2>1, <2>2, <2>3, <2>4, <2>5 DEF Unsaved
<1>5. RowsHold(q)
  <2>1. Refused(r, ids) \subseteq r.dirty \ r.ghost
    BY DEF Refused, Unsaved
  <2> QED BY <1>1, <1>4, <2>1 DEF Sound, RowsHold, SameDesk, SameWindow
<1>6. ASSUME NEW s \in q.mem, Id(r, s) \in r.lru
      PROVE  Id(r, s) \in q.lru
  <2>1. s \in r.mem /\ s \in r.rows /\ s \notin Left(r, ids)
    BY <1>1 DEF Sound, RowsHold
  <2>2. Id(r, s) \notin Out(r, ids)
    BY <2>1 DEF Left, Met, Out
  <2> QED BY <1>2, <1>6, <2>2
<1>7. ListedAreHidden(q)
  <2> SUFFICES ASSUME NEW id \in q.lru PROVE id \in Ids(q, q.mem \ q.vis)
    BY DEF ListedAreHidden
  <2>1. id \in r.lru /\ id \notin Out(r, ids)
    BY <1>2
  <2>2. id.session \in r.mem \ r.vis /\ Id(r, id.session) = id
    BY <2>1, ListedRow
  <2>3. id.session \notin Left(r, ids)
    BY <2>1, <2>2 DEF Left
  <2>4. Id(q, id.session) = id
    BY <1>1, <2>2, IdSame DEF SameDesk, SameWindow
  <2> QED BY <1>1, <2>2, <2>3, <2>4 DEF Ids
<1>8. RowsLeft(r, q)
  <2>1. q.ghost = r.ghost \intersect q.mem
    BY <1>1 DEF Sound, RowsHold
  <2>2. \A s \in r.mem \ q.mem : s \notin r.vis /\ r.pins[s] = 0 /\ Id(r, s) \in r.lru
    BY <1>1, <1>4
  <2> QED BY <1>1, <1>2, <1>6, <2>1, <2>2 DEF RowsLeft
<1>9. Sound(q) /\ RowsLeft(r, q)
  BY <1>1, <1>3, <1>5, <1>7, <1>8 DEF Sound
<1> QED BY <1>9 DEF q

\* After an eviction pass few rows are left that it might have removed.
LEMMA EvictIfNeededSound ==
  ASSUME NEW r, Sound(r), IsSessionCache, NEW keep
  PROVE  LET q == EvictIfNeeded(r, keep)
         IN  /\ Sound(q) /\ RowsLeft(r, q) /\ Cardinality(Loose(q)) <= RoomOf(q)
             /\ \A s \in r.mem \ q.mem : Id(r, s) # keep
<1> DEFINE r1 == [r EXCEPT !.retried = r.retried \intersect r.failed]
           leaving == {id \in r.lru \ {keep} : ~Stays(r, id)}
           n == Cardinality(r.lru) - r.capacity
           met == {id \in r.lru \ {keep} : Cardinality({x \in leaving : <<id, x>> \in r.newer}) < n}
           E == {id \in leaving : Cardinality({x \in leaving : <<id, x>> \in r.newer}) < n}
           q == EvictSessions(r1, met)
<1>1. EvictIfNeeded(r, keep) = q
  BY DEF EvictIfNeeded
<1>2. /\ Typed(r1) /\ SameDesk(r, r1) /\ r1.vis = r.vis /\ r1.lru = r.lru /\ r1.newer = r.newer
      /\ r1.mem = r.mem /\ r1.ghost = r.ghost /\ r1.dirty = r.dirty /\ r1.failed = r.failed
      /\ r1.retried = r.retried \intersect r.failed
  <2>1. r.retried \intersect r.failed \in SUBSET Sessions
    BY DEF Sound, Typed
  <2> QED BY <2>1 DEF Sound, Typed, SameDesk, SameWindow
<1> HIDE DEF r1
<1>3. Sound(r1)
  <2>1. RowsHold(r1)
    BY <1>2 DEF Sound, RowsHold, SameDesk, SameWindow
  <2>2. ListedAreHidden(r1)
    <3>1. Ids(r1, r1.mem \ r1.vis) = Ids(r, r.mem \ r.vis)
      BY <1>2, IdSame DEF SameDesk, SameWindow, Ids
    <3> QED BY <1>2, <3>1 DEF Sound, ListedAreHidden
  <2> QED BY <1>2, <2>1, <2>2 DEF Sound
<1>4. met \subseteq r.lru /\ leaving \subseteq r.lru /\ E \subseteq met
  OBVIOUS
<1>5. Sound(q) /\ RowsLeft(r1, q)
  <2> HIDE DEF met
  <2> QED BY <1>2, <1>3, <1>4, EvictSessionsSound
<1>6. RowsLeft(r, q)
  <2>1. \A s : Id(r1, s) = Id(r, s)
    BY <1>2, IdSame DEF SameDesk, SameWindow
  <2> HIDE DEF q
  <2> QED BY <1>2, <1>5, <2>1 DEF RowsLeft, SameDesk, SameWindow
<1>7. \A id : Stays(r1, id) <=> Stays(r, id)
  BY <1>2 DEF Stays, Names, Id, Unsaved, SameDesk, SameWindow
<1>8. Out(r1, met) = E
  BY <1>7 DEF Out
<1>9. /\ q.lru = r.lru \ E
      /\ q.failed = r.failed \union Refused(r1, met)
      /\ q.retried = r1.retried \union Refused(r1, met)
  <2> HIDE DEF met, E
  <2> QED BY <1>2, <1>8, EvictSessionsFields, LruRemoveFields
<1>10. /\ IsFiniteSet(r.lru) /\ Cardinality(r.lru) \in Nat /\ r.capacity \in Nat /\ n \in Int
  BY ListFinite DEF Sound, Typed
<1>11. /\ IsFiniteSet(leaving) /\ Cardinality(leaving) \in Nat
       /\ IsFiniteSet(E) /\ Cardinality(E) \in Nat
       /\ IsFiniteSet(q.lru) /\ Cardinality(q.lru) = Cardinality(r.lru) - Cardinality(E)
  <2> HIDE DEF leaving, E, q
  <2>1. r.lru \intersect E = E /\ E \subseteq r.lru
    BY <1>4
  <2> QED BY <1>4, <1>9, <1>10, <2>1, FS_Subset, FS_CardinalityType, FS_Difference
<1>12. E = leaving \/ Cardinality(E) >= n
  <2> DEFINE older == [x \in leaving |-> {y \in leaving : <<x, y>> \in r.newer}]
  <2>1. E \in SUBSET leaving /\ \A x \in leaving : x \in E <=> Cardinality(older[x]) < n
    <3>1. \A x \in leaving : older[x] = {y \in leaving : <<x, y>> \in r.newer}
      OBVIOUS
    <3>2. \A x \in leaving : Cardinality(older[x]) = Cardinality({y \in leaving : <<x, y>> \in r.newer})
      BY <3>1
    <3> HIDE DEF older, n
    <3> QED BY <3>2
  <2>2. older \in [leaving -> SUBSET leaving]
    OBVIOUS
  <2>3. \A x, y \in leaving : y \in older[x] <=> <<x, y>> \in r.newer
    OBVIOUS
  <2> HIDE DEF E, n, older
  <2>4. \A x \in leaving : x \notin older[x]
    BY <1>4, <2>3 DEF Sound, NewestFirst
  <2>5. ASSUME NEW x \in leaving, NEW y \in leaving, y \in older[x] PROVE older[y] \subseteq older[x]
    <3> SUFFICES ASSUME NEW z \in older[y] PROVE z \in older[x]
      OBVIOUS
    <3>1. z \in leaving
      BY <2>2
    <3> HIDE DEF leaving
    <3>2. <<x, y>> \in r.newer /\ <<y, z>> \in r.newer
      BY <2>3, <2>5, <3>1
    <3>3. <<x, z>> \in r.newer
      BY <1>4, <3>1, <3>2 DEF Sound, NewestFirst
    <3> QED BY <2>3, <3>1, <3>3
  <2> HIDE DEF leaving
  <2> QED BY <1>10, <1>11, <2>1, <2>2, <2>4, <2>5, OldestLeave
<1>k. \A s \in r.mem \ q.mem : Id(r, s) # keep
  <2>1. q.mem = r1.mem \ Left(r1, met)
    <3> HIDE DEF met
    <3> QED BY <1>2, EvictSessionsFields
  <2>2. \A s \in Left(r1, met) : Id(r1, s) \in met
    BY DEF Left, Met
  <2>3. \A s : Id(r1, s) = Id(r, s)
    BY <1>2, IdSame DEF SameDesk
  <2>4. \A id \in met : id # keep
    OBVIOUS
  <2> HIDE DEF q, met
  <2> QED BY <1>2, <2>1, <2>2, <2>3, <2>4
<1>13. Loose(q) \subseteq q.lru /\ RoomOf(q) \in Nat /\ RoomOf(q) >= 1 /\ RoomOf(q) >= r.capacity
  <2>1. q.capacity = r.capacity
    BY <1>6 DEF RowsLeft, SameDesk, SameWindow
  <2> HIDE DEF q
  <2> QED BY <1>10, <2>1 DEF Loose, RoomOf
<1>14. CASE Cardinality(E) >= n
  <2>1. Cardinality(q.lru) <= r.capacity /\ Cardinality(q.lru) \in Nat
    <3> HIDE DEF E, q
    <3> QED BY <1>10, <1>11, <1>14, FS_CardinalityType
  <2>2. Cardinality(Loose(q)) <= Cardinality(q.lru) /\ Cardinality(Loose(q)) \in Nat
    <3> HIDE DEF q
    <3> QED BY <1>11, <1>13, FS_Subset, FS_CardinalityType
  <2> HIDE DEF q
  <2>3. Cardinality(Loose(q)) <= RoomOf(q)
    BY <1>10, <1>13, <2>1, <2>2
  <2> QED BY <1>1, <1>5, <1>6, <1>k, <2>3 DEF q
<1>15. CASE Cardinality(E) < n /\ E = leaving
  <2>1. met = r.lru \ {keep}
    <3> SUFFICES ASSUME NEW id \in r.lru \ {keep}
                 PROVE  Cardinality({x \in leaving : <<id, x>> \in r.newer}) < n
      OBVIOUS
    <3> DEFINE older == {x \in leaving : <<id, x>> \in r.newer}
    <3>1. older \subseteq leaving
      OBVIOUS
    <3> HIDE DEF older, leaving, E, n
    <3>2. Cardinality(older) <= Cardinality(leaving) /\ Cardinality(older) \in Nat
      BY <1>11, <3>1, FS_Subset, FS_CardinalityType
    <3>3. Cardinality(older) < n
      BY <1>10, <1>11, <1>15, <3>2
    <3> QED BY <3>3 DEF older
  <2>2. Loose(q) \subseteq {keep}
    <3> SUFFICES ASSUME NEW id \in q.lru, id # keep, q.pins[id.session] = 0, id.session \notin q.retried
                 PROVE  FALSE
      BY DEF Loose
    <3>1. id \in met /\ Stays(r1, id)
      BY <1>7, <1>9, <1>15, <2>1
    <3>2. id.session \in r1.rows \intersect r1.mem /\ id.session \in Sessions /\ Id(r1, id.session) = id
      BY <1>2, <1>3, <1>9, ListedRow
    <3>3. r1.pins[id.session] = 0
      BY <1>5 DEF RowsLeft, SameDesk, SameWindow
    <3>4. id.session \notin r1.failed
      <4> HIDE DEF q, met
      <4> QED BY <1>2, <1>5, <1>9 DEF Sound, RowsHold
    <3>5. Unsaved(r1, id.session)
      BY <3>1, <3>3, <3>4 DEF Stays
    <3>6. id.session \in Refused(r1, met)
      <4> HIDE DEF met
      <4> QED BY <3>1, <3>2, <3>3, <3>4, <3>5 DEF Refused, Met
    <3> HIDE DEF q, met
    <3> QED BY <1>9, <3>6
  <2> HIDE DEF q
  <2>3. Cardinality(Loose(q)) <= 1 /\ Cardinality(Loose(q)) \in Nat
    <3>1. IsFiniteSet({keep}) /\ Cardinality({keep}) = 1
      BY FS_Singleton
    <3> QED BY <2>2, <3>1, FS_Subset, FS_CardinalityType
  <2>4. Cardinality(Loose(q)) <= RoomOf(q)
    BY <1>13, <2>3
  <2> QED BY <1>1, <1>5, <1>6, <1>k, <2>4 DEF q
<1> QED
  <2> HIDE DEF E, leaving, q, n
  <2> QED BY <1>10, <1>11, <1>12, <1>14, <1>15

-------------------------------------------------------------------------------
(* Loading and saving                                                         *)

LEMMA BoundedKept ==
  ASSUME NEW r, Sound(r), IsSessionCache, Bounded(r),
         NEW q, Loose(q) \subseteq Loose(r), q.capacity = r.capacity, r.passQueued => q.passQueued
  PROVE  Bounded(q)
<1>1. IsFiniteSet(Loose(r)) /\ Cardinality(Loose(r)) \in Nat
  BY ListFinite, FS_Subset, FS_CardinalityType DEF Loose
<1>2. Cardinality(Loose(q)) <= Cardinality(Loose(r)) /\ Cardinality(Loose(q)) \in Nat
  BY <1>1, FS_Subset, FS_CardinalityType
<1>3. RoomOf(q) = RoomOf(r) /\ RoomOf(r) \in Nat
  BY DEF RoomOf, Sound, Typed
<1> QED BY <1>1, <1>2, <1>3 DEF Bounded

LEMMA LoadedSound ==
  ASSUME NEW r, Sound(r), NEW S, S \subseteq r.rows \ r.mem
  PROVE  LET q == Loaded(r, S)
         IN  /\ Sound(q) /\ SameWindow(r, q) /\ q.vis = r.vis /\ q.lru = r.lru
             /\ q.mem = r.mem \union S /\ q.ghost = r.ghost \union (S \intersect disk.unreadable)
             /\ q.retried = r.retried /\ q.dirty = r.dirty
             /\ \A s \in r.mem : Id(q, s) = Id(r, s)
<1> DEFINE mem == r.mem \union S
           ghost == r.ghost \union (S \intersect disk.unreadable)
           stems == r.stems \ (S \ disk.unreadable)
           a == [r EXCEPT !.mem = mem]
           b == [a EXCEPT !.ghost = ghost]
           q == [b EXCEPT !.stems = stems]
<1>1. Loaded(r, S) = q
  BY DEF Loaded
<1>2. mem \in SUBSET Sessions /\ ghost \in SUBSET Sessions /\ stems \in SUBSET Sessions
  BY DEF Sound, Typed
<1> HIDE DEF mem, ghost, stems
<1>3. /\ Typed(a) /\ SameDesk(r, a) /\ a.vis = r.vis /\ a.lru = r.lru /\ a.newer = r.newer
      /\ a.mem = mem /\ a.ghost = r.ghost /\ a.dirty = r.dirty /\ a.failed = r.failed /\ a.retried = r.retried
  BY <1>2 DEF Sound, Typed, SameDesk, SameWindow
<1> HIDE DEF a
<1>4. /\ Typed(b) /\ SameDesk(a, b) /\ b.vis = a.vis /\ b.lru = a.lru /\ b.newer = a.newer
      /\ b.mem = a.mem /\ b.ghost = ghost /\ b.dirty = a.dirty /\ b.failed = a.failed /\ b.retried = a.retried
  BY <1>2, <1>3 DEF Typed, SameDesk, SameWindow
<1> HIDE DEF b
<1>5. /\ Typed(q) /\ SameWindow(b, q) /\ q.vis = b.vis /\ q.lru = b.lru /\ q.newer = b.newer /\ q.stems = stems
      /\ q.mem = b.mem /\ q.ghost = b.ghost /\ q.dirty = b.dirty /\ q.failed = b.failed /\ q.retried = b.retried
  BY <1>2, <1>4 DEF Typed, SameWindow
<1> HIDE DEF q
<1>6. /\ Typed(q) /\ SameWindow(r, q) /\ q.vis = r.vis /\ q.lru = r.lru /\ q.newer = r.newer
      /\ q.mem = r.mem \union S /\ q.ghost = r.ghost \union (S \intersect disk.unreadable)
      /\ q.dirty = r.dirty /\ q.failed = r.failed /\ q.retried = r.retried
  BY <1>3, <1>4, <1>5 DEF SameDesk, SameWindow, mem, ghost
<1>7. \A s \in r.mem : Id(q, s) = Id(r, s)
  BY <1>5, IdSame DEF stems
<1>8. RowsHold(q)
  BY <1>6 DEF Sound, RowsHold, SameWindow
<1>9. ListedAreHidden(q)
  BY <1>6, <1>7 DEF Sound, ListedAreHidden, Ids
<1>10. Sound(q)
  BY <1>6, <1>8, <1>9 DEF Sound
<1> QED BY <1>1, <1>6, <1>7, <1>10

LEMMA LoadedListed ==
  ASSUME NEW r, Sound(r), NEW S, S \subseteq r.rows \ r.mem, NEW X, HiddenAreListed(r, X)
  PROVE  HiddenAreListed(Loaded(r, S), X \union (S \ r.vis))
<1> DEFINE q == Loaded(r, S)
<1>1. /\ Sound(q) /\ SameWindow(r, q) /\ q.vis = r.vis /\ q.lru = r.lru
      /\ q.mem = r.mem \union S
      /\ \A s \in r.mem : Id(q, s) = Id(r, s)
  BY LoadedSound
<1> HIDE DEF q
<1>2. HiddenAreListed(q, X \union (S \ r.vis))
  BY <1>1 DEF HiddenAreListed, SameWindow
<1> QED BY <1>2 DEF q

\* What sessionRef() leaves of the model r.
RowServed(r, q, s) ==
  /\ SameWindow(r, q) /\ q.vis = r.vis /\ s \in q.mem /\ q.mem \subseteq r.mem \union {s}
  /\ \A x \in r.mem \ q.mem : x \notin r.vis /\ r.pins[x] = 0
  /\ Bounded(r) => Bounded(q)
  /\ s \notin r.vis \ r.mem => OnScreen(q) = OnScreen(r)
  /\ s \in r.mem => SameMemory(r, q)

LEMMA UsedSound ==
  ASSUME NEW r, Sound(r), IsSessionCache, HiddenAreListed(r, {}), NEW s \in r.mem
  PROVE  LET q == Used(r, s)
         IN  /\ Sound(q) /\ SameDesk(r, q) /\ SameMemory(r, q) /\ q.vis = r.vis /\ q.lru = r.lru
             /\ HiddenAreListed(q, {})
<1>1. CASE s \notin r.vis /\ Id(r, s) # r.focus
  <2> DEFINE q == LruTouch(r, {s})
  <2>1. /\ Sound(q) /\ SameDesk(r, q) /\ SameMemory(r, q) /\ q.vis = r.vis
        /\ q.lru = r.lru \union Ids(r, {s})
    BY <1>1, TouchSound
  <2> HIDE DEF q
  <2>2. Ids(r, {s}) \subseteq r.lru
    BY <1>1 DEF HiddenAreListed, Ids
  <2>3. q.lru = r.lru
    BY <2>1, <2>2
  <2>4. HiddenAreListed(q, {})
    BY <2>1, <2>3, IdSame DEF HiddenAreListed, SameDesk, SameWindow, SameMemory
  <2> QED BY <1>1, <2>1, <2>3, <2>4 DEF Used, q
<1>2. CASE ~(s \notin r.vis /\ Id(r, s) # r.focus)
  <2>1. Used(r, s) = r
    BY <1>2 DEF Used
  <2> QED BY <2>1 DEF SameDesk, SameWindow, SameMemory
<1> QED BY <1>1, <1>2

LEMMA SessionRefSound ==
  ASSUME NEW r, Sound(r), IsSessionCache, HiddenAreListed(r, {}), NEW s \in r.rows
  PROVE  LET q == SessionRef(r, s)
         IN  Sound(q) /\ HiddenAreListed(q, {}) /\ RowServed(r, q, s)
<1>1. CASE s \in r.mem
  <2> DEFINE q == Used(r, s)
  <2>1. /\ Sound(q) /\ SameDesk(r, q) /\ SameMemory(r, q) /\ q.vis = r.vis /\ q.lru = r.lru
        /\ HiddenAreListed(q, {})
    BY <1>1, UsedSound
  <2> HIDE DEF q
  <2>2. Loose(q) = Loose(r)
    BY <2>1 DEF Loose, SameDesk, SameWindow, SameMemory
  <2>3. Bounded(r) => Bounded(q)
    BY <2>1, <2>2, BoundedKept DEF SameDesk, SameWindow
  <2>4. OnScreen(q) = OnScreen(r)
    BY <2>1 DEF OnScreen, Shown, SameDesk, SameWindow, SameMemory
  <2>5. RowServed(r, q, s)
    BY <1>1, <2>1, <2>3, <2>4 DEF RowServed, SameDesk, SameMemory
  <2> QED BY <1>1, <2>1, <2>5 DEF SessionRef, q
<1>2. CASE s \notin r.mem
  <2> DEFINE l == Loaded(r, {s})
  <2>1. /\ Sound(l) /\ SameWindow(r, l) /\ l.vis = r.vis /\ l.lru = r.lru
        /\ l.mem = r.mem \union {s} /\ l.ghost = r.ghost \union ({s} \intersect disk.unreadable)
        /\ l.retried = r.retried /\ l.dirty = r.dirty
        /\ \A x \in r.mem : Id(l, x) = Id(r, x)
    BY <1>2, LoadedSound
  <2>2. HiddenAreListed(l, {s} \ r.vis)
    <3>1. HiddenAreListed(l, {} \union ({s} \ r.vis))
      BY <1>2, LoadedListed
    <3> QED BY <3>1 DEF HiddenAreListed
  <2> HIDE DEF l
  <2>3. s \notin r.vis => OnScreen(l) = OnScreen(r)
    BY <2>1 DEF OnScreen, Shown, SameWindow
  <2>4. Loose(l) = Loose(r)
    BY <2>1 DEF Loose, SameWindow
  <2>5. Bounded(r) => Bounded(l)
    BY <2>1, <2>4, BoundedKept DEF SameWindow
  <2>6. CASE s \notin r.vis /\ Id(l, s) # r.focus
    <3> DEFINE t == LruTouch(l, {s})
               q == EvictIfNeeded(t, Id(l, s))
    <3>1. /\ Sound(t) /\ SameDesk(l, t) /\ SameMemory(l, t) /\ t.vis = l.vis
          /\ t.lru = l.lru \union Ids(l, {s})
      BY <2>1, <2>6, TouchSound
    <3> HIDE DEF t
    <3>2. HiddenAreListed(t, {})
      <4>1. \A x : Id(t, x) = Id(l, x)
        BY <3>1, IdSame DEF SameDesk
      <4> QED BY <2>2, <3>1, <4>1 DEF HiddenAreListed, SameDesk, SameWindow, SameMemory, Ids
    <3>3. /\ Sound(q) /\ RowsLeft(t, q) /\ Cardinality(Loose(q)) <= RoomOf(q)
          /\ \A x \in t.mem \ q.mem : Id(t, x) # Id(l, s)
      BY <3>1, EvictIfNeededSound
    <3> HIDE DEF q
    <3>4. HiddenAreListed(q, {})
      BY <3>2, <3>3, LeftKeepsListed
    <3>5. OnScreen(q) = OnScreen(r)
      <4>1. OnScreen(t) = OnScreen(l)
        BY <3>1 DEF OnScreen, Shown, SameDesk, SameWindow, SameMemory
      <4> QED BY <2>3, <2>6, <3>3, <4>1, LeftKeepsScreen
    <3>6. s \in q.mem
      <4>1. Id(t, s) = Id(l, s) /\ s \in t.mem
        BY <2>1, <3>1, IdSame DEF SameDesk, SameMemory
      <4> QED BY <3>3, <4>1
    <3>7. RowServed(r, q, s)
      <4>1. SameWindow(r, q) /\ q.vis = r.vis
        BY <2>1, <3>1, <3>3 DEF RowsLeft, SameDesk, SameWindow
      <4>2. q.mem \subseteq r.mem \union {s}
        BY <2>1, <3>1, <3>3 DEF RowsLeft, SameMemory
      <4>3. \A x \in r.mem \ q.mem : x \notin r.vis /\ r.pins[x] = 0
        BY <2>1, <3>1, <3>3 DEF RowsLeft, SameMemory, SameDesk, SameWindow
      <4>4. Bounded(q)
        BY <3>3 DEF Bounded
      <4> QED BY <1>2, <3>5, <3>6, <4>1, <4>2, <4>3, <4>4 DEF RowServed
    <3>8. SessionRef(r, s) = q
      BY <1>2, <2>6 DEF SessionRef, l, t, q
    <3> QED BY <3>3, <3>4, <3>7, <3>8
  <2>7. CASE ~(s \notin r.vis /\ Id(l, s) # r.focus)
    <3>1. HiddenAreListed(l, {})
      BY <2>1, <2>2, <2>7 DEF HiddenAreListed, SameWindow
    <3>2. RowServed(r, l, s)
      BY <1>2, <2>1, <2>3, <2>5 DEF RowServed
    <3>3. SessionRef(r, s) = l
      BY <1>2, <2>7 DEF SessionRef, l
    <3> QED BY <2>1, <3>1, <3>2, <3>3
  <2> QED BY <2>6, <2>7
<1> QED BY <1>1, <1>2

\* A change of what is unsaved alone.
LEMMA MemorySound ==
  ASSUME NEW r, Sound(r), IsSessionCache, NEW q, Typed(q), SameDesk(r, q), q.vis = r.vis, q.lru = r.lru, q.newer = r.newer,
         q.mem = r.mem, q.ghost = r.ghost, q.dirty \subseteq r.mem \ r.ghost,
         q.failed \subseteq q.retried, r.retried \subseteq q.retried
  PROVE  /\ Sound(q) /\ OnScreen(q) = OnScreen(r)
         /\ Bounded(r) => Bounded(q)
         /\ \A X : HiddenAreListed(r, X) => HiddenAreListed(q, X)
<1>0. \A s : Id(q, s) = Id(r, s)
  BY IdSame DEF SameDesk
<1>1. RowsHold(q)
  BY DEF Sound, RowsHold, SameDesk, SameWindow
<1>2. ListedAreHidden(q)
  BY <1>0 DEF Sound, ListedAreHidden, Ids
<1>3. Sound(q)
  BY <1>1, <1>2 DEF Sound
<1>4. OnScreen(q) = OnScreen(r)
  BY DEF OnScreen, Shown, SameDesk, SameWindow
<1>5. Loose(q) \subseteq Loose(r)
  BY DEF Loose, SameDesk, SameWindow
<1>6. Bounded(r) => Bounded(q)
  BY <1>5, BoundedKept DEF SameDesk, SameWindow
<1>7. \A X : HiddenAreListed(r, X) => HiddenAreListed(q, X)
  BY <1>0 DEF HiddenAreListed, SameDesk, SameWindow
<1> QED BY <1>3, <1>4, <1>6, <1>7

\* q is r with other unsaved rows.
OnlySaves(r, q) ==
  /\ SameDesk(r, q) /\ q.vis = r.vis /\ q.mem = r.mem /\ q.ghost = r.ghost
  /\ OnScreen(q) = OnScreen(r)
  /\ Bounded(r) => Bounded(q)
  /\ \A X : HiddenAreListed(r, X) => HiddenAreListed(q, X)

LEMMA ScheduleSaveSound ==
  ASSUME NEW r, Sound(r), IsSessionCache, NEW s \in r.mem
  PROVE  Sound(ScheduleSave(r, s)) /\ OnlySaves(r, ScheduleSave(r, s))
<1>1. CASE s \in r.ghost \/ s \in SaveWork(r)
  <2>1. ScheduleSave(r, s) = r
    BY <1>1 DEF ScheduleSave
  <2> QED BY <2>1 DEF OnlySaves, SameDesk, SameWindow
<1>2. CASE ~(s \in r.ghost \/ s \in SaveWork(r))
  <2> DEFINE dirty == r.dirty \union {s}
             failed == r.failed \ {s}
             a == [r EXCEPT !.dirty = dirty]
             q == [a EXCEPT !.failed = failed]
  <2>1. dirty \in SUBSET Sessions /\ failed \in SUBSET Sessions
    BY DEF Sound, Typed
  <2>2. dirty \subseteq r.mem \ r.ghost /\ failed \subseteq r.retried
    BY <1>2 DEF Sound, RowsHold
  <2>3. ScheduleSave(r, s) = q
    BY <1>2 DEF ScheduleSave
  <2> HIDE DEF dirty, failed
  <2>4. /\ Typed(a) /\ SameDesk(r, a) /\ a.vis = r.vis /\ a.lru = r.lru /\ a.newer = r.newer
        /\ a.mem = r.mem /\ a.ghost = r.ghost /\ a.dirty = dirty /\ a.retried = r.retried
    BY <2>1 DEF Sound, Typed, SameDesk, SameWindow
  <2> HIDE DEF a
  <2>5. /\ Typed(q) /\ SameDesk(a, q) /\ q.vis = a.vis /\ q.lru = a.lru /\ q.newer = a.newer
        /\ q.mem = a.mem /\ q.ghost = a.ghost /\ q.dirty = a.dirty /\ q.failed = failed /\ q.retried = a.retried
    BY <2>1, <2>4 DEF Typed, SameDesk, SameWindow
  <2> HIDE DEF q
  <2>6. /\ Typed(q) /\ SameDesk(r, q) /\ q.vis = r.vis /\ q.lru = r.lru /\ q.newer = r.newer
        /\ q.mem = r.mem /\ q.ghost = r.ghost /\ q.dirty \subseteq r.mem \ r.ghost
        /\ q.failed \subseteq q.retried /\ r.retried \subseteq q.retried
    BY <2>2, <2>4, <2>5 DEF SameDesk, SameWindow
  <2> QED BY <2>3, <2>6, MemorySound DEF OnlySaves
<1> QED BY <1>1, <1>2

LEMMA SaveRowSound ==
  ASSUME NEW r, Sound(r), IsSessionCache, NEW s \in Sessions
  PROVE  Sound(SaveRow(r, s)) /\ OnlySaves(r, SaveRow(r, s))
<1>1. CASE disk.full
  <2> DEFINE failed == r.failed \union {s}
             retried == r.retried \union {s}
             a == [r EXCEPT !.failed = failed]
             q == [a EXCEPT !.retried = retried]
  <2>1. retried \in SUBSET Sessions /\ failed \in SUBSET Sessions
    BY DEF Sound, Typed
  <2>2. failed \subseteq retried /\ r.retried \subseteq retried
    BY DEF Sound, RowsHold
  <2>3. SaveRow(r, s) = q
    BY <1>1 DEF SaveRow
  <2> HIDE DEF retried, failed
  <2>4. /\ Typed(a) /\ SameDesk(r, a) /\ a.vis = r.vis /\ a.lru = r.lru /\ a.newer = r.newer
        /\ a.mem = r.mem /\ a.ghost = r.ghost /\ a.dirty = r.dirty /\ a.failed = failed
    BY <2>1 DEF Sound, Typed, SameDesk, SameWindow
  <2> HIDE DEF a
  <2>5. /\ Typed(q) /\ SameDesk(a, q) /\ q.vis = a.vis /\ q.lru = a.lru /\ q.newer = a.newer
        /\ q.mem = a.mem /\ q.ghost = a.ghost /\ q.dirty = a.dirty /\ q.failed = a.failed /\ q.retried = retried
    BY <2>1, <2>4 DEF Typed, SameDesk, SameWindow
  <2> HIDE DEF q
  <2>6. /\ Typed(q) /\ SameDesk(r, q) /\ q.vis = r.vis /\ q.lru = r.lru /\ q.newer = r.newer
        /\ q.mem = r.mem /\ q.ghost = r.ghost /\ q.dirty \subseteq r.mem \ r.ghost
        /\ q.failed \subseteq q.retried /\ r.retried \subseteq q.retried
    BY <2>2, <2>4, <2>5 DEF SameDesk, SameWindow, Sound, RowsHold
  <2> QED BY <2>3, <2>6, MemorySound DEF OnlySaves
<1>2. CASE ~disk.full
  <2> DEFINE dirty == r.dirty \ {s}
             failed == r.failed \ {s}
             a == [r EXCEPT !.dirty = dirty]
             q == [a EXCEPT !.failed = failed]
  <2>1. dirty \in SUBSET Sessions /\ failed \in SUBSET Sessions
    BY DEF Sound, Typed
  <2>2. dirty \subseteq r.mem \ r.ghost /\ failed \subseteq r.retried
    BY DEF Sound, RowsHold
  <2>3. SaveRow(r, s) = q
    BY <1>2 DEF SaveRow
  <2> HIDE DEF dirty, failed
  <2>4. /\ Typed(a) /\ SameDesk(r, a) /\ a.vis = r.vis /\ a.lru = r.lru /\ a.newer = r.newer
        /\ a.mem = r.mem /\ a.ghost = r.ghost /\ a.dirty = dirty /\ a.retried = r.retried
    BY <2>1 DEF Sound, Typed, SameDesk, SameWindow
  <2> HIDE DEF a
  <2>5. /\ Typed(q) /\ SameDesk(a, q) /\ q.vis = a.vis /\ q.lru = a.lru /\ q.newer = a.newer
        /\ q.mem = a.mem /\ q.ghost = a.ghost /\ q.dirty = a.dirty /\ q.failed = failed /\ q.retried = a.retried
    BY <2>1, <2>4 DEF Typed, SameDesk, SameWindow
  <2> HIDE DEF q
  <2>6. /\ Typed(q) /\ SameDesk(r, q) /\ q.vis = r.vis /\ q.lru = r.lru /\ q.newer = r.newer
        /\ q.mem = r.mem /\ q.ghost = r.ghost /\ q.dirty \subseteq r.mem \ r.ghost
        /\ q.failed \subseteq q.retried /\ r.retried \subseteq q.retried
    BY <2>2, <2>4, <2>5 DEF SameDesk, SameWindow
  <2> QED BY <2>3, <2>6, MemorySound DEF OnlySaves
<1> QED BY <1>1, <1>2

-------------------------------------------------------------------------------
(* Showing and hiding                                                         *)

LEMMA RowsVisibilitySound ==
  ASSUME NEW r, Sound(r), IsSessionCache, NEW X, HiddenAreListed(r, X),
         NEW shown, shown \subseteq r.rows \ r.vis, NEW hidden, hidden \subseteq r.vis
  PROVE  LET q == RowsVisibility(r, shown, hidden)
         IN  /\ Sound(q) /\ SameDesk(r, q) /\ SameMemory(r, q) /\ q.vis = (r.vis \union shown) \ hidden
             /\ HiddenAreListed(q, X \ shown)
<1> DEFINE out == LruRemove(r, Ids(r, shown))
           touched == hidden \intersect r.mem
           t == LruTouch(out, touched)
           vis == (r.vis \union shown) \ hidden
           a == [t EXCEPT !.vis = vis]
           q == [a EXCEPT !.queue = Dequeued(r, hidden)]
<1>0. touched \in SUBSET Sessions /\ vis \in SUBSET Sessions /\ vis \subseteq r.rows
  BY DEF Sound, Typed, RowsHold
<1>1. /\ Sound(out) /\ Typed(out) /\ SameDesk(r, out) /\ SameMemory(r, out) /\ out.vis = r.vis
      /\ out.lru = r.lru \ Ids(r, shown)
  BY RemoveSound, LruRemoveFields DEF Sound
<1> HIDE DEF out
<1>2. /\ Typed(t) /\ SameDesk(out, t) /\ SameMemory(out, t) /\ t.vis = out.vis
      /\ t.lru = (out.lru \ Ids(out, touched)) \union Ids(out, touched)
      /\ t.newer = ({x \in out.newer : x[1] \notin Ids(out, touched) /\ x[2] \notin Ids(out, touched)}
                     \union (Ids(out, touched) \X (out.lru \ Ids(out, touched))))
                   \union {x \in Ids(out, touched) \X Ids(out, touched) : x[1].session > x[2].session}
  <2> HIDE DEF touched
  <2> QED BY <1>0, <1>1, LruTouchFields
<1>3. NewestFirst(t.lru, t.newer)
  <2>1. NewestFirst(out.lru, out.newer)
    BY <1>1 DEF Sound
  <2> HIDE DEF touched, t
  <2> QED BY <1>0, <1>2, <2>1, TouchNewest
<1>4. RowsVisibility(r, shown, hidden) = q
  <2>1. out.mem = r.mem /\ t.vis = r.vis
    BY <1>1, <1>2 DEF SameMemory
  <2> QED BY <2>1, <1>1, <1>2 DEF RowsVisibility, out, SameMemory
<1> HIDE DEF t, touched, vis
<1>5. /\ Typed(a) /\ SameDesk(t, a) /\ SameMemory(t, a) /\ a.vis = vis /\ a.lru = t.lru /\ a.newer = t.newer
  BY <1>0, <1>2 DEF Typed, SameDesk, SameWindow, SameMemory
<1> HIDE DEF a
<1>6. /\ Typed(q) /\ SameDesk(a, q) /\ SameMemory(a, q) /\ q.vis = a.vis /\ q.lru = a.lru /\ q.newer = a.newer
  BY <1>5 DEF Typed, SameDesk, SameWindow, SameMemory
<1> HIDE DEF q
<1>7. /\ Typed(q) /\ SameDesk(r, q) /\ SameMemory(r, q) /\ q.vis = vis
      /\ q.lru = out.lru \union Ids(out, touched) /\ NewestFirst(q.lru, q.newer)
  BY <1>1, <1>2, <1>3, <1>5, <1>6 DEF SameDesk, SameWindow, SameMemory
<1>8. \A s : Id(q, s) = Id(r, s) /\ Id(out, s) = Id(r, s)
  BY <1>1, <1>7, IdSame DEF SameDesk
<1>9. q.lru = (r.lru \ Ids(r, shown)) \union Ids(r, touched)
  BY <1>1, <1>7, <1>8 DEF Ids
<1>10. RowsHold(q)
  BY <1>0, <1>7 DEF Sound, RowsHold, SameDesk, SameWindow, SameMemory
<1>11. ListedAreHidden(q)
  <2> SUFFICES ASSUME NEW id \in q.lru PROVE \E s \in q.mem \ q.vis : id = Id(q, s)
    BY DEF ListedAreHidden, Ids
  <2>1. CASE id \in Ids(r, touched)
    <3>1. PICK s \in touched : id = Id(r, s)
      BY <2>1 DEF Ids
    <3> QED BY <1>7, <1>8, <3>1 DEF touched, vis, SameMemory
  <2>2. CASE id \in r.lru \ Ids(r, shown)
    <3>1. id.session \in r.mem \ r.vis /\ Id(r, id.session) = id
      BY <2>2, ListedRow
    <3>2. id.session \notin shown
      BY <2>2, <3>1 DEF Ids
    <3> QED BY <1>7, <1>8, <3>1, <3>2 DEF vis, SameMemory
  <2> QED BY <1>9, <2>1, <2>2
<1>12. HiddenAreListed(q, X \ shown)
  <2> SUFFICES ASSUME NEW s \in q.mem, s \notin q.vis, s \notin X \ shown, Id(q, s) # q.focus
               PROVE  Id(q, s) \in q.lru
    BY DEF HiddenAreListed
  <2>1. s \in r.mem /\ s \notin vis /\ Id(q, s) = Id(r, s) /\ q.focus = r.focus
    BY <1>7, <1>8 DEF SameMemory, SameDesk, SameWindow
  <2>2. CASE s \in hidden
    BY <1>9, <2>1, <2>2 DEF touched, Ids
  <2>3. CASE s \notin hidden
    <3>1. s \notin r.vis /\ s \notin shown /\ s \notin X
      BY <2>1, <2>3 DEF vis
    <3>2. Id(r, s) \in r.lru
      BY <2>1, <3>1 DEF HiddenAreListed
    <3>3. Id(r, s) \notin Ids(r, shown)
      BY <3>1, IdFields DEF Ids
    <3> QED BY <1>9, <2>1, <3>2, <3>3
  <2> QED BY <2>2, <2>3
<1>13. Sound(q)
  BY <1>7, <1>10, <1>11 DEF Sound
<1> QED BY <1>4, <1>7, <1>12, <1>13 DEF vis

\* A change of the load queue alone.
LEMMA QueueSound ==
  ASSUME NEW r, Sound(r), NEW new
  PROVE  LET q == [r EXCEPT !.queue = new]
         IN  /\ Sound(q) /\ SameDesk(r, q) /\ SameMemory(r, q) /\ q.vis = r.vis /\ q.lru = r.lru
             /\ \A X : HiddenAreListed(r, X) => HiddenAreListed(q, X)
<1> DEFINE q == [r EXCEPT !.queue = new]
<1>1. /\ Typed(q) /\ SameDesk(r, q) /\ SameMemory(r, q) /\ q.vis = r.vis /\ q.lru = r.lru /\ q.newer = r.newer
  BY DEF Sound, Typed, SameDesk, SameWindow, SameMemory
<1> HIDE DEF q
<1>2. \A s : Id(q, s) = Id(r, s)
  BY <1>1, IdSame DEF SameDesk
<1>3. NewestFirst(q.lru, q.newer) /\ q.lru \subseteq Ids(r, r.mem \ r.vis)
  BY <1>1 DEF Sound, ListedAreHidden
<1>4. Sound(q)
  BY <1>1, <1>3, ListSound
<1>5. \A X : HiddenAreListed(r, X) => HiddenAreListed(q, X)
  BY <1>1, <1>2 DEF HiddenAreListed, SameDesk, SameWindow, SameMemory
<1> QED BY <1>1, <1>4, <1>5 DEF q

LEMMA QueueOrLoadSound ==
  ASSUME NEW r, Sound(r), NEW X, HiddenAreListed(r, X), NEW stubs
  PROVE  LET q == QueueOrLoad(r, stubs)
         IN  /\ Sound(q) /\ SameWindow(r, q) /\ q.vis = r.vis /\ HiddenAreListed(q, X)
             /\ r.mem \subseteq q.mem /\ q.mem \ r.mem \subseteq r.vis
             /\ q.mem = r.mem => q.ghost = r.ghost
             /\ q.dirty = r.dirty
<1> DEFINE all == r.queue \o [i \in DOMAIN RowsOf(stubs) |-> Id(r, RowsOf(stubs)[i])]
           small == all # <<>> /\ Len(all) <= SyncLoad
           S == {s \in r.rows : \E i \in DOMAIN all : all[i].session = s /\ ToLoad(r, all[i])}
           e == [r EXCEPT !.queue = <<>>]
           f == [r EXCEPT !.queue = all]
           q == Loaded(e, S)
<1>1. QueueOrLoad(r, stubs) = IF small THEN q ELSE f
  BY DEF QueueOrLoad
<1>2. S \subseteq (r.rows \intersect r.vis) \ r.mem
  BY DEF ToLoad
<1>3. /\ Sound(e) /\ SameDesk(r, e) /\ SameMemory(r, e) /\ e.vis = r.vis /\ e.lru = r.lru /\ HiddenAreListed(e, X)
  BY QueueSound
<1>4. /\ Sound(f) /\ SameDesk(r, f) /\ SameMemory(r, f) /\ f.vis = r.vis /\ f.lru = r.lru /\ HiddenAreListed(f, X)
  <2> HIDE DEF all
  <2> QED BY QueueSound
<1> HIDE DEF all, small, S, e, f
<1>5. S \subseteq e.rows \ e.mem
  BY <1>2, <1>3 DEF SameDesk, SameWindow, SameMemory
<1>6. /\ Sound(q) /\ SameWindow(e, q) /\ q.vis = e.vis /\ q.dirty = e.dirty
      /\ q.mem = e.mem \union S /\ q.ghost = e.ghost \union (S \intersect disk.unreadable)
  BY <1>3, <1>5, LoadedSound
<1>7. HiddenAreListed(q, X)
  <2>1. HiddenAreListed(q, X \union (S \ e.vis))
    BY <1>3, <1>5, LoadedListed
  <2>2. X \union (S \ e.vis) = X
    BY <1>2, <1>3
  <2> QED BY <2>1, <2>2
<1> HIDE DEF q
<1>8. /\ Sound(q) /\ SameWindow(r, q) /\ q.vis = r.vis /\ HiddenAreListed(q, X) /\ q.dirty = r.dirty
      /\ q.mem = r.mem \union S /\ q.ghost = r.ghost \union (S \intersect disk.unreadable)
  BY <1>3, <1>6, <1>7 DEF SameDesk, SameWindow, SameMemory
<1>9. q.mem = r.mem => q.ghost = r.ghost
  BY <1>2, <1>8
<1>10. CASE small
  <2>1. r.mem \subseteq q.mem /\ q.mem \ r.mem \subseteq r.vis
    BY <1>2, <1>8
  <2> QED BY <1>1, <1>8, <1>9, <1>10, <2>1
<1>11. CASE ~small
  BY <1>1, <1>4, <1>11 DEF SameDesk, SameMemory
<1> QED BY <1>10, <1>11

LEMMA SetRowsVisibilitySound ==
  ASSUME NEW r, Sound(r), IsSessionCache, NEW S, S \subseteq r.rows, NEW H, H \subseteq r.rows, S \intersect H = {},
         NEW X, X \subseteq S, HiddenAreListed(r, X)
  PROVE  LET q == SetRowsVisibility(r, S, H)
         IN  /\ Sound(q) /\ HiddenAreListed(q, {}) /\ Bounded(q)
             /\ SameWindow(r, q) /\ q.vis = (r.vis \union S) \ H
             /\ \A x \in r.mem \ q.mem : x \notin q.vis /\ r.pins[x] = 0
             /\ H \intersect r.vis = {} /\ Shown(q) \subseteq Shown(r) => OnScreen(q) = OnScreen(r)
<1> DEFINE v == RowsVisibility(r, S \ r.vis, H \intersect r.vis)
           l == QueueOrLoad(v, S \ r.mem)
           q == EvictIfNeeded(l, NoId)
<1>1. SetRowsVisibility(r, S, H) = q
  BY DEF SetRowsVisibility
<1>2. /\ Sound(v) /\ SameDesk(r, v) /\ SameMemory(r, v)
      /\ v.vis = (r.vis \union (S \ r.vis)) \ (H \intersect r.vis)
      /\ HiddenAreListed(v, X \ (S \ r.vis))
  <2> DEFINE shown == S \ r.vis
             hidden == H \intersect r.vis
             w == RowsVisibility(r, shown, hidden)
  <2>1. shown \subseteq r.rows \ r.vis /\ hidden \subseteq r.vis
    OBVIOUS
  <2> HIDE DEF shown, hidden
  <2>2. /\ Sound(w) /\ SameDesk(r, w) /\ SameMemory(r, w) /\ w.vis = (r.vis \union shown) \ hidden
        /\ HiddenAreListed(w, X \ shown)
    BY <2>1, RowsVisibilitySound
  <2>3. v = w
    BY DEF shown, hidden
  <2> HIDE DEF v, w
  <2> QED BY <2>2, <2>3 DEF shown, hidden
<1> HIDE DEF v
<1>3. v.vis = (r.vis \union S) \ H
  BY <1>2
<1>4. HiddenAreListed(v, {})
  BY <1>2, <1>3 DEF HiddenAreListed
<1>5. /\ Sound(l) /\ SameWindow(v, l) /\ l.vis = v.vis /\ HiddenAreListed(l, {})
      /\ v.mem \subseteq l.mem /\ l.mem \ v.mem \subseteq v.vis
      /\ l.mem = v.mem => l.ghost = v.ghost
  BY <1>2, <1>4, QueueOrLoadSound
<1> HIDE DEF l
<1>6. Sound(q) /\ RowsLeft(l, q) /\ Cardinality(Loose(q)) <= RoomOf(q)
  BY <1>5, EvictIfNeededSound
<1> HIDE DEF q
<1>7. HiddenAreListed(q, {}) /\ Bounded(q)
  BY <1>5, <1>6, LeftKeepsListed DEF Bounded
<1>8. SameWindow(r, q) /\ q.vis = (r.vis \union S) \ H
  BY <1>2, <1>3, <1>5, <1>6 DEF RowsLeft, SameDesk, SameWindow
<1>9. \A x \in r.mem \ q.mem : x \notin q.vis /\ r.pins[x] = 0
  BY <1>2, <1>5, <1>6, <1>8 DEF RowsLeft, SameDesk, SameWindow, SameMemory
<1>10. ASSUME H \intersect r.vis = {}, Shown(q) \subseteq Shown(r)
       PROVE  OnScreen(q) = OnScreen(r)
  <2>1. Shown(q) = Shown(l) /\ OnScreen(q) = OnScreen(l)
    BY <1>6, LeftKeepsScreen
  <2>2. r.mem \subseteq r.rows /\ r.vis \subseteq r.rows /\ l.mem \subseteq l.rows /\ l.rows = r.rows /\ v.mem = r.mem /\ l.vis = v.vis
    BY <1>2, <1>5 DEF Sound, RowsHold, SameDesk, SameWindow, SameMemory
  <2>3. l.mem = v.mem
    <3> SUFFICES ASSUME NEW s \in l.mem, s \notin v.mem PROVE FALSE
      BY <1>5
    <3>1. s \in Shown(l)
      BY <1>5, <2>2 DEF Shown
    <3> QED BY <1>10, <2>1, <2>2, <3>1 DEF Shown
  <2>4. l.ghost = r.ghost
    BY <1>2, <1>5, <2>3 DEF SameMemory
  <2>5. r.vis \subseteq l.vis
    BY <1>3, <1>5, <1>10
  <2>6. Shown(l) = Shown(r)
    BY <1>10, <2>1, <2>2, <2>3, <2>5 DEF Shown
  <2> QED BY <2>1, <2>4, <2>6 DEF OnScreen
<1> QED BY <1>1, <1>6, <1>7, <1>8, <1>9, <1>10

-------------------------------------------------------------------------------
(* Steps                                                                      *)

\* A change of the flags, the focus, the capacity, the pins or the load queue.
LEMMA DeskSound ==
  ASSUME NEW r, Sound(r), NEW q, Typed(q), SameMemory(r, q), q.rows = r.rows, q.stems = r.stems, q.vis = r.vis,
         q.lru = r.lru, q.newer = r.newer
  PROVE  /\ Sound(q) /\ OnScreen(q) = OnScreen(r) /\ Shown(q) = Shown(r)
         /\ q.focus = r.focus => \A X : HiddenAreListed(r, X) => HiddenAreListed(q, X)
         /\ q.pins = r.pins => Loose(q) = Loose(r)
         /\ \A s : Id(q, s) = Id(r, s)
<1>1. \A s : Id(q, s) = Id(r, s)
  BY IdSame
<1>2. RowsHold(q)
  BY DEF Sound, RowsHold, SameMemory
<1>3. ListedAreHidden(q)
  BY <1>1 DEF Sound, ListedAreHidden, Ids, SameMemory
<1>4. Sound(q)
  BY <1>2, <1>3 DEF Sound
<1>5. OnScreen(q) = OnScreen(r) /\ Shown(q) = Shown(r)
  BY DEF OnScreen, Shown, SameMemory
<1>6. q.focus = r.focus => \A X : HiddenAreListed(r, X) => HiddenAreListed(q, X)
  BY <1>1 DEF HiddenAreListed, SameMemory
<1>7. q.pins = r.pins => Loose(q) = Loose(r)
  BY DEF Loose, SameMemory
<1> QED BY <1>1, <1>4, <1>5, <1>6, <1>7

\* The rows that leave between r and q are idle or removed.
IdleLeave(r, q) ==
  \A s \in r.mem \ q.mem : s \in q.rows => s \notin r.vis \intersect q.vis /\ r.pins[s] = 0

Good == IInv' /\ OnlyIdleRowsLeave

LEMMA QuietStep ==
  ASSUME IInv, NEW q, Quietly(q), CacheSound(q), IdleLeave(m, q),
         ~q.batch /\ ~q.quiet => ~m.batch /\ ~m.quiet /\ OnScreen(q) = OnScreen(m)
  PROVE  Good
<1>1. m' = q /\ drawn' = drawn
  BY DEF Quietly
<1>2. DrawnAreShown(q, drawn)
  BY DEF IInv, DrawnAreShown
<1>3. IInv'
  BY <1>1, <1>2 DEF IInv
<1>4. OnlyIdleRowsLeave
  <2>1. \A s \in m.mem \ q.mem : s \notin q.dirty /\ s \notin m.dirty \intersect m.ghost
    BY DEF IInv, CacheSound, Sound, RowsHold
  <2> QED BY <1>1, <2>1 DEF OnlyIdleRowsLeave, IdleLeave
<1> QED BY <1>3, <1>4 DEF Good

LEMMA AnnounceStep ==
  ASSUME IInv, IsSessionCache, NEW q, Announced(q), CacheSound(q), IdleLeave(m, q)
  PROVE  Good
<1> DEFINE n == [q EXCEPT !.quiet = FALSE]
<1>1. m' = n /\ drawn' = OnScreen(q)
  BY DEF Announced, OnScreen
<1>2. /\ Typed(n) /\ SameDesk(q, [n EXCEPT !.quiet = q.quiet]) /\ SameMemory(q, n) /\ n.rows = q.rows /\ n.stems = q.stems
      /\ n.vis = q.vis /\ n.lru = q.lru /\ n.newer = q.newer /\ n.focus = q.focus /\ n.pins = q.pins
      /\ n.passQueued = q.passQueued /\ n.capacity = q.capacity /\ n.dirty = q.dirty /\ n.mem = q.mem
  BY DEF CacheSound, Sound, Typed, SameDesk, SameWindow, SameMemory
<1> HIDE DEF n
<1>3. Sound(n) /\ OnScreen(n) = OnScreen(q) /\ HiddenAreListed(n, {}) /\ Loose(n) = Loose(q)
  BY <1>2, DeskSound DEF CacheSound
<1>4. CacheSound(n)
  BY <1>2, <1>3 DEF CacheSound, Bounded, RoomOf
<1>5. DrawnAreShown(n, OnScreen(q))
  BY <1>3 DEF DrawnAreShown
<1>6. IInv'
  BY <1>1, <1>4, <1>5 DEF IInv
<1>7. OnlyIdleRowsLeave
  <2>1. \A s \in m.mem \ n.mem : s \notin n.dirty /\ s \notin m.dirty \intersect m.ghost
    BY <1>4 DEF IInv, CacheSound, Sound, RowsHold
  <2> QED BY <1>1, <1>2, <2>1 DEF OnlyIdleRowsLeave, IdleLeave
<1> QED BY <1>6, <1>7 DEF Good

LEMMA AnnounceIfStep ==
  ASSUME IInv, IsSessionCache, NEW q, NEW news, AnnouncedIf(news, q), CacheSound(q), IdleLeave(m, q),
         ~news => (~q.batch /\ ~q.quiet => ~m.batch /\ ~m.quiet /\ OnScreen(q) = OnScreen(m))
  PROVE  Good
<1>1. CASE news
  BY <1>1, AnnounceStep DEF AnnouncedIf
<1>2. CASE ~news
  BY <1>2, QuietStep DEF AnnouncedIf
<1> QED BY <1>1, <1>2

LEMMA ShowAndHideGood ==
  ASSUME IInv, IsSessionCache, ShowAndHide
  PROVE  Good
<1>1. PICK S \in SUBSET m.rows, H \in SUBSET m.rows :
        /\ S \intersect H = {}
        /\ AnnouncedIf(Announces(m, SetRowsVisibility(m, S, H), H), SetRowsVisibility(m, S, H))
  BY DEF ShowAndHide
<1> DEFINE q == SetRowsVisibility(m, S, H)
<1>2. /\ Sound(q) /\ HiddenAreListed(q, {}) /\ Bounded(q)
      /\ SameWindow(m, q) /\ q.vis = (m.vis \union S) \ H
      /\ \A x \in m.mem \ q.mem : x \notin q.vis /\ m.pins[x] = 0
      /\ H \intersect m.vis = {} /\ Shown(q) \subseteq Shown(m) => OnScreen(q) = OnScreen(m)
  BY <1>1, SetRowsVisibilitySound DEF IInv, CacheSound
<1> HIDE DEF q
<1>3. CacheSound(q) /\ IdleLeave(m, q)
  BY <1>2 DEF CacheSound, IdleLeave
<1>4. ~Announces(m, q, H) => (~q.batch /\ ~q.quiet => ~m.batch /\ ~m.quiet /\ OnScreen(q) = OnScreen(m))
  BY <1>2 DEF Announces, SameWindow
<1>5. AnnouncedIf(Announces(m, q, H), q)
  BY <1>1 DEF q
<1> QED BY <1>3, <1>4, <1>5, AnnounceIfStep

\* Other rows are shown; none of them is listed.
LEMMA VisSound ==
  ASSUME NEW r, Sound(r), NEW vis, vis \subseteq r.rows, r.lru \subseteq Ids(r, r.mem \ vis)
  PROVE  LET q == [r EXCEPT !.vis = vis]
         IN  /\ Sound(q) /\ SameDesk(r, q) /\ SameMemory(r, q) /\ q.vis = vis /\ q.lru = r.lru
             /\ Loose(q) = Loose(r)
             /\ HiddenAreListed(r, {}) => HiddenAreListed(q, r.vis \ vis)
<1> DEFINE q == [r EXCEPT !.vis = vis]
<1>1. vis \in SUBSET Sessions
  BY DEF Sound, Typed
<1>2. /\ Typed(q) /\ SameDesk(r, q) /\ SameMemory(r, q) /\ q.vis = vis /\ q.lru = r.lru /\ q.newer = r.newer
  BY <1>1 DEF Sound, Typed, SameDesk, SameWindow, SameMemory
<1> HIDE DEF q
<1>3. \A s : Id(q, s) = Id(r, s)
  BY <1>2, IdSame DEF SameDesk
<1>4. ListedAreHidden(q)
  BY <1>2, <1>3 DEF ListedAreHidden, Ids, SameMemory
<1>5. RowsHold(q)
  BY <1>2 DEF Sound, RowsHold, SameMemory, SameDesk, SameWindow
<1>6. Sound(q)
  BY <1>2, <1>4, <1>5 DEF Sound
<1>7. HiddenAreListed(r, {}) => HiddenAreListed(q, r.vis \ vis)
  BY <1>2, <1>3 DEF HiddenAreListed, SameDesk, SameWindow, SameMemory
<1>8. Loose(q) = Loose(r)
  BY <1>2 DEF Loose, SameDesk, SameWindow, SameMemory
<1> QED BY <1>2, <1>6, <1>7, <1>8 DEF q

\* A row that becomes shown leaves the list.
LEMMA ShownUnlistedSound ==
  ASSUME NEW r, Sound(r), IsSessionCache, HiddenAreListed(r, {}), Bounded(r), NEW s \in r.rows
  PROVE  LET v == [r EXCEPT !.vis = r.vis \union {s}]
             q == LruRemove(v, Ids(v, {s}))
         IN  CacheSound(q) /\ q.mem = r.mem
<1> DEFINE v == [r EXCEPT !.vis = r.vis \union {s}]
           ids == Ids(v, {s})
           q == LruRemove(v, ids)
<1>1. r.vis \union {s} \in SUBSET Sessions /\ r.vis \union {s} \subseteq r.rows
  BY DEF Sound, Typed, RowsHold
<1>2. /\ Typed(v) /\ SameDesk(r, v) /\ SameMemory(r, v) /\ v.vis = r.vis \union {s}
      /\ v.lru = r.lru /\ v.newer = r.newer
  BY <1>1 DEF Sound, Typed, SameDesk, SameWindow, SameMemory
<1> HIDE DEF v
<1>3. ids = {Id(r, s)}
  <2>1. Id(v, s) = Id(r, s)
    BY <1>2, IdSame DEF SameDesk
  <2> QED BY <2>1 DEF Ids
<1> HIDE DEF ids
<1>4. /\ Typed(q) /\ SameDesk(v, q) /\ SameMemory(v, q) /\ q.vis = v.vis /\ q.lru = v.lru \ ids
      /\ q.newer = {x \in v.newer : x[1] \notin ids /\ x[2] \notin ids}
  BY <1>2, LruRemoveFields
<1> HIDE DEF q
<1>5. NewestFirst(q.lru, q.newer)
  <2>1. NewestFirst(v.lru, v.newer)
    BY <1>2 DEF Sound
  <2>2. NewestFirst(v.lru \ ids, q.newer)
    BY <1>4, <2>1, RemoveNewest
  <2> QED BY <1>4, <2>2
<1>6. SameDesk(r, q) /\ SameMemory(r, q) /\ q.lru = r.lru \ {Id(r, s)} /\ q.vis = r.vis \union {s}
  BY <1>2, <1>3, <1>4 DEF SameDesk, SameWindow, SameMemory
<1>7. \A x : Id(q, x) = Id(r, x)
  BY <1>6, IdSame DEF SameDesk
<1>8. ListedAreHidden(q)
  <2> SUFFICES ASSUME NEW id \in q.lru PROVE \E x \in q.mem \ q.vis : id = Id(q, x)
    BY DEF ListedAreHidden, Ids
  <2>1. id \in r.lru /\ id # Id(r, s)
    BY <1>6
  <2>2. id.session \in r.mem \ r.vis /\ Id(r, id.session) = id
    BY <2>1, ListedRow
  <2> QED BY <1>6, <1>7, <2>1, <2>2 DEF SameMemory
<1>9. RowsHold(q)
  BY <1>1, <1>6 DEF Sound, RowsHold, SameMemory, SameDesk, SameWindow
<1>10. Sound(q)
  BY <1>4, <1>5, <1>8, <1>9 DEF Sound
<1>11. HiddenAreListed(q, {})
  <2> SUFFICES ASSUME NEW x \in q.mem, x \notin q.vis, Id(q, x) # q.focus PROVE Id(q, x) \in q.lru
    BY DEF HiddenAreListed
  <2>1. x \in r.mem /\ x \notin r.vis /\ x # s /\ Id(r, x) # r.focus
    BY <1>6, <1>7 DEF SameMemory, SameDesk, SameWindow
  <2>2. Id(r, x) \in r.lru
    BY <2>1 DEF HiddenAreListed
  <2>3. Id(r, x) # Id(r, s)
    BY <2>1, IdFields
  <2> QED BY <1>6, <1>7, <2>2, <2>3
<1>12. Bounded(q)
  <2>1. Loose(q) \subseteq Loose(r)
    BY <1>6 DEF Loose, SameDesk, SameWindow, SameMemory
  <2> QED BY <1>6, <2>1, BoundedKept DEF SameDesk, SameWindow
<1>13. CacheSound(q) /\ q.mem = r.mem
  BY <1>6, <1>10, <1>11, <1>12 DEF CacheSound, SameMemory
<1> QED BY <1>13 DEF q, ids, v

\* Entries that name no hidden row, or the row with the focus, leave the list.
LEMMA UnlistSound ==
  ASSUME NEW r, Sound(r), IsSessionCache, HiddenAreListed(r, {}),
         NEW ids, \A x \in r.mem \ r.vis : Id(r, x) \in ids => Id(r, x) = r.focus
  PROVE  LET q == LruRemove(r, ids)
         IN  /\ Sound(q) /\ HiddenAreListed(q, {}) /\ SameDesk(r, q) /\ SameMemory(r, q) /\ q.vis = r.vis
             /\ Bounded(r) => Bounded(q)
<1> DEFINE q == LruRemove(r, ids)
<1>1. Sound(q) /\ SameDesk(r, q) /\ SameMemory(r, q) /\ q.vis = r.vis /\ q.lru = r.lru \ ids
  BY RemoveSound, LruRemoveFields DEF Sound
<1> HIDE DEF q
<1>2. \A x : Id(q, x) = Id(r, x)
  BY <1>1, IdSame DEF SameDesk
<1>3. HiddenAreListed(q, {})
  BY <1>1, <1>2 DEF HiddenAreListed, SameDesk, SameWindow, SameMemory
<1>4. Loose(q) \subseteq Loose(r)
  BY <1>1 DEF Loose, SameDesk, SameWindow, SameMemory
<1>5. Bounded(r) => Bounded(q)
  BY <1>1, <1>4, BoundedKept DEF SameDesk, SameWindow
<1> QED BY <1>1, <1>3, <1>5 DEF q

LEMMA SetCheckedGood ==
  ASSUME IInv, IsSessionCache, NEW s \in Sessions, SetChecked(s)
  PROVE  Good
<1> DEFINE vis == m.vis \union {s}
           v == [m EXCEPT !.vis = vis]
           shown == SessionRef(v, s)
           less == m.vis \ {s}
           hidden == [m EXCEPT !.vis = less]
           touched == LruTouch(hidden, {s})
           evicted == EvictIfNeeded(touched, NoId)
<1>1. s \in m.rows /\ Sound(m) /\ HiddenAreListed(m, {}) /\ Bounded(m) /\ m.vis \subseteq m.rows
  BY DEF SetChecked, IInv, CacheSound, Sound, RowsHold
<1>2. CASE s \notin m.vis
  <2> DEFINE q == LruRemove(shown, Ids(shown, {s}))
  <2>1. Announced(q)
    BY <1>2 DEF SetChecked
  <2>2. CASE s \in m.mem
    <3>1. v.mem = m.mem /\ s \in v.vis
      BY DEF IInv, CacheSound, Sound, Typed
    <3>2. shown = v
      BY <2>2, <3>1 DEF SessionRef, Used
    <3> HIDE DEF shown, v
    <3>3. CacheSound(q) /\ q.mem = m.mem
      BY <1>1, <3>2, ShownUnlistedSound DEF v, vis
    <3> HIDE DEF q
    <3> QED BY <2>1, <3>3, AnnounceStep DEF IdleLeave
  <2>3. CASE s \notin m.mem
    <3>1. m.lru \subseteq Ids(m, m.mem \ vis) /\ vis \subseteq m.rows /\ m.vis \ vis = {}
      <4>1. m.mem \ m.vis = m.mem \ vis
        BY <2>3
      <4> QED BY <1>1, <4>1 DEF Sound, ListedAreHidden
    <3>2. s \in vis
      OBVIOUS
    <3> HIDE DEF vis
    <3>3. /\ Sound(v) /\ SameDesk(m, v) /\ SameMemory(m, v) /\ v.vis = vis
          /\ Loose(v) = Loose(m) /\ HiddenAreListed(v, {})
      <4>1. /\ Sound(v) /\ SameDesk(m, v) /\ SameMemory(m, v) /\ v.vis = vis
            /\ Loose(v) = Loose(m) /\ HiddenAreListed(v, m.vis \ vis)
        BY <1>1, <3>1, VisSound
      <4> HIDE DEF v
      <4> QED BY <3>1, <4>1
    <3> HIDE DEF v
    <3>4. s \in v.rows /\ Bounded(v)
      <4>1. v.capacity = m.capacity /\ v.rows = m.rows /\ v.passQueued = m.passQueued
        BY <3>3 DEF SameDesk, SameWindow
      <4> QED BY <1>1, <3>3, <4>1 DEF Bounded, RoomOf
    <3>5. Sound(shown) /\ HiddenAreListed(shown, {}) /\ RowServed(v, shown, s)
      BY <3>3, <3>4, SessionRefSound
    <3> HIDE DEF shown
    <3>6. s \in shown.vis
      BY <3>2, <3>3, <3>5 DEF RowServed
    <3>7. \A x \in shown.mem \ shown.vis : Id(shown, x) \in Ids(shown, {s}) => Id(shown, x) = shown.focus
      BY <3>6, IdFields DEF Ids
    <3>8. /\ Sound(q) /\ HiddenAreListed(q, {}) /\ SameMemory(shown, q) /\ q.vis = shown.vis
          /\ Bounded(shown) => Bounded(q)
      BY <3>5, <3>7, UnlistSound
    <3> HIDE DEF q
    <3>9. CacheSound(q)
      BY <3>4, <3>5, <3>8 DEF CacheSound, RowServed
    <3>10. IdleLeave(m, q)
      BY <3>3, <3>5, <3>8 DEF IdleLeave, RowServed, SameMemory, SameDesk, SameWindow
    <3> QED BY <2>1, <3>9, <3>10, AnnounceStep
  <2> QED BY <2>2, <2>3
<1>3. CASE s \in m.vis
  <2>1. m.lru \subseteq Ids(m, m.mem \ less) /\ less \subseteq m.rows /\ m.vis \ less = {s}
    BY <1>1, <1>3 DEF Sound, ListedAreHidden, Ids
  <2>2. s \notin less
    OBVIOUS
  <2>3. s \in m.mem => Announced(evicted)
    BY <1>3 DEF SetChecked
  <2>4. s \notin m.mem => Announced(hidden)
    BY <1>3 DEF SetChecked
  <2> HIDE DEF less
  <2>5. /\ Sound(hidden) /\ SameDesk(m, hidden) /\ SameMemory(m, hidden) /\ hidden.vis = less
        /\ Loose(hidden) = Loose(m) /\ HiddenAreListed(hidden, {s})
    BY <1>1, <2>1, VisSound
  <2> HIDE DEF hidden
  <2>6. CASE s \in m.mem
    <3>1. {s} \subseteq hidden.mem \ hidden.vis
      BY <2>2, <2>5, <2>6 DEF SameMemory
    <3>2. /\ Sound(touched) /\ SameDesk(hidden, touched) /\ SameMemory(hidden, touched)
          /\ touched.vis = hidden.vis /\ touched.lru = hidden.lru \union Ids(hidden, {s})
      BY <2>5, <3>1, TouchSound
    <3>3. \A x : Id(touched, x) = Id(hidden, x)
      BY <3>2, IdSame DEF SameDesk
    <3> HIDE DEF touched
    <3>4. HiddenAreListed(touched, {})
      BY <2>5, <3>2, <3>3 DEF HiddenAreListed, Ids, SameDesk, SameWindow, SameMemory
    <3>5. Sound(evicted) /\ RowsLeft(touched, evicted) /\ Cardinality(Loose(evicted)) <= RoomOf(evicted)
      BY <3>2, EvictIfNeededSound
    <3> HIDE DEF evicted
    <3>6. CacheSound(evicted)
      BY <3>4, <3>5, LeftKeepsListed DEF CacheSound, Bounded
    <3>7. IdleLeave(m, evicted)
      BY <2>5, <3>2, <3>5 DEF IdleLeave, RowsLeft, SameMemory, SameDesk, SameWindow
    <3> QED BY <2>3, <2>6, <3>6, <3>7, AnnounceStep
  <2>7. CASE s \notin m.mem
    <3>1. HiddenAreListed(hidden, {})
      BY <2>5, <2>7 DEF HiddenAreListed, SameMemory
    <3>2. Bounded(hidden)
      <4>1. hidden.capacity = m.capacity /\ hidden.passQueued = m.passQueued
        BY <2>5 DEF SameDesk, SameWindow
      <4> QED BY <1>1, <2>5, <4>1 DEF Bounded, RoomOf
    <3>3. CacheSound(hidden) /\ IdleLeave(m, hidden)
      BY <2>5, <3>1, <3>2 DEF CacheSound, IdleLeave, SameMemory
    <3> QED BY <2>4, <2>7, <3>3, AnnounceStep
  <2> QED BY <2>6, <2>7
<1> QED BY <1>2, <1>3

\* The focus moves; the row that had it returns to the list if it is hidden.
FocusLeft(f) ==
  LET left == [m EXCEPT !.focus = f]
  IN  IF Names(m, m.focus) /\ m.focus.session \in m.mem \ m.vis THEN LruTouch(left, {m.focus.session}) ELSE left

LEMMA FocusLeftSound ==
  ASSUME IInv, IsSessionCache, NEW f \in Idents
  PROVE  LET b == FocusLeft(f)
         IN  /\ Sound(b) /\ HiddenAreListed(b, {}) /\ SameMemory(m, b) /\ b.vis = m.vis /\ b.focus = f
             /\ b.rows = m.rows /\ b.pins = m.pins /\ b.batch = m.batch /\ b.quiet = m.quiet
             /\ OnScreen(b) = OnScreen(m) /\ b.stems = m.stems
<1> DEFINE left == [m EXCEPT !.focus = f]
           old == m.focus
           b == FocusLeft(f)
<1>1. /\ Typed(left) /\ SameMemory(m, left) /\ left.rows = m.rows /\ left.stems = m.stems /\ left.vis = m.vis
      /\ left.lru = m.lru /\ left.newer = m.newer /\ left.pins = m.pins /\ left.focus = f
      /\ left.batch = m.batch /\ left.quiet = m.quiet
  BY DEF IInv, CacheSound, Sound, Typed, SameMemory
<1> HIDE DEF left
<1>2. Sound(left) /\ OnScreen(left) = OnScreen(m) /\ \A s : Id(left, s) = Id(m, s)
  BY <1>1, DeskSound DEF IInv, CacheSound
<1>3. HiddenAreListed(m, {}) /\ m.mem \subseteq m.rows
  BY DEF IInv, CacheSound, Sound, RowsHold
<1>4. ASSUME NEW s \in m.mem \ m.vis, Id(m, s) \notin m.lru
      PROVE  old.session = s /\ Names(m, old)
  BY <1>3, <1>4, IdFields, IdNames DEF HiddenAreListed
<1>5. CASE Names(m, old) /\ old.session \in m.mem \ m.vis
  <2> DEFINE S == {old.session}
  <2>1. S \subseteq left.mem \ left.vis
    BY <1>1, <1>5 DEF SameMemory
  <2>e. b = LruTouch(left, S)
    BY <1>5 DEF FocusLeft, left
  <2> HIDE DEF S, b
  <2>2. /\ Sound(b) /\ SameDesk(left, b) /\ SameMemory(left, b) /\ b.vis = left.vis
        /\ b.lru = left.lru \union Ids(left, S)
    BY <1>2, <2>1, <2>e, TouchSound
  <2>3. \A s : Id(b, s) = Id(m, s)
    BY <1>2, <2>2, IdSame DEF SameDesk
  <2>4. HiddenAreListed(b, {})
    BY <1>1, <1>2, <1>4, <2>2, <2>3 DEF HiddenAreListed, Ids, SameDesk, SameWindow, SameMemory, S
  <2>5. OnScreen(b) = OnScreen(left)
    BY <2>2 DEF OnScreen, Shown, SameDesk, SameWindow, SameMemory
  <2>6. /\ Sound(b) /\ HiddenAreListed(b, {}) /\ SameMemory(m, b) /\ b.vis = m.vis /\ b.focus = f
        /\ b.rows = m.rows /\ b.pins = m.pins /\ b.batch = m.batch /\ b.quiet = m.quiet
        /\ OnScreen(b) = OnScreen(m) /\ b.stems = m.stems
    BY <1>1, <1>2, <2>2, <2>4, <2>5 DEF SameDesk, SameWindow, SameMemory
  <2> QED BY <2>6 DEF b
<1>6. CASE ~(Names(m, old) /\ old.session \in m.mem \ m.vis)
  <2>1. b = left
    BY <1>6 DEF FocusLeft, left
  <2>2. HiddenAreListed(left, {})
    BY <1>1, <1>2, <1>4, <1>6 DEF HiddenAreListed, SameMemory
  <2> HIDE DEF b
  <2>3. /\ Sound(b) /\ HiddenAreListed(b, {}) /\ SameMemory(m, b) /\ b.vis = m.vis /\ b.focus = f
        /\ b.rows = m.rows /\ b.pins = m.pins /\ b.batch = m.batch /\ b.quiet = m.quiet
        /\ OnScreen(b) = OnScreen(m) /\ b.stems = m.stems
    BY <1>1, <1>2, <2>1, <2>2
  <2> QED BY <2>3 DEF b
<1> QED BY <1>5, <1>6

LEMMA SetFocusGood ==
  ASSUME IInv, IsSessionCache, NEW s \in Sessions, SetFocus(s)
  PROVE  Good
<1> DEFINE f == Id(m, s)
           back == FocusLeft(f)
           ref == SessionRef(back, s)
           flag == ref.quiet \/ s \in m.vis \ m.mem
           new == [ref EXCEPT !.quiet = flag]
           out == LruRemove(new, Ids(m, {s}))
           q == EvictIfNeeded(out, NoId)
<1>0. s \in m.rows /\ f \in Idents
  BY IdFields DEF SetFocus
<1>1. Quietly(q)
  BY DEF SetFocus, FocusLeft
<1> HIDE DEF f
<1>2. /\ Sound(back) /\ HiddenAreListed(back, {}) /\ SameMemory(m, back) /\ back.vis = m.vis /\ back.focus = f
      /\ back.rows = m.rows /\ back.pins = m.pins /\ back.batch = m.batch /\ back.quiet = m.quiet
      /\ OnScreen(back) = OnScreen(m) /\ back.stems = m.stems
  BY <1>0, FocusLeftSound
<1> HIDE DEF back
<1>3. Sound(ref) /\ HiddenAreListed(ref, {}) /\ RowServed(back, ref, s)
  BY <1>0, <1>2, SessionRefSound
<1> HIDE DEF ref
<1>4. flag \in BOOLEAN
  BY <1>3 DEF Sound, Typed
<1>5. /\ Typed(new) /\ SameMemory(ref, new) /\ new.rows = ref.rows /\ new.stems = ref.stems /\ new.vis = ref.vis
      /\ new.lru = ref.lru /\ new.newer = ref.newer /\ new.focus = ref.focus /\ new.pins = ref.pins
      /\ new.batch = ref.batch /\ new.quiet = flag
  <2> HIDE DEF flag
  <2> QED BY <1>3, <1>4 DEF Sound, Typed, SameMemory
<1> HIDE DEF new
<1>6. Sound(new) /\ OnScreen(new) = OnScreen(ref) /\ HiddenAreListed(new, {})
  BY <1>3, <1>5, DeskSound
<1>7. new.focus = f
  BY <1>2, <1>3, <1>5 DEF RowServed, SameWindow
<1>8. \A x \in new.mem \ new.vis : Id(new, x) \in Ids(m, {s}) => Id(new, x) = new.focus
  BY <1>7 DEF Ids, f
<1>9. Sound(out) /\ HiddenAreListed(out, {}) /\ SameDesk(new, out) /\ SameMemory(new, out) /\ out.vis = new.vis
  <2> DEFINE ids == Ids(m, {s})
  <2> HIDE DEF ids
  <2>1. \A x \in new.mem \ new.vis : Id(new, x) \in ids => Id(new, x) = new.focus
    BY <1>8 DEF ids
  <2>2. out = LruRemove(new, ids)
    BY DEF ids
  <2> HIDE DEF out
  <2> QED BY <1>6, <2>1, <2>2, UnlistSound
<1> HIDE DEF out
<1>10. Sound(q) /\ RowsLeft(out, q) /\ Cardinality(Loose(q)) <= RoomOf(q)
  BY <1>9, EvictIfNeededSound
<1> HIDE DEF q
<1>11. CacheSound(q)
  BY <1>9, <1>10, LeftKeepsListed DEF CacheSound, Bounded
<1>12. q.vis = m.vis /\ q.batch = m.batch /\ q.quiet = (m.quiet \/ s \in m.vis \ m.mem)
  BY <1>2, <1>3, <1>5, <1>9, <1>10 DEF RowServed, RowsLeft, SameDesk, SameWindow
<1>13. OnScreen(q) = OnScreen(ref)
  <2>1. OnScreen(out) = OnScreen(new)
    BY <1>9 DEF OnScreen, Shown, SameDesk, SameWindow, SameMemory
  <2> QED BY <1>6, <1>10, <2>1, LeftKeepsScreen
<1>14. ~q.quiet => OnScreen(q) = OnScreen(m)
  BY <1>2, <1>3, <1>12, <1>13 DEF RowServed, SameMemory
<1>15. IdleLeave(m, q)
  <2>1. \A x \in m.mem \ q.mem : x \notin m.vis /\ m.pins[x] = 0
    BY <1>2, <1>3, <1>5, <1>9, <1>10 DEF RowServed, RowsLeft, SameDesk, SameWindow, SameMemory
  <2> QED BY <2>1 DEF IdleLeave
<1> QED BY <1>1, <1>11, <1>12, <1>14, <1>15, QuietStep

LEMMA ClearFocusGood ==
  ASSUME IInv, IsSessionCache, ClearFocus
  PROVE  Good
<1> DEFINE back == FocusLeft(NoId)
           q == EvictIfNeeded(back, NoId)
<1>1. Quietly(q)
  BY DEF ClearFocus, FocusLeft
<1>2. /\ Sound(back) /\ HiddenAreListed(back, {}) /\ SameMemory(m, back) /\ back.vis = m.vis
      /\ back.pins = m.pins /\ back.batch = m.batch /\ back.quiet = m.quiet
      /\ OnScreen(back) = OnScreen(m)
  <2>1. NoId \in Idents
    BY DEF NoId, Idents
  <2> QED BY <2>1, FocusLeftSound
<1> HIDE DEF back
<1>3. Sound(q) /\ RowsLeft(back, q) /\ Cardinality(Loose(q)) <= RoomOf(q)
  BY <1>2, EvictIfNeededSound
<1> HIDE DEF q
<1>4. CacheSound(q)
  BY <1>2, <1>3, LeftKeepsListed DEF CacheSound, Bounded
<1>5. q.batch = m.batch /\ q.quiet = m.quiet /\ OnScreen(q) = OnScreen(m)
  BY <1>2, <1>3, LeftKeepsScreen DEF RowsLeft, SameDesk, SameWindow
<1>6. IdleLeave(m, q)
  BY <1>2, <1>3 DEF IdleLeave, RowsLeft, SameMemory
<1> QED BY <1>1, <1>4, <1>5, <1>6, QuietStep

LEMMA EditGood ==
  ASSUME IInv, IsSessionCache, NEW s \in Sessions, Edit(s)
  PROVE  Good
<1> DEFINE r == SessionRef(m, s)
           q == ScheduleSave(r, s)
<1>1. Announced(q) /\ s \in m.rows
  BY DEF Edit
<1>2. Sound(r) /\ HiddenAreListed(r, {}) /\ RowServed(m, r, s)
  BY <1>1, SessionRefSound DEF IInv, CacheSound
<1> HIDE DEF r
<1>3. Sound(q) /\ OnlySaves(r, q)
  BY <1>2, ScheduleSaveSound DEF RowServed
<1> HIDE DEF q
<1>4. CacheSound(q)
  BY <1>2, <1>3 DEF CacheSound, OnlySaves, RowServed, IInv
<1>5. IdleLeave(m, q)
  BY <1>2, <1>3 DEF IdleLeave, RowServed, OnlySaves
<1> QED BY <1>1, <1>4, <1>5, AnnounceStep

LEMMA SaveNextSessionGood ==
  ASSUME IInv, IsSessionCache, SaveNextSession
  PROVE  Good
<1>1. PICK s \in SaveWork(m) : Quietly(SaveRow(SessionRef(m, s), s))
  BY DEF SaveNextSession
<1> DEFINE r == SessionRef(m, s)
           q == SaveRow(r, s)
<1>2. s \in m.mem /\ s \in m.rows /\ s \in Sessions
  BY DEF SaveWork, IInv, CacheSound, Sound, RowsHold, Typed
<1>3. Sound(r) /\ HiddenAreListed(r, {}) /\ RowServed(m, r, s)
  BY <1>2, SessionRefSound DEF IInv, CacheSound
<1> HIDE DEF r
<1>4. Sound(q) /\ OnlySaves(r, q)
  BY <1>2, <1>3, SaveRowSound
<1>q. Quietly(q)
  BY <1>1 DEF r
<1> HIDE DEF q
<1>5. CacheSound(q)
  BY <1>3, <1>4 DEF CacheSound, OnlySaves, RowServed, IInv
<1>6. IdleLeave(m, q)
  BY <1>3, <1>4 DEF IdleLeave, RowServed, OnlySaves
<1>7. q.batch = m.batch /\ q.quiet = m.quiet /\ OnScreen(q) = OnScreen(m)
  BY <1>2, <1>3, <1>4 DEF RowServed, OnlySaves, SameDesk, SameWindow
<1> QED BY <1>q, <1>5, <1>6, <1>7, QuietStep

LEMMA PinGood ==
  ASSUME IInv, IsSessionCache, NEW s \in Sessions, Pin(s)
  PROVE  Good
<1> DEFINE pins == [m.pins EXCEPT ![s] = m.pins[s] + 1]
           q == [m EXCEPT !.pins = pins]
<1>1. Quietly(q)
  BY DEF Pin
<1>2. /\ pins \in [Sessions -> Nat]
      /\ \A x \in Sessions : pins[x] = 0 => m.pins[x] = 0
  BY DEF IInv, CacheSound, Sound, Typed
<1> HIDE DEF pins
<1>3. /\ Typed(q) /\ SameMemory(m, q) /\ q.rows = m.rows /\ q.stems = m.stems /\ q.vis = m.vis
      /\ q.lru = m.lru /\ q.newer = m.newer /\ q.focus = m.focus /\ q.pins = pins
      /\ q.passQueued = m.passQueued /\ q.capacity = m.capacity /\ q.batch = m.batch /\ q.quiet = m.quiet
  BY <1>2 DEF IInv, CacheSound, Sound, Typed, SameMemory
<1> HIDE DEF q
<1>4. Sound(q) /\ OnScreen(q) = OnScreen(m) /\ HiddenAreListed(q, {})
  BY <1>3, DeskSound DEF IInv, CacheSound
<1>5. Bounded(q)
  <2>1. \A id \in m.lru : id.session \in Sessions
    BY ListedRow DEF IInv, CacheSound
  <2>2. Loose(q) \subseteq Loose(m)
    BY <1>2, <1>3, <2>1 DEF Loose, SameMemory
  <2> QED BY <1>3, <2>2, BoundedKept DEF IInv, CacheSound
<1>6. CacheSound(q) /\ IdleLeave(m, q)
  BY <1>3, <1>4, <1>5 DEF CacheSound, IdleLeave, SameMemory
<1> QED BY <1>1, <1>3, <1>4, <1>6, QuietStep

LEMMA UnpinGood ==
  ASSUME IInv, IsSessionCache, NEW s \in Sessions, Unpin(s)
  PROVE  Good
<1> DEFINE pins == [m.pins EXCEPT ![s] = m.pins[s] - 1]
           pass == m.passQueued \/ m.pins[s] = 1
           p == [m EXCEPT !.pins = pins]
           q == [p EXCEPT !.passQueued = pass]
<1>1. Quietly(q)
  BY DEF Unpin, UnpinSession
<1>2. /\ pins \in [Sessions -> Nat] /\ pass \in BOOLEAN
      /\ ~pass => \A x \in Sessions : pins[x] = 0 => m.pins[x] = 0
      /\ m.passQueued => pass
  BY DEF Unpin, IInv, CacheSound, Sound, Typed
<1> HIDE DEF pins, pass
<1>3. /\ Typed(p) /\ SameMemory(m, p) /\ p.rows = m.rows /\ p.stems = m.stems /\ p.vis = m.vis
      /\ p.lru = m.lru /\ p.newer = m.newer /\ p.focus = m.focus /\ p.pins = pins
      /\ p.capacity = m.capacity /\ p.batch = m.batch /\ p.quiet = m.quiet
  BY <1>2 DEF IInv, CacheSound, Sound, Typed, SameMemory
<1> HIDE DEF p
<1>4. /\ Typed(q) /\ SameMemory(p, q) /\ q.rows = p.rows /\ q.stems = p.stems /\ q.vis = p.vis
      /\ q.lru = p.lru /\ q.newer = p.newer /\ q.focus = p.focus /\ q.pins = p.pins
      /\ q.passQueued = pass /\ q.capacity = p.capacity /\ q.batch = p.batch /\ q.quiet = p.quiet
  BY <1>2, <1>3 DEF Typed, SameMemory
<1> HIDE DEF q
<1>5. SameMemory(m, q)
  BY <1>3, <1>4 DEF SameMemory
<1>6. Sound(q) /\ OnScreen(q) = OnScreen(m) /\ HiddenAreListed(q, {})
  BY <1>3, <1>4, <1>5, DeskSound DEF IInv, CacheSound
<1>7. Bounded(q)
  <2>1. CASE pass
    BY <1>4, <2>1 DEF Bounded
  <2>2. CASE ~pass
    <3>1. \A id \in m.lru : id.session \in Sessions
      BY ListedRow DEF IInv, CacheSound
    <3>2. Loose(q) \subseteq Loose(m)
      BY <1>2, <1>3, <1>4, <1>5, <2>2, <3>1 DEF Loose, SameMemory
    <3>3. q.capacity = m.capacity /\ (m.passQueued => q.passQueued)
      BY <1>2, <1>3, <1>4
    <3> QED BY <3>2, <3>3, BoundedKept DEF IInv, CacheSound
  <2> QED BY <2>1, <2>2
<1>8. CacheSound(q) /\ IdleLeave(m, q)
  BY <1>5, <1>6, <1>7 DEF CacheSound, IdleLeave, SameMemory
<1>9. q.batch = m.batch /\ q.quiet = m.quiet
  BY <1>3, <1>4
<1> QED BY <1>1, <1>6, <1>8, <1>9, QuietStep

\* A change of the desk that ends with an eviction pass.
LEMMA PassGood ==
  ASSUME IInv, IsSessionCache, NEW r, Typed(r), SameMemory(m, r), r.rows = m.rows, r.stems = m.stems, r.vis = m.vis,
         r.lru = m.lru, r.newer = m.newer, r.focus = m.focus, r.pins = m.pins, r.batch = m.batch,
         r.quiet = m.quiet, Quietly(EvictIfNeeded(r, NoId))
  PROVE  Good
<1> DEFINE q == EvictIfNeeded(r, NoId)
<1>1. Sound(r) /\ OnScreen(r) = OnScreen(m) /\ HiddenAreListed(r, {})
  BY DeskSound DEF IInv, CacheSound
<1>2. Sound(q) /\ RowsLeft(r, q) /\ Cardinality(Loose(q)) <= RoomOf(q)
  BY <1>1, EvictIfNeededSound
<1> HIDE DEF q
<1>3. CacheSound(q)
  BY <1>1, <1>2, LeftKeepsListed DEF CacheSound, Bounded
<1>4. q.batch = m.batch /\ q.quiet = m.quiet /\ OnScreen(q) = OnScreen(m)
  BY <1>1, <1>2, LeftKeepsScreen DEF RowsLeft, SameDesk, SameWindow
<1>5. IdleLeave(m, q)
  BY <1>2 DEF IdleLeave, RowsLeft, SameMemory
<1> QED BY <1>3, <1>4, <1>5, QuietStep DEF q

LEMMA EvictionPassGood ==
  ASSUME IInv, IsSessionCache, EvictionPass
  PROVE  Good
<1> DEFINE r == [m EXCEPT !.passQueued = FALSE]
<1>1. /\ Typed(r) /\ SameMemory(m, r) /\ r.rows = m.rows /\ r.stems = m.stems /\ r.vis = m.vis
      /\ r.lru = m.lru /\ r.newer = m.newer /\ r.focus = m.focus /\ r.pins = m.pins /\ r.batch = m.batch
      /\ r.quiet = m.quiet
  BY DEF IInv, CacheSound, Sound, Typed, SameMemory
<1>2. Quietly(EvictIfNeeded(r, NoId))
  BY DEF EvictionPass
<1> HIDE DEF r
<1> QED BY <1>1, <1>2, PassGood

LEMMA SetCapacityGood ==
  ASSUME IInv, IsSessionCache, NEW c \in Capacities, SetCapacity(c)
  PROVE  Good
<1> DEFINE r == [m EXCEPT !.capacity = c]
<1>1. /\ Typed(r) /\ SameMemory(m, r) /\ r.rows = m.rows /\ r.stems = m.stems /\ r.vis = m.vis
      /\ r.lru = m.lru /\ r.newer = m.newer /\ r.focus = m.focus /\ r.pins = m.pins /\ r.batch = m.batch
      /\ r.quiet = m.quiet
  BY DEF IInv, CacheSound, Sound, Typed, SameMemory, IsSessionCache
<1>2. Quietly(EvictIfNeeded(r, NoId))
  BY DEF SetCapacity
<1> HIDE DEF r
<1> QED BY <1>1, <1>2, PassGood

\* A change of the load queue and of the batch.
OnlyBatch(r, q) ==
  /\ SameMemory(r, q) /\ q.rows = r.rows /\ q.stems = r.stems /\ q.vis = r.vis
  /\ q.lru = r.lru /\ q.newer = r.newer /\ q.focus = r.focus /\ q.pins = r.pins
  /\ q.quiet = r.quiet /\ q.passQueued = r.passQueued /\ q.capacity = r.capacity

LEMMA BatchFields ==
  ASSUME NEW r, Typed(r), NEW new
  PROVE  /\ LET q == [[r EXCEPT !.queue = new] EXCEPT !.batch = TRUE]
            IN  Typed(q) /\ OnlyBatch(r, q) /\ q.batch
         /\ LET q == [[r EXCEPT !.queue = new] EXCEPT !.batch = FALSE]
            IN  Typed(q) /\ OnlyBatch(r, q) /\ ~q.batch
<1> DEFINE p == [r EXCEPT !.queue = new]
<1>1. Typed(p) /\ OnlyBatch(r, p)
  BY DEF Typed, OnlyBatch, SameMemory
<1> HIDE DEF p
<1>2. LET q == [p EXCEPT !.batch = TRUE] IN Typed(q) /\ OnlyBatch(p, q) /\ q.batch
  BY <1>1 DEF Typed, OnlyBatch, SameMemory
<1>3. LET q == [p EXCEPT !.batch = FALSE] IN Typed(q) /\ OnlyBatch(p, q) /\ ~q.batch
  BY <1>1 DEF Typed, OnlyBatch, SameMemory
<1>4. \A q : OnlyBatch(p, q) => OnlyBatch(r, q)
  BY <1>1 DEF OnlyBatch, SameMemory
<1> QED BY <1>2, <1>3, <1>4 DEF p

LEMMA BatchSound ==
  ASSUME NEW r, Sound(r), HiddenAreListed(r, {}), Bounded(r), NEW q, Typed(q), OnlyBatch(r, q)
  PROVE  CacheSound(q) /\ OnScreen(q) = OnScreen(r)
<1>1. Sound(q) /\ OnScreen(q) = OnScreen(r) /\ HiddenAreListed(q, {}) /\ Loose(q) = Loose(r)
  BY DeskSound DEF OnlyBatch
<1>2. Bounded(q)
  BY <1>1 DEF Bounded, RoomOf, OnlyBatch
<1> QED BY <1>1, <1>2 DEF CacheSound

LEMMA LoadNextVisibleSessionGood ==
  ASSUME IInv, IsSessionCache, LoadNextVisibleSession
  PROVE  Good
<1>0. Sound(m) /\ HiddenAreListed(m, {}) /\ Bounded(m)
  BY DEF IInv, CacheSound
<1>1. ASSUME NEW i \in DOMAIN m.queue, IsNext(m, i),
             IF LoadNext(m, i).queue # <<>> THEN Quietly(LoadNext(m, i)) ELSE Announced(BatchDone(LoadNext(m, i)))
      PROVE  Good
  <2> DEFINE s == m.queue[i].session
             r == SessionRef(m, s)
             rest == SubSeq(m.queue, i + 1, Len(m.queue))
             l == [[r EXCEPT !.queue = rest] EXCEPT !.batch = TRUE]
             d == [[l EXCEPT !.queue = <<>>] EXCEPT !.batch = FALSE]
  <2>1. s \in m.rows
    BY <1>1 DEF IsNext, ToLoad, Names
  <2>2. LoadNext(m, i) = l /\ BatchDone(LoadNext(m, i)) = d
    BY DEF LoadNext, BatchDone
  <2> HIDE DEF s, rest
  <2>3. Sound(r) /\ HiddenAreListed(r, {}) /\ RowServed(m, r, s)
    BY <1>0, <2>1, SessionRefSound
  <2> HIDE DEF r
  <2>4. Bounded(r) /\ r.vis = m.vis
    BY <1>0, <2>3 DEF RowServed
  <2>l. Typed(l) /\ OnlyBatch(r, l) /\ l.batch
    BY <2>3, BatchFields DEF Sound
  <2> HIDE DEF l
  <2>5. CacheSound(l) /\ IdleLeave(m, l)
    BY <2>3, <2>4, <2>l, BatchSound DEF IdleLeave, RowServed, OnlyBatch, SameMemory
  <2>7. CASE Quietly(l)
    BY <2>5, <2>7, <2>l, QuietStep
  <2>8. CASE Announced(d)
    <3>1. Typed(d) /\ OnlyBatch(l, d)
      BY <2>l, BatchFields
    <3> HIDE DEF d
    <3>2. CacheSound(d)
      BY <2>5, <3>1, BatchSound DEF CacheSound
    <3>3. IdleLeave(m, d)
      BY <2>3, <2>4, <2>l, <3>1 DEF IdleLeave, RowServed, OnlyBatch, SameMemory
    <3> QED BY <2>8, <3>2, <3>3, AnnounceStep
  <2> QED BY <1>1, <2>2, <2>7, <2>8
<1>2. CASE AnnouncedIf(m.batch, BatchDone(m))
  <2> DEFINE d == [[m EXCEPT !.queue = <<>>] EXCEPT !.batch = FALSE]
  <2>1. Typed(d) /\ OnlyBatch(m, d)
    BY <1>0, BatchFields DEF Sound
  <2>2. AnnouncedIf(m.batch, d)
    BY <1>2 DEF BatchDone
  <2> HIDE DEF d
  <2>4. CacheSound(d) /\ OnScreen(d) = OnScreen(m)
    BY <1>0, <2>1, BatchSound
  <2>3. IdleLeave(m, d)
    BY <2>1 DEF IdleLeave, OnlyBatch, SameMemory
  <2> QED BY <2>1, <2>2, <2>3, <2>4, AnnounceIfStep DEF OnlyBatch
<1> QED BY <1>1, <1>2 DEF LoadNextVisibleSession

LEMMA CancelLoaderGood ==
  ASSUME IInv, IsSessionCache, CancelLoader
  PROVE  Good
<1> DEFINE waiting == {s \in m.vis \ m.mem : Contains(m.queue, Id(m, s))}
           vis == m.vis \ waiting
           v == [m EXCEPT !.vis = vis]
           d == [[v EXCEPT !.queue = <<>>] EXCEPT !.batch = FALSE]
           news == m.batch \/ waiting # {}
<1>1. AnnouncedIf(news, d)
  BY DEF CancelLoader, BatchDone
<1>2. Sound(m) /\ HiddenAreListed(m, {}) /\ Bounded(m)
  BY DEF IInv, CacheSound
<1>3. vis \subseteq m.rows /\ m.mem \ vis = m.mem \ m.vis /\ (m.vis \ vis) \intersect m.mem = {}
      /\ m.mem \intersect vis = m.mem \intersect m.vis
  BY <1>2 DEF Sound, RowsHold
<1>4. m.lru \subseteq Ids(m, m.mem \ vis)
  <2> HIDE DEF vis
  <2> QED BY <1>2, <1>3 DEF Sound, ListedAreHidden
<1> HIDE DEF vis
<1>5. /\ Sound(v) /\ SameDesk(m, v) /\ SameMemory(m, v) /\ v.vis = vis
      /\ Loose(v) = Loose(m) /\ HiddenAreListed(v, m.vis \ vis)
  BY <1>2, <1>3, <1>4, VisSound
<1> HIDE DEF v
<1>6. HiddenAreListed(v, {})
  BY <1>3, <1>5 DEF HiddenAreListed, SameMemory
<1>7. Bounded(v)
  BY <1>2, <1>5 DEF Bounded, RoomOf, SameDesk, SameWindow
<1>8. OnScreen(v) = OnScreen(m)
  BY <1>3, <1>5 DEF OnScreen, Shown, SameDesk, SameWindow, SameMemory
<1>9. Typed(d) /\ OnlyBatch(v, d)
  BY <1>5, BatchFields DEF Sound
<1> HIDE DEF d
<1>10. CacheSound(d) /\ OnScreen(d) = OnScreen(m) /\ d.quiet = m.quiet /\ IdleLeave(m, d)
  <2>1. CacheSound(d) /\ OnScreen(d) = OnScreen(v)
    BY <1>5, <1>6, <1>7, <1>9, BatchSound
  <2> QED BY <1>5, <1>8, <1>9, <2>1 DEF IdleLeave, OnlyBatch, SameDesk, SameWindow, SameMemory
<1>11. ~news => ~m.batch
  OBVIOUS
<1> HIDE DEF news
<1> QED BY <1>1, <1>10, <1>11, AnnounceIfStep

LEMMA DiskChangesGood ==
  ASSUME IInv, DiskChanges \/ UNCHANGED vars
  PROVE  Good
<1>1. m' = m /\ drawn' = drawn
  BY DEF DiskChanges, vars
<1>2. IInv'
  BY <1>1 DEF IInv
<1>3. OnlyIdleRowsLeave
  BY <1>1 DEF OnlyIdleRowsLeave
<1> QED BY <1>2, <1>3 DEF Good

\* A removed row leaves every list and set.
LEMMA RemovedFields ==
  ASSUME NEW r, Typed(r), NEW s
  PROVE  LET q == Removed(r, s)
             out == LruRemove(r, Ids(r, {s}))
         IN  /\ Typed(q) /\ q.lru = out.lru /\ q.newer = out.newer
             /\ q.rows = r.rows \ {s} /\ q.vis = r.vis \ {s} /\ q.mem = r.mem \ {s} /\ q.ghost = r.ghost \ {s}
             /\ q.stems = r.stems \ {s} /\ q.dirty = r.dirty \ {s} /\ q.failed = r.failed \ {s}
             /\ q.retried = r.retried \ {s} /\ q.focus = r.focus /\ q.pins = r.pins /\ q.capacity = r.capacity
             /\ q.passQueued = r.passQueued
<1> DEFINE o == LruRemove(r, Ids(r, {s}))
           queue == Dequeued(r, {s})
           a == [o EXCEPT !.queue = queue]
           b == [a EXCEPT !.rows = o.rows \ {s}]
           c == [b EXCEPT !.vis = o.vis \ {s}]
           d == [c EXCEPT !.mem = o.mem \ {s}]
           e == [d EXCEPT !.ghost = o.ghost \ {s}]
           f == [e EXCEPT !.stems = o.stems \ {s}]
           g == [f EXCEPT !.dirty = o.dirty \ {s}]
           h == [g EXCEPT !.failed = o.failed \ {s}]
           q == [h EXCEPT !.retried = o.retried \ {s}]
<1>1. Typed(o) /\ SameDesk(r, o) /\ SameMemory(r, o) /\ o.vis = r.vis
  BY LruRemoveFields
<1>2. Removed(r, s) = q
  BY DEF Removed
<1> HIDE DEF o, queue
<1>3. /\ o.rows \ {s} \in SUBSET Sessions /\ o.vis \ {s} \in SUBSET Sessions /\ o.mem \ {s} \in SUBSET Sessions
      /\ o.ghost \ {s} \in SUBSET Sessions /\ o.stems \ {s} \in SUBSET Sessions
      /\ o.dirty \ {s} \in SUBSET Sessions /\ o.failed \ {s} \in SUBSET Sessions
      /\ o.retried \ {s} \in SUBSET Sessions
  BY <1>1 DEF Typed
<1>a. Typed(a) /\ SameDesk(o, a) /\ SameMemory(o, a) /\ a.vis = o.vis /\ a.lru = o.lru /\ a.newer = o.newer
  BY <1>1 DEF Typed, SameDesk, SameWindow, SameMemory
<1> HIDE DEF a
<1>b. /\ Typed(b) /\ b.rows = o.rows \ {s} /\ b.vis = o.vis /\ b.lru = o.lru /\ b.newer = o.newer
      /\ SameMemory(o, b) /\ b.stems = o.stems
      /\ b.focus = o.focus /\ b.pins = o.pins /\ b.capacity = o.capacity /\ b.passQueued = o.passQueued
  BY <1>3, <1>a DEF Typed, SameDesk, SameWindow, SameMemory
<1> HIDE DEF b
<1>c. /\ Typed(c) /\ c.rows = b.rows /\ c.vis = o.vis \ {s} /\ c.lru = o.lru /\ c.newer = o.newer
      /\ SameMemory(o, c) /\ c.stems = o.stems
      /\ c.focus = o.focus /\ c.pins = o.pins /\ c.capacity = o.capacity /\ c.passQueued = o.passQueued
  BY <1>3, <1>b DEF Typed, SameMemory
<1> HIDE DEF c
<1>d. /\ Typed(d) /\ d.rows = b.rows /\ d.vis = c.vis /\ d.lru = o.lru /\ d.newer = o.newer
      /\ d.mem = o.mem \ {s} /\ d.ghost = o.ghost /\ d.dirty = o.dirty /\ d.failed = o.failed
      /\ d.retried = o.retried /\ d.stems = o.stems
      /\ d.focus = o.focus /\ d.pins = o.pins /\ d.capacity = o.capacity /\ d.passQueued = o.passQueued
  BY <1>3, <1>c DEF Typed, SameMemory
<1> HIDE DEF d
<1>e. /\ Typed(e) /\ e.rows = b.rows /\ e.vis = c.vis /\ e.lru = o.lru /\ e.newer = o.newer
      /\ e.mem = d.mem /\ e.ghost = o.ghost \ {s} /\ e.dirty = o.dirty /\ e.failed = o.failed
      /\ e.retried = o.retried /\ e.stems = o.stems
      /\ e.focus = o.focus /\ e.pins = o.pins /\ e.capacity = o.capacity /\ e.passQueued = o.passQueued
  BY <1>3, <1>d DEF Typed
<1> HIDE DEF e
<1>f. /\ Typed(f) /\ f.rows = b.rows /\ f.vis = c.vis /\ f.lru = o.lru /\ f.newer = o.newer
      /\ f.mem = d.mem /\ f.ghost = e.ghost /\ f.dirty = o.dirty /\ f.failed = o.failed
      /\ f.retried = o.retried /\ f.stems = o.stems \ {s}
      /\ f.focus = o.focus /\ f.pins = o.pins /\ f.capacity = o.capacity /\ f.passQueued = o.passQueued
  BY <1>3, <1>e DEF Typed
<1> HIDE DEF f
<1>g. /\ Typed(g) /\ g.rows = b.rows /\ g.vis = c.vis /\ g.lru = o.lru /\ g.newer = o.newer
      /\ g.mem = d.mem /\ g.ghost = e.ghost /\ g.dirty = o.dirty \ {s} /\ g.failed = o.failed
      /\ g.retried = o.retried /\ g.stems = f.stems
      /\ g.focus = o.focus /\ g.pins = o.pins /\ g.capacity = o.capacity /\ g.passQueued = o.passQueued
  BY <1>3, <1>f DEF Typed
<1> HIDE DEF g
<1>h. /\ Typed(h) /\ h.rows = b.rows /\ h.vis = c.vis /\ h.lru = o.lru /\ h.newer = o.newer
      /\ h.mem = d.mem /\ h.ghost = e.ghost /\ h.dirty = g.dirty /\ h.failed = o.failed \ {s}
      /\ h.retried = o.retried /\ h.stems = f.stems
      /\ h.focus = o.focus /\ h.pins = o.pins /\ h.capacity = o.capacity /\ h.passQueued = o.passQueued
  BY <1>3, <1>g DEF Typed
<1> HIDE DEF h
<1>q. /\ Typed(q) /\ q.rows = b.rows /\ q.vis = c.vis /\ q.lru = o.lru /\ q.newer = o.newer
      /\ q.mem = d.mem /\ q.ghost = e.ghost /\ q.dirty = g.dirty /\ q.failed = h.failed
      /\ q.retried = o.retried \ {s} /\ q.stems = f.stems
      /\ q.focus = o.focus /\ q.pins = o.pins /\ q.capacity = o.capacity /\ q.passQueued = o.passQueued
  BY <1>3, <1>h DEF Typed
<1> HIDE DEF q
<1>4. /\ Typed(q) /\ q.lru = o.lru /\ q.newer = o.newer
      /\ q.rows = r.rows \ {s} /\ q.vis = r.vis \ {s} /\ q.mem = r.mem \ {s} /\ q.ghost = r.ghost \ {s}
      /\ q.stems = r.stems \ {s} /\ q.dirty = r.dirty \ {s} /\ q.failed = r.failed \ {s}
      /\ q.retried = r.retried \ {s} /\ q.focus = r.focus /\ q.pins = r.pins /\ q.capacity = r.capacity
      /\ q.passQueued = r.passQueued
  BY <1>1, <1>b, <1>c, <1>d, <1>e, <1>f, <1>g, <1>h, <1>q DEF SameDesk, SameWindow, SameMemory
<1> QED BY <1>2, <1>4 DEF o

LEMMA RemoveSessionGood ==
  ASSUME IInv, IsSessionCache, NEW s \in Sessions, RemoveSession(s)
  PROVE  Good
<1> DEFINE q == Removed(m, s)
           ids == Ids(m, {s})
           out == LruRemove(m, ids)
<1>0. Announced(q) /\ Sound(m) /\ HiddenAreListed(m, {}) /\ Bounded(m)
  BY DEF RemoveSession, IInv, CacheSound
<1>1. /\ Typed(q) /\ q.lru = out.lru /\ q.newer = out.newer
      /\ q.rows = m.rows \ {s} /\ q.vis = m.vis \ {s} /\ q.mem = m.mem \ {s} /\ q.ghost = m.ghost \ {s}
      /\ q.stems = m.stems \ {s} /\ q.dirty = m.dirty \ {s} /\ q.failed = m.failed \ {s}
      /\ q.retried = m.retried \ {s} /\ q.focus = m.focus /\ q.pins = m.pins /\ q.capacity = m.capacity
      /\ q.passQueued = m.passQueued
  BY <1>0, RemovedFields DEF Sound
<1> HIDE DEF q
<1>i. ids = {Id(m, s)}
  BY DEF Ids
<1> HIDE DEF ids
<1>2. Sound(out) /\ out.lru = m.lru \ ids
  BY <1>0, RemoveSound, LruRemoveFields DEF Sound
<1> HIDE DEF out
<1>3. \A x : x # s => Id(q, x) = Id(m, x)
  BY <1>1, IdSame
<1>4. ListedAreHidden(q)
  <2> SUFFICES ASSUME NEW id \in q.lru PROVE \E x \in q.mem \ q.vis : id = Id(q, x)
    BY DEF ListedAreHidden, Ids
  <2>1. id \in m.lru /\ id # Id(m, s)
    BY <1>1, <1>2, <1>i
  <2>2. id.session \in m.mem \ m.vis /\ Id(m, id.session) = id
    BY <1>0, <2>1, ListedRow
  <2>3. id.session # s
    BY <2>1, <2>2
  <2> QED BY <1>1, <1>3, <2>2, <2>3
<1>5. RowsHold(q)
  BY <1>0, <1>1 DEF Sound, RowsHold
<1>6. Sound(q)
  BY <1>1, <1>2, <1>4, <1>5 DEF Sound
<1>7. HiddenAreListed(q, {})
  <2> SUFFICES ASSUME NEW x \in q.mem, x \notin q.vis, Id(q, x) # q.focus PROVE Id(q, x) \in q.lru
    BY DEF HiddenAreListed
  <2>1. x \in m.mem /\ x \notin m.vis /\ x # s /\ Id(q, x) = Id(m, x) /\ Id(m, x) # m.focus
    BY <1>1, <1>3
  <2>2. Id(m, x) \in m.lru /\ Id(m, x) # Id(m, s)
    BY <1>0, <2>1, IdFields DEF HiddenAreListed
  <2> QED BY <1>1, <1>2, <1>i, <2>1, <2>2
<1>8. Bounded(q)
  <2>1. \A id \in q.lru : id \in m.lru /\ id.session # s
    <3> SUFFICES ASSUME NEW id \in q.lru PROVE id \in m.lru /\ id.session # s
      OBVIOUS
    <3>1. id \in m.lru /\ id # Id(m, s)
      BY <1>1, <1>2, <1>i
    <3> QED BY <1>0, <3>1, ListedRow
  <2>2. Loose(q) \subseteq Loose(m)
    BY <1>1, <2>1 DEF Loose
  <2> QED BY <1>0, <1>1, <2>2, BoundedKept
<1>9. CacheSound(q) /\ IdleLeave(m, q)
  BY <1>1, <1>6, <1>7, <1>8 DEF CacheSound, IdleLeave
<1> QED BY <1>0, <1>9, AnnounceStep

\* Rows that are not in memory get their id.
LEMMA StubsResolvedSound ==
  ASSUME IInv, IsSessionCache
  PROVE  LET r == StubsResolved(m)
         IN  /\ CacheSound(r) /\ SameWindow(m, r) /\ SameMemory(m, r) /\ r.vis = m.vis /\ OnScreen(r) = OnScreen(m)
<1> DEFINE stems == m.stems \intersect (m.mem \union disk.unreadable)
           r == [m EXCEPT !.stems = stems]
<1>0. Sound(m) /\ HiddenAreListed(m, {}) /\ Bounded(m)
  BY DEF IInv, CacheSound
<1>1. stems \in SUBSET Sessions /\ \A x \in m.mem : x \in stems <=> x \in m.stems
  BY <1>0 DEF Sound, Typed
<1>2. StubsResolved(m) = r
  BY DEF StubsResolved
<1> HIDE DEF stems
<1>3. /\ Typed(r) /\ SameWindow(m, r) /\ SameMemory(m, r) /\ r.vis = m.vis /\ r.lru = m.lru
      /\ r.newer = m.newer /\ r.stems = stems
  BY <1>0, <1>1 DEF Sound, Typed, SameWindow, SameMemory
<1> HIDE DEF r
<1>4. \A x \in m.mem : Id(r, x) = Id(m, x)
  BY <1>1, <1>3, IdSame
<1>5. RowsHold(r)
  BY <1>0, <1>3 DEF Sound, RowsHold, SameWindow, SameMemory
<1>6. ListedAreHidden(r)
  BY <1>0, <1>3, <1>4 DEF Sound, ListedAreHidden, Ids, SameMemory
<1>7. Sound(r)
  BY <1>0, <1>3, <1>5, <1>6 DEF Sound
<1>8. HiddenAreListed(r, {})
  BY <1>0, <1>3, <1>4 DEF HiddenAreListed, SameWindow, SameMemory
<1>9. Loose(r) = Loose(m) /\ OnScreen(r) = OnScreen(m)
  BY <1>3 DEF Loose, OnScreen, Shown, SameWindow, SameMemory
<1>10. Bounded(r)
  BY <1>0, <1>3, <1>9 DEF Bounded, RoomOf, SameWindow
<1> QED BY <1>2, <1>3, <1>7, <1>8, <1>9, <1>10 DEF CacheSound

\* An imported session is a row in memory.
Merged(r, s) == [r EXCEPT !.rows = @ \union {s}, !.mem = @ \union {s}, !.ghost = @ \ {s}]

LEMMA MergedSound ==
  ASSUME NEW r, Sound(r), HiddenAreListed(r, {}), NEW s \in Sessions
  PROVE  LET q == Merged(r, s)
         IN  /\ Sound(q) /\ HiddenAreListed(q, {s}) /\ q.vis = r.vis /\ q.pins = r.pins
             /\ q.mem = r.mem \union {s}
<1> DEFINE rows == r.rows \union {s}
           mem == r.mem \union {s}
           ghost == r.ghost \ {s}
           a == [r EXCEPT !.rows = rows]
           b == [a EXCEPT !.mem = mem]
           q == [b EXCEPT !.ghost = ghost]
<1>1. Merged(r, s) = q
  BY DEF Merged
<1>2. rows \in SUBSET Sessions /\ mem \in SUBSET Sessions /\ ghost \in SUBSET Sessions
  BY DEF Sound, Typed
<1> HIDE DEF rows, mem, ghost
<1>3. /\ Typed(a) /\ SameMemory(r, a) /\ a.vis = r.vis /\ a.lru = r.lru /\ a.newer = r.newer /\ a.stems = r.stems
      /\ a.focus = r.focus /\ a.pins = r.pins /\ a.rows = rows
  BY <1>2 DEF Sound, Typed, SameMemory
<1> HIDE DEF a
<1>4. /\ Typed(b) /\ SameDesk(a, b) /\ b.vis = a.vis /\ b.lru = a.lru /\ b.newer = a.newer
      /\ b.mem = mem /\ b.ghost = a.ghost /\ b.dirty = a.dirty /\ b.failed = a.failed /\ b.retried = a.retried
  BY <1>2, <1>3 DEF Typed, SameDesk, SameWindow
<1> HIDE DEF b
<1>5. /\ Typed(q) /\ SameDesk(b, q) /\ q.vis = b.vis /\ q.lru = b.lru /\ q.newer = b.newer
      /\ q.mem = b.mem /\ q.ghost = ghost /\ q.dirty = b.dirty /\ q.failed = b.failed /\ q.retried = b.retried
  BY <1>2, <1>4 DEF Typed, SameDesk, SameWindow
<1> HIDE DEF q
<1>6. /\ Typed(q) /\ q.vis = r.vis /\ q.lru = r.lru /\ q.newer = r.newer /\ q.stems = r.stems
      /\ q.focus = r.focus /\ q.pins = r.pins /\ q.rows = r.rows \union {s} /\ q.mem = r.mem \union {s}
      /\ q.ghost = r.ghost \ {s} /\ q.dirty = r.dirty /\ q.failed = r.failed /\ q.retried = r.retried
  BY <1>3, <1>4, <1>5 DEF SameDesk, SameWindow, SameMemory, rows, mem, ghost
<1>7. \A x : Id(q, x) = Id(r, x)
  BY <1>6, IdSame
<1>8. RowsHold(q)
  BY <1>6 DEF Sound, RowsHold
<1>9. ListedAreHidden(q)
  BY <1>6, <1>7 DEF Sound, ListedAreHidden, Ids
<1>10. Sound(q)
  BY <1>6, <1>8, <1>9 DEF Sound
<1>11. HiddenAreListed(q, {s})
  BY <1>6, <1>7 DEF HiddenAreListed
<1> QED BY <1>1, <1>6, <1>10, <1>11

\* An imported session that was a row counts as used.
LEMMA ImportUsedSound ==
  ASSUME NEW r, Sound(r), IsSessionCache, NEW s \in r.mem, HiddenAreListed(r, {s}), NEW q, q \in {r, Used(r, s)}
  PROVE  Sound(q) /\ HiddenAreListed(q, {s}) /\ q.vis = r.vis /\ q.pins = r.pins /\ q.mem = r.mem
<1>1. CASE q = r
  BY <1>1
<1>2. CASE q # r
  <2>1. q = LruTouch(r, {s}) /\ s \notin r.vis
    BY <1>2 DEF Used
  <2>2. {s} \subseteq r.mem \ r.vis
    BY <2>1
  <2>3. Sound(q) /\ SameDesk(r, q) /\ SameMemory(r, q) /\ q.vis = r.vis /\ q.lru = r.lru \union Ids(r, {s})
    BY <2>1, <2>2, TouchSound
  <2>4. \A x : Id(q, x) = Id(r, x)
    BY <2>3, IdSame DEF SameDesk
  <2>5. HiddenAreListed(q, {s})
    BY <2>3, <2>4 DEF HiddenAreListed, SameDesk, SameWindow, SameMemory
  <2> QED BY <2>3, <2>5 DEF SameDesk, SameWindow, SameMemory
<1> QED BY <1>1, <1>2

LEMMA ImportGood ==
  ASSUME IInv, IsSessionCache, NEW s \in Sessions, NEW h \in BOOLEAN, Import(s, h)
  PROVE  Good
<1> DEFINE r == StubsResolved(m)
           merged == Merged(r, s)
           used == IF s \in r.rows \ (r.mem \ r.ghost) THEN Used(merged, s) ELSE merged
           saved == ScheduleSave(used, s)
           imported == EvictIfNeeded(saved, NoId)
           others == IF h THEN imported.rows \ {s} ELSE {}
           S == {s}
           q == SetRowsVisibility(imported, S, others)
<1>1. Quietly(r) \/ Announced(q)
  BY DEF Import, Merged
<1>2. CacheSound(r) /\ SameWindow(m, r) /\ SameMemory(m, r) /\ r.vis = m.vis /\ OnScreen(r) = OnScreen(m)
  BY StubsResolvedSound
<1> HIDE DEF r
<1>3. CASE Quietly(r)
  <2>1. IdleLeave(m, r) /\ r.batch = m.batch /\ r.quiet = m.quiet
    BY <1>2 DEF IdleLeave, SameMemory, SameWindow
  <2> QED BY <1>2, <1>3, <2>1, QuietStep
<1>4. CASE Announced(q)
  <2>1. /\ Sound(merged) /\ HiddenAreListed(merged, {s}) /\ merged.vis = r.vis /\ merged.pins = r.pins
        /\ merged.mem = r.mem \union {s}
    BY <1>2, MergedSound DEF CacheSound
  <2>u. used \in {merged, Used(merged, s)}
    OBVIOUS
  <2> HIDE DEF merged, used
  <2>2. /\ Sound(used) /\ HiddenAreListed(used, {s}) /\ used.vis = merged.vis /\ used.pins = merged.pins
        /\ used.mem = merged.mem
    <3>1. s \in merged.mem
      BY <2>1
    <3> QED BY <2>1, <2>u, <3>1, ImportUsedSound
  <2>3. Sound(saved) /\ OnlySaves(used, saved)
    BY <2>1, <2>2, ScheduleSaveSound
  <2> HIDE DEF saved
  <2>4. HiddenAreListed(saved, {s})
    BY <2>2, <2>3 DEF OnlySaves
  <2>5. Sound(imported) /\ RowsLeft(saved, imported)
    BY <2>3, EvictIfNeededSound
  <2> HIDE DEF imported
  <2>6. HiddenAreListed(imported, {s})
    BY <2>4, <2>5, LeftKeepsListed
  <2>7. S \subseteq imported.rows /\ others \subseteq imported.rows /\ S \intersect others = {}
    <3>1. s \in imported.rows
      <4>1. s \in saved.rows
        BY <2>1, <2>2, <2>3 DEF OnlySaves, Sound, RowsHold
      <4> QED BY <2>5, <4>1 DEF RowsLeft, SameDesk, SameWindow
    <3> QED BY <3>1
  <2> HIDE DEF others
  <2>8. /\ Sound(q) /\ HiddenAreListed(q, {}) /\ Bounded(q)
        /\ \A x \in imported.mem \ q.mem : x \notin q.vis /\ imported.pins[x] = 0
    <3>1. HiddenAreListed(imported, S) /\ S \subseteq S
      BY <2>6
    <3> HIDE DEF S
    <3> QED BY <2>5, <2>7, <3>1, SetRowsVisibilitySound
  <2> HIDE DEF q
  <2>9. IdleLeave(m, q)
    <3> SUFFICES ASSUME NEW x \in m.mem, x \notin q.mem PROVE x \notin m.vis \intersect q.vis /\ m.pins[x] = 0
      BY DEF IdleLeave
    <3>1. x \in saved.mem
      BY <1>2, <2>1, <2>2, <2>3 DEF OnlySaves, SameMemory
    <3>2. saved.vis = m.vis /\ saved.pins = m.pins /\ imported.pins = m.pins
      BY <1>2, <2>1, <2>2, <2>3, <2>5 DEF OnlySaves, RowsLeft, SameDesk, SameWindow
    <3>3. CASE x \in imported.mem
      BY <2>8, <3>2, <3>3
    <3>4. CASE x \notin imported.mem
      BY <2>5, <3>1, <3>2, <3>4 DEF RowsLeft
    <3> QED BY <3>3, <3>4
  <2> QED BY <1>4, <2>8, <2>9, AnnounceStep DEF CacheSound
<1> QED BY <1>1, <1>3, <1>4

-------------------------------------------------------------------------------
(* The invariant                                                              *)

LEMMA InitGood ==
  ASSUME IsSessionCache, Init
  PROVE  IInv
<1> DEFINE pins == [s \in Sessions |-> 0]
<1>1. /\ m.rows = Sessions /\ m.mem = {} /\ m.vis = {} /\ m.ghost = {} /\ m.dirty = {} /\ m.failed = {}
      /\ m.retried = {} /\ m.lru = {} /\ m.newer = {} /\ m.capacity \in Capacities /\ drawn = {}
  BY DEF Init
<1>2. Typed(m)
  <2>1. pins \in [Sessions -> Nat] /\ NoId \in Idents
    BY DEF NoId, Idents
  <2>2. m.stems = Named /\ m.pins = pins /\ m.focus = NoId /\ m.passQueued = FALSE /\ m.queue = <<>>
        /\ m.batch = FALSE /\ m.quiet = FALSE
    BY DEF Init
  <2>3. m \in [rows : {Sessions}, stems : {Named}, vis : {{}}, mem : {{}}, ghost : {{}},
               dirty : {{}}, failed : {{}}, pins : {pins},
               lru : {{}}, newer : {{}}, capacity : Capacities, passQueued : {FALSE}, focus : {NoId},
               queue : {<<>>}, batch : {FALSE}, retried : {{}}, quiet : {FALSE}]
    BY DEF Init
  <2> HIDE DEF pins
  <2> QED BY <2>1, <2>2, <2>3 DEF Typed, IsSessionCache
<1>3. Sound(m)
  BY <1>1, <1>2 DEF Sound, RowsHold, NewestFirst, ListedAreHidden
<1>4. HiddenAreListed(m, {})
  BY <1>1 DEF HiddenAreListed
<1>5. Bounded(m)
  <2>1. Loose(m) = {}
    BY <1>1 DEF Loose
  <2>2. Cardinality(Loose(m)) = 0
    BY <2>1, FS_EmptySet
  <2>3. RoomOf(m) \in Nat /\ 0 <= RoomOf(m)
    <3>1. m.capacity \in Nat
      BY <1>1 DEF IsSessionCache
    <3> QED BY <3>1 DEF RoomOf
  <2> QED BY <2>2, <2>3 DEF Bounded
<1>6. OnScreen(m) = drawn
  BY <1>1 DEF OnScreen, Shown
<1> QED BY <1>3, <1>4, <1>5, <1>6 DEF IInv, CacheSound, DrawnAreShown

\* Every step preserves the invariant, and what it takes out of memory is idle.
LEMMA StepGood ==
  ASSUME IsSessionCache, IInv, [Next]_vars
  PROVE  IInv' /\ OnlyIdleRowsLeave
<1>1. CASE ShowAndHide
  BY <1>1, ShowAndHideGood DEF Good
<1>2. CASE ClearFocus
  BY <1>2, ClearFocusGood DEF Good
<1>3. CASE EvictionPass
  BY <1>3, EvictionPassGood DEF Good
<1>4. CASE SaveNextSession
  BY <1>4, SaveNextSessionGood DEF Good
<1>5. CASE LoadNextVisibleSession
  BY <1>5, LoadNextVisibleSessionGood DEF Good
<1>6. CASE CancelLoader
  BY <1>6, CancelLoaderGood DEF Good
<1>7. CASE DiskChanges \/ UNCHANGED vars
  BY <1>7, DiskChangesGood DEF Good
<1>8. ASSUME NEW s \in Sessions, SetChecked(s) PROVE Good
  BY <1>8, SetCheckedGood
<1>9. ASSUME NEW s \in Sessions, SetFocus(s) PROVE Good
  BY <1>9, SetFocusGood
<1>10. ASSUME NEW s \in Sessions, Edit(s) PROVE Good
  BY <1>10, EditGood
<1>11. ASSUME NEW s \in Sessions, RemoveSession(s) PROVE Good
  BY <1>11, RemoveSessionGood
<1>12. ASSUME NEW s \in Sessions, Pin(s) PROVE Good
  BY <1>12, PinGood
<1>13. ASSUME NEW s \in Sessions, Unpin(s) PROVE Good
  BY <1>13, UnpinGood
<1>14. ASSUME NEW s \in Sessions, NEW h \in BOOLEAN, Import(s, h) PROVE Good
  BY <1>14, ImportGood
<1>15. ASSUME NEW c \in Capacities, SetCapacity(c) PROVE Good
  BY <1>15, SetCapacityGood
<1> QED BY <1>1, <1>2, <1>3, <1>4, <1>5, <1>6, <1>7, <1>8, <1>9, <1>10, <1>11, <1>12, <1>13, <1>14, <1>15
        DEF Next, Good

LEMMA MemoryFromInvariant ==
  ASSUME IsSessionCache, IInv
  PROVE  MemoryComesBack
<1>1. Sound(m) /\ HiddenAreListed(m, {}) /\ Bounded(m)
  BY DEF IInv, CacheSound
<1>2. HiddenAreEvictable
  <2>1. ASSUME NEW s \in m.mem, s \in m.vis, Id(m, s) \in m.lru PROVE FALSE
    <3>1. Id(m, s).session = s
      BY IdFields
    <3> QED BY <1>1, <2>1, <3>1, ListedRow
  <2> QED BY <1>1, <2>1 DEF HiddenAreEvictable, HiddenAreListed
<1>3. CacheIsBounded
  <2> DEFINE stuck == {s \in m.mem : m.pins[s] > 0 \/ s \in m.failed \union m.retried}
             tight == m.lru \ Loose(m)
             f == [id \in tight |-> id.session]
  <2>1. IsFiniteSet(m.lru) /\ Cardinality(m.lru) \in Nat /\ Loose(m) \subseteq m.lru
    BY <1>1, ListFinite DEF Loose
  <2>2. IsFiniteSet(stuck) /\ Cardinality(stuck) \in Nat
    <3>1. IsFiniteSet(m.mem)
      BY <1>1, FS_Subset DEF Sound, Typed, IsSessionCache
    <3>2. stuck \subseteq m.mem
      OBVIOUS
    <3> HIDE DEF stuck
    <3> QED BY <3>1, <3>2, FS_Subset, FS_CardinalityType
  <2>3. ASSUME NEW id \in tight PROVE id.session \in stuck
    <3>1. id.session \in m.mem /\ id.session \in Sessions
      BY <1>1, ListedRow
    <3>2. m.pins[id.session] \in Nat
      BY <1>1, <3>1 DEF Sound, Typed
    <3> QED BY <3>1, <3>2 DEF Loose
  <2>4. \A x, y \in tight : x.session = y.session => x = y
    <3> SUFFICES ASSUME NEW x \in tight, NEW y \in tight, x.session = y.session PROVE x = y
      OBVIOUS
    <3>1. Id(m, x.session) = x /\ Id(m, y.session) = y
      BY <1>1, ListedRow
    <3> QED BY <3>1
  <2> HIDE DEF stuck, tight
  <2>5. f \in Injection(tight, stuck)
    <3>1. f \in [tight -> stuck] /\ \A x \in tight : f[x] = x.session
      BY <2>3
    <3> HIDE DEF f
    <3>2. IsInjective(f)
      BY <2>4, <3>1 DEF IsInjective
    <3> QED BY <3>1, <3>2 DEF Injection
  <2>6. Cardinality(tight) <= Cardinality(stuck)
    <3> HIDE DEF f
    <3> QED BY <2>2, <2>5, FS_Injection
  <2>7. Cardinality(tight) = Cardinality(m.lru) - Cardinality(Loose(m)) /\ Cardinality(Loose(m)) \in Nat
        /\ Cardinality(tight) \in Nat
    <3>1. m.lru \intersect Loose(m) = Loose(m)
      BY <2>1
    <3>2. IsFiniteSet(Loose(m)) /\ IsFiniteSet(tight)
      BY <2>1, FS_Subset, FS_Difference DEF tight
    <3> QED BY <2>1, <3>1, <3>2, FS_Difference, FS_CardinalityType DEF tight
  <2>8. Room = RoomOf(m) /\ Room \in Nat
    BY <1>1 DEF Room, RoomOf, Sound, Typed
  <2>9. ~m.passQueued => Cardinality(m.lru) <= Room + Cardinality(stuck)
    BY <1>1, <2>1, <2>2, <2>6, <2>7, <2>8 DEF Bounded
  <2> QED BY <2>9 DEF CacheIsBounded, stuck
<1> QED BY <1>2, <1>3 DEF MemoryComesBack

\* The inductive invariant: only rows are in memory, the list names hidden rows in
\* memory and puts them in an order, every hidden row that has not the focus is in
\* it, an eviction pass has left few that might go or is queued, and the plot shows
\* what is shown unless a batch or a quiet load is pending.
THEOREM CacheInvariant == ASSUME IsSessionCache PROVE Spec => []IInv
<1>1. Init => IInv
  BY InitGood
<1>2. IInv /\ [Next]_vars => IInv'
  BY StepGood
<1> QED BY <1>1, <1>2, PTL DEF Spec

\* For any number of rows, jobs and capacities: a hidden row in memory can always be
\* found by the eviction, a shown one never, and the list exceeds the capacity only
\* by rows that must stay (SessionModel::evictIfNeeded and the LRU list).
THEOREM MemoryAlwaysComesBack == ASSUME IsSessionCache PROVE Spec => []MemoryComesBack
<1>1. IInv => MemoryComesBack
  BY MemoryFromInvariant
<1> QED BY <1>1, CacheInvariant, PTL

\* Unless a batch is being loaded, the plot shows the rows that are shown and could
\* be read (the announcements of SessionModel::loadNextVisibleSession and the rest).
THEOREM PlotAlwaysShows == ASSUME IsSessionCache PROVE Spec => []ShownAreDrawn
<1>1. IInv => ShownAreDrawn
  BY DEF IInv, DrawnAreShown, ShownAreDrawn, OnScreen
<1> QED BY <1>1, CacheInvariant, PTL

\* No step takes a row out of memory that is shown, pinned by a job or holds an edit
\* that is not in its file, unless the row itself is removed
\* (SessionModel::evictSession).
THEOREM NothingIsEverDropped == ASSUME IsSessionCache PROVE Spec => NothingDropped
<1>1. IInv /\ [Next]_vars => [OnlyIdleRowsLeave]_vars
  BY StepGood
<1> QED BY <1>1, CacheInvariant, PTL DEF Spec, NothingDropped
===============================================================================
