--------------------------- MODULE MCSessionMemory ---------------------------
(***************************************************************************)
(* Two sessions, the first known by the name of its file and the second of *)
(* a file that may become unreadable, a row that may wait twice to be      *)
(* loaded, a disk that may be full, and a cache of no or one hidden        *)
(* session: every order of what the window, the jobs and the idle          *)
(* scheduler do to the rows that are kept in memory.                       *)
(***************************************************************************)
EXTENDS SessionCache

\* What the proofs about SessionCache take of its constants.
ASSUME MemoryConstants == IsSessionCache

\* Bound: while the disk is full at most one row waits to be loaded.
FewWait == disk'.full => Len(m'.queue) <= 1

MCSpec == Init /\ [][Next /\ FewWait]_vars
=============================================================================
