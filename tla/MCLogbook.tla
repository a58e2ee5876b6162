------------------------------ MODULE MCLogbook ------------------------------
(***************************************************************************)
(* Small instances of Logbook: sessions, files, columns and what an        *)
(* attribute can affect.                                                   *)
(***************************************************************************)
EXTENDS LogbookProps, TLC

CONSTANTS s1, u1, c1, c2, a1, a2, e1, e2

\* the rows are in the order of their ids
OfOneSession == (s1 :> 1) @@ (u1 :> 2)

\* one attribute is a column of its own, the other affects both columns
TwoColumns == (a1 :> {c1}) @@ (a2 :> {c1, c2})
OneColumn == (a1 :> {c1})
ShownBy == (a1 :> c1) @@ (a2 :> c2)
FirstShown == (a1 :> c1)
===============================================================================
