CONSTANTS
  s1 = s1
  u1 = u1
  c1 = c1
  c2 = c2
  a1 = a1
  a2 = a2
  e1 = e1
  e2 = e2
  Sessions = {s1}
  Uuids = {u1}
  Columns = {c1}
  Attributes = {a1}
  Affects <- OneColumn
  ColumnOf <- FirstShown
  Environments = {e1}
  Layouts = {{c1}}
  Rank <- OfOneSession
  MaxBulk = 0
  FilesLock = TRUE
  RemovalFails = FALSE
  ColumnsFail = FALSE
  StubsByName = FALSE
SPECIFICATION Spec
INVARIANTS
  IndexAgrees
