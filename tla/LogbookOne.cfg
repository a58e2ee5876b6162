CONSTANTS
  s1 = s1
  u1 = u1
  c1 = c1
  c2 = c2
  a1 = a1
  a2 = a2
  e1 = e1
  e2 = e2
  Sessions = {s1}
  Uuids = {u1}
  Columns = {c1, c2}
  Attributes = {a1, a2}
  Affects <- TwoColumns
  ColumnOf <- ShownBy
  Environments = {e1, e2}
  Layouts = {{c1}, {c2}, {c1, c2}}
  Rank <- OfOneSession
  MaxBulk = 2
  FilesLock = FALSE
  RemovalFails = FALSE
  ColumnsFail = FALSE
  StubsByName = FALSE
SPECIFICATION Spec
INVARIANTS
  ValuesAgree
  NothingIsLost
PROPERTIES
  NothingDropped
