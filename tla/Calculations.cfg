CONSTANTS
  None = None
  a = a
  b = b
  c = c
  pref = pref
  c1 = c1
  c2 = c2
  c3 = c3
  v1 = v1
  Absent = Absent
  Invalid = Invalid
  Unread = Unread
  NoTime = NoTime
  Rows <- VideoRows
  Views <- VideoViews
  SyncTimes <- VideoSyncTimes
  KeyFrame <- VideoKeyFrame
  HasSink = TRUE
  Duration = 2
SPECIFICATION MCSpec
INVARIANTS
  ReadsAreTrue
  TicketIsCurrent
  CursorTellsTheFrame
PROPERTIES
  SeeksEnd
