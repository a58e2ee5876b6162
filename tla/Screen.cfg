CONSTANTS
  NoTime = NoTime
  a = a
  b = b
  c = c
  pref = pref
  c1 = c1
  c2 = c2
  c3 = c3
  v1 = v1
  Absent = Absent
  Invalid = Invalid
  Unread = Unread
  Rows <- PlotRows
  Places <- PlotPlaces
  Under <- PlotUnder
  Nearest <- PlotNearest
  Tight <- PlotTight
  KeySets <- PlotKeySets
  Changing <- PlotChanging
  Fitted <- PlotFitted
  OwnClocks <- PlotOwnClocks
  MaxSteps = 4
SPECIFICATION MCSpec
INVARIANTS
  ShownIsFresh
  ReportIsRight
  CrosshairIsTrue
  MeasureEnds
\* The views stop when nobody does anything and nothing is due.
CHECK_DEADLOCK FALSE
