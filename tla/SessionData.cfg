SPECIFICATION DataSpec
CONSTANTS
  Garbage = Garbage
  Stub = Stub
  NaN = NaN
  NoAttribute = NoAttribute
  LegacyScale = 2
  AttributeOrder <- MCAttributes
  ColumnOrder <- MCColumns
  Corrected <- MCCorrected
  UnitScale <- MCUnitScale
  IsTimeName <- MCIsTimeName
  NoTime = NoTime
  Rows <- AxisRows
  Keys <- AxisKeys
  Computed <- AxisComputed
  Skew <- AxisSkew
  OwnClocks <- AxisOwnClocks
  Span <- AxisSpan
  ClusterDistance = 0
  Times = {3}
  Places = {0, 2}
  Moves <- AxisMoves
  MaxSteps = 3
INVARIANTS
  ReimportChangesNothing
  SessionsCanBeWritten
  TimesInOrder
  FastestIsFound
  BubblesAreTrue
  MarkerIsAtPointer
  MapFollows
PROPERTIES
  WhatWasRecordedStands
\* A recording that is as long as the bound stays as it is, and the plot stops when
\* nobody does anything and nothing is due.
CHECK_DEADLOCK FALSE
