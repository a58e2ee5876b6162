SPECIFICATION MCSpec
CONSTANTS
  NoValue = NoValue
  NoMatch = NoMatch
  Plots <- ListPlots
  Tracks <- ListTracks
  Calcs <- ListCalcs
  Needs <- ListNeeds
  After <- ListAfter
  Refusable <- ListRefusable
  MaxJobs = 4
INVARIANTS
  JobsServePlots
  ShownIsTrue
  NobodyIsBehind
  FingerprintDecides
  MarkersAgree
  ProfileStands
PROPERTY
  OnlyAskedFor
