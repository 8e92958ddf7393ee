\* Up to four frames: lamps, darks, biases, science, flats or twilights, at any times within three days
\* of two hours; two plans.
CONSTANTS
  Campaigns <- AnyCampaigns
  Policy <- Policies
  Span <- Spans
  Minimum <- Minima
  Intervals <- ThreeSpans
  Names <- TwoNames
  GroupId <- IdOf
  Day = 2
  Separation = 2
  Windows <- AnyWindows
  Everything <- Always
  MaxPlans = 2
SPECIFICATION CadenceSpec
INVARIANTS
  GroupsWhole
  PairsNearest
  OnlyExtended
\* Plans are bounded.
CHECK_DEADLOCK FALSE
