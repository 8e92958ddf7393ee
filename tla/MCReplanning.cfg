\* A day of biases, two lamp groups, their arcs and a wavelength map: two QA
\* policies, and one forced run or one crash.
CONSTANTS
  Target <- LampTarget
  kindOf <- LampKind
  start <- LampTime
  end <- LampEnd
  rank <- LampRank
  Parents <- LampParents
  BiasKind = "bias"
  Gated <- KindGated
  Edges <- KindEdges
  Requires <- KindRequires
  Releases <- KindReleases
  Evidence <- KindEvidence
  Reread <- KindReread
  Day = 4
  Tolerance = 4
  MaxPolicy = 2
  MaxDisturbances = 1
SPECIFICATION FairSpec
INVARIANTS
  GateHolds
  NothingRepeated
  ParentsReady
PROPERTIES
  PlansRunOut
\* A bound reached with an empty plan is the end of the exploration.
CHECK_DEADLOCK FALSE
