\* Every graph over three ids (cycles, unknown, self and tolerant dependencies,
\* observed ids), two pool threads, one retry; with a reporter,
\* those over two ids.
CONSTANTS
  n1 = n1
  n2 = n2
  n3 = n3
  Node = {n1, n2, n3}
  MaxWorkers = 2
  MaxRetries = 1
  PlanningFiles <- MCFiles
  Situations <- MCSituations
SPECIFICATION FairCommandSpec
CONSTRAINTS
  DeclaredInTurn
  ReportedSmall
  FlagsTold
INVARIANTS
  InputsComplete
  OutcomesPersisted
  QuietAtEnd
  ReportTruthful
PROPERTIES
  ImplementsGraphRun
  RunEnds
\* A run that ended, or a graph that was rejected, is the end of the object.
CHECK_DEADLOCK FALSE
