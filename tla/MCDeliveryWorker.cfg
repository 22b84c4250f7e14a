SPECIFICATION FairSpec
CONSTANTS
  Jobs = {j1, j2, j3}
  Callers = {c1, c2}
  Worker = w
  NoJob = NoJob
INVARIANTS
  Conserved
  NoLostWakeup
  QuiesceCovers
PROPERTIES
  ImplementsExecutor
  EveryJobFinishes
