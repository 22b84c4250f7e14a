SPECIFICATION FairSpec
CONSTANTS
  MaxEvents = 2
  Subs = {1}
  Faults = {"none"}
  Answers = {"ok", "fail", "raise"}
  ExtraCopies = 0
  FaultDelay = 2
  Schedules <- Shrinking
  DrainPasses = 1
  Callers = {c1}
  Routes = {"stop"}
  Virtual = FALSE
  MaxTime = 0
  MaxResets = 1
  NoJob = NoJob
INVARIANTS
  Accounted
  AttemptsContiguous
PROPERTIES
  EveryDeliveryEnds
