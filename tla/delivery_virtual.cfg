SPECIFICATION FairSpec
CONSTANTS
  MaxEvents = 2
  Subs = {1}
  Faults = {"none", "delay", "drop_ack"}
  Answers = {"ok", "fail"}
  ExtraCopies = 0
  FaultDelay = 2
  Schedules <- TwoTries
  DrainPasses = 12
  Callers = {c1}
  Routes = {"drain", "timed", "advance", "advance_drain", "stop"}
  Virtual = TRUE
  MaxTime = 2
  MaxResets = 0
  NoJob = NoJob
INVARIANTS
  DrainSettles
  AdvanceCollapses
PROPERTIES
  CallsReturn
  FollowsPolicy
