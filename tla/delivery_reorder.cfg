SPECIFICATION Spec
CONSTANTS
  MaxEvents = 2
  Subs = {1, 2}
  Faults = {"none", "duplicate", "out_of_order", "drop"}
  Answers = {"ok"}
  ExtraCopies = 1
  FaultDelay = 2
  Schedules <- OneTry
  DrainPasses = 2
  Callers = {c1}
  Routes = {"drain"}
  Virtual = TRUE
  MaxTime = 0
  MaxResets = 0
  NoJob = NoJob
INVARIANTS
  FirstAttemptsInOrder
  HeldGoesSecond
