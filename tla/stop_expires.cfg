SPECIFICATION Spec
CONSTANTS
  Documents <- OneToFour
  Malformed <- TheSecond
  Poisoned <- TheFourth
  Threads = {t1, t2}
  Owner = Owner
  JoinExpires = TRUE
  MaxCrashes = 0
  Refusal = Refusal
  None = None
INVARIANTS
  StopIsQuiet
