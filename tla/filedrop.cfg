SPECIFICATION Spec
CONSTANTS
  Documents <- OneToFive
  Malformed <- TheSecond
  Poisoned <- TheFourth
  Threads = {t1, t2}
  Owner = Owner
  JoinExpires = FALSE
  MaxCrashes = 2
  Refusal = Refusal
  None = None
INVARIANTS
  GoneMeansAnswered
  HandledInOrder
PROPERTIES
  AnsweredUnlessBlocked
  FollowsInbox
