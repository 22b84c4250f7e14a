SPECIFICATION Spec
CONSTANTS
  order = order
  config = config
  Callers = {c1, c2}
  Worker = Worker
  Entities = {order}
  Subscribers = {config}
  Seed <- MCSeed
  Unserialized = TRUE
  MaxEvents = 2
  MaxWrites = 2
  MaxAsked = 1
  Free = Free
SYMMETRY Symmetric
INVARIANTS
  JournalIsTheSource
  NoCircularWait
PROPERTIES
  FollowsOutbox
