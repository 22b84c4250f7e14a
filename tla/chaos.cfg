SPECIFICATION Spec
CONSTANTS
  r1 = r1
  r2 = r2
  r3 = r3
  r4 = r4
  order = order
  payment = payment
  Rules = {r1, r2, r3, r4}
  RuleIds = {"a", "b", "c"}
  RuleOf <- MCRuleOf
  Faults = {"rate_limit"}
  Subjects = {order, payment}
  RuleLists <- DistinctIds
  Unlimited = Unlimited
  Overlay = Overlay
  MaxTrace = 3
INVARIANTS
  MatchesAreOwn
PROPERTIES
  FiredAsPromised
