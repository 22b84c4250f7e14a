SPECIFICATION PipelineSpec
CONSTANTS
  k = k
  mangled = mangled
  expiry = expiry
  broken = broken
  Clients = {c1, c2}
  Calls <- MCCalls
  RouteOf <- MCRouteOf
  NoKey = NoKey
  Endings <- MCEndings
  LogCapacity = 1
  MaxRequests = 3
  Nobody = Nobody
  Rules = {mangled, expiry, broken}
  RuleIds = {"m", "e", "b"}
  RuleOf <- MCRuleOf
  RuleLists <- MCRuleLists
  Unlimited = Unlimited
  Overlay = "in_band"
  Subjects <- MCSubjects
  Faults <- AllFaults
  MaxTrace = 3
INVARIANTS
  ReplaysNameTheCommit
  LogTellsCommits
  FaultsArePaidOut
  OneDrawPerRequest
  NobodyStuck
PROPERTIES
  FollowsService
CHECK_DEADLOCK FALSE
