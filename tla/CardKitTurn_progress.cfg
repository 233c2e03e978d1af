SPECIFICATION FairSpec
CONSTANTS
  Steers = {"m1"}
  SteerModes = {"ack","silent"}
  AgentOps = {"tool"}
  MaxAgentOps = 1
  MaxStream = 2
  MaxProgress = 0
  MaxDispatch = 1
  FinalWays = {"edit","send"}
  Endings = {"success","cancelled"}
  Faults = {}
  MaxFaults = 0
  MayShutDown = FALSE
  MayExpire = FALSE
  MayCancel = FALSE
  MayEcho = FALSE
INVARIANT ToolShown
PROPERTY TransitionEnds
PROPERTY CoroutinesEnd
