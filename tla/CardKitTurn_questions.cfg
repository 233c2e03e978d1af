SPECIFICATION Spec
CONSTANTS
  Steers = {"m1"}
  SteerModes = {"silent"}
  AgentOps = {"question","tool","artifact"}
  MaxAgentOps = 1
  MaxStream = 1
  MaxProgress = 0
  MaxDispatch = 2
  FinalWays = {"send"}
  Endings = {"success"}
  Faults = {"failed"}
  MaxFaults = 1
  MayShutDown = FALSE
  MayExpire = TRUE
  MayCancel = TRUE
  MayEcho = TRUE
INVARIANT WritesInv
INVARIANT RouteReleased
PROPERTY SequenceRises
