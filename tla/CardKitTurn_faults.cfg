SPECIFICATION Spec
CONSTANTS
  Steers = {}
  SteerModes = {}
  AgentOps = {"artifact","tool","approval"}
  MaxAgentOps = 2
  MaxStream = 1
  MaxProgress = 0
  MaxDispatch = 1
  FinalWays = {"send","edit"}
  Endings = {"success","failure"}
  Faults = {"failed","transient","gone"}
  MaxFaults = 2
  MayShutDown = TRUE
  MayExpire = FALSE
  MayCancel = FALSE
  MayEcho = FALSE
INVARIANT TypeOK
INVARIANT RouteReleased
INVARIANT WritesInv
PROPERTY FrozenNeverEdited
PROPERTY SequenceRises
