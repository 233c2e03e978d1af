SPECIFICATION Spec
CONSTANTS
  Steers = {"m1","m2"}
  SteerModes = {"ack","silent"}
  AgentOps = {"tool","artifact"}
  MaxAgentOps = 1
  MaxStream = 1
  MaxProgress = 0
  MaxDispatch = 1
  FinalWays = {"send"}
  Endings = {"success"}
  Faults = {}
  MaxFaults = 0
  MayShutDown = FALSE
  MayExpire = FALSE
  MayCancel = FALSE
  MayEcho = TRUE
INVARIANT NoOrphan
PROPERTY KeepsDisplay
PROPERTY CommitOntoFrozen
PROPERTY OutputBelowBoundary
