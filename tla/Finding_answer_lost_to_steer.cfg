SPECIFICATION Spec
CONSTANTS
  Steers = {"m1"}
  SteerModes = {"silent"}
  AgentOps = {}
  MaxAgentOps = 0
  MaxStream = 1
  MaxProgress = 0
  MaxDispatch = 1
  FinalWays = {"send"}
  Endings = {"success"}
  Faults = {}
  MaxFaults = 0
  MayShutDown = FALSE
  MayExpire = FALSE
  MayCancel = FALSE
  MayEcho = FALSE
INVARIANT AnswerShown
