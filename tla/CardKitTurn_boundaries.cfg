SPECIFICATION Spec
CONSTANTS
  Steers = {}
  SteerModes = {}
  AgentOps = {"tool","artifact","approval"}
  MaxAgentOps = 3
  MaxStream = 2
  MaxProgress = 1
  MaxDispatch = 1
  FinalWays = {"send"}
  Endings = {"success"}
  Faults = {}
  MaxFaults = 0
  MayShutDown = FALSE
  MayExpire = FALSE
  MayCancel = FALSE
  MayEcho = FALSE
INVARIANT AnswerShown
INVARIANT EndClosesTurn
PROPERTY OutputBelowBoundary
