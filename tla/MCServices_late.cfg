SPECIFICATION Spec
CONSTANTS
  Parts = {"patient"}
  McpSize <- McpInstance
  GatewaySize <- GatewayInstance
  HumanSize <- HumanInstance
  AgentSize <- AgentInstance
  AuditSize <- AuditInstance
  OAuthSize <- OAuthInstance
  TokensSize <- TokensInstance
  RoomsSize <- RoomsInstance
  WakeSize <- WakeInstance
  ListenSize <- ListenInstance
  BenchSize <- BenchInstance
  SeenSize <- SeenInstance
  SocketSize <- SocketInstance
  PlayerSize <- PlayerInstance
  PatientSize <- PatientInstance
  ResultsSize <- ResultsInstance
  YonmaSize <- YonmaInstance
  SanmaSize <- SanmaInstance
INVARIANTS
  LateThinkersAreHeard
CHECK_DEADLOCK FALSE
