SPECIFICATION Spec
CONSTANTS
  Parts = {"mcp", "gateway", "human", "agent", "audit", "oauth", "tokens", "rooms", "wake", "listen", "benchmark", "views", "socket", "player", "patient", "results", "yonma", "sanma"}
  McpSize <- McpInstance
  GatewaySize <- GatewayInstance
  HumanSize <- HumanInstance
  AgentSize <- AgentInstance
  AuditSize <- AuditInstance
  OAuthSize <- OAuthInstance
  TokensSize <- TokensInstance
  RoomsSize <- RoomsInstance
  WakeSize <- WakeInstance
  ListenSize <- ListenInstance
  BenchSize <- BenchInstance
  SeenSize <- SeenInstance
  SocketSize <- SocketInstance
  PlayerSize <- PlayerInstance
  PatientSize <- PatientInstance
  ResultsSize <- ResultsInstance
  YonmaSize <- YonmaInstance
  SanmaSize <- SanmaInstance
INVARIANTS
  SessionsAreSound ExpelledAreOut GrantsAreSound AgentsAreWoken BenchmarkIsTruthful SeesOnlyWhatItMay ViewsAgree BotsAnswerWhatIsOpen ResultsFitTheEvents FramesShowTheTable
PROPERTIES
  AuditIsSound
CHECK_DEADLOCK FALSE
