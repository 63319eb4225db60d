------------------------------ MODULE Services ------------------------------
(***************************************************************************)
(* The services around the Rooms: the sessions of MCP agents, the sockets  *)
(* of Humans and of Mjai agents, the audit of the Admin, the grants of the *)
(* gateway, the revocation of Bot Tokens, the wake-up of MCP agents,       *)
(* Benchmark Mode, the views of a Match, the socket of a Mjai Bot, and the *)
(* results and frames of a replay.  They share no state, so a behaviour is *)
(* one of them alone: `part` names it, and the variables are its own, in   *)
(* the order its module declares them.  A component whose hazards need     *)
(* different sizes is a part twice.                                        *)
(***************************************************************************)
EXTENDS Naturals

CONSTANT Parts   \* the parts that are looked at

\* The constants of each part, a record with a field for each.
CONSTANTS
  McpSize, GatewaySize, HumanSize, AgentSize, AuditSize, OAuthSize, TokensSize, RoomsSize,
  WakeSize, ListenSize, BenchSize, SeenSize, SocketSize, PlayerSize, PatientSize, ResultsSize,
  YonmaSize, SanmaSize

VARIABLES part, v1, v2, v3, v4, v5, v6, v7, v8, v9, v10, v11, v12, v13, v14, v15

last13 == <<v3, v4, v5, v6, v7, v8, v9, v10, v11, v12, v13, v14, v15>>
last11 == <<v5, v6, v7, v8, v9, v10, v11, v12, v13, v14, v15>>
last8 == <<v8, v9, v10, v11, v12, v13, v14, v15>>
last7 == <<v9, v10, v11, v12, v13, v14, v15>>
last6 == <<v10, v11, v12, v13, v14, v15>>
last3 == <<v13, v14, v15>>
vars == <<part, v1, v2, v3, v4, v5, v6, v7, v8, last7>>

\* Sessions of MCP agents.
Mcp == INSTANCE McpSessions WITH
  S <- McpSize.S, Id <- McpSize.Id, Token <- McpSize.Token, IdOf <- McpSize.IdOf,
  TokenOf <- McpSize.TokenOf, Stateless <- McpSize.Stateless, MaxJoins <- McpSize.MaxJoins,
  known <- v1, live <- v2, entry <- v3, bound <- v4, pair <- v5, retired <- v6, banned <- v7,
  good <- v8, notices <- v9, asked <- v10, join <- v11, leaving <- v12, cleanup <- v13,
  closing <- v14, room <- v15

\* Identities of the ChatGPT gateway.
Gateway == INSTANCE McpSessions WITH
  S <- GatewaySize.S, Id <- GatewaySize.Id, Token <- GatewaySize.Token,
  IdOf <- GatewaySize.IdOf, TokenOf <- GatewaySize.TokenOf, Stateless <- GatewaySize.Stateless,
  MaxJoins <- GatewaySize.MaxJoins,
  known <- v1, live <- v2, entry <- v3, bound <- v4, pair <- v5, retired <- v6, banned <- v7,
  good <- v8, notices <- v9, asked <- v10, join <- v11, leaving <- v12, cleanup <- v13,
  closing <- v14, room <- v15

\* Sockets of Humans.
Human == INSTANCE Connections WITH
  C <- HumanSize.C, Humans <- HumanSize.Humans, Agents <- HumanSize.Agents,
  MaxLock <- HumanSize.MaxLock,
  task <- v1, slot <- v2, owner <- v3, entry <- v4, told <- v5, valid <- v6, expelled <- v7,
  room <- v8

\* Sockets of Mjai agents.
Agent == INSTANCE Connections WITH
  C <- AgentSize.C, Humans <- AgentSize.Humans, Agents <- AgentSize.Agents,
  MaxLock <- AgentSize.MaxLock,
  task <- v1, slot <- v2, owner <- v3, entry <- v4, told <- v5, valid <- v6, expelled <- v7,
  room <- v8

\* Requests of the Admin.
Audit == INSTANCE AdminAudit WITH
  R <- AuditSize.R,
  kind <- v1, pc <- v2, mutex <- v3, pending <- v4, log <- v5, done <- v6, queued <- v7,
  flushing <- v8, up <- v9

\* Pages, pending authorizations, requests and token pairs of the gateway.
OAuth == INSTANCE OAuthGrants WITH
  F <- OAuthSize.F, Q <- OAuthSize.Q, MaxPending <- OAuthSize.MaxPending,
  FlowLife <- OAuthSize.FlowLife, CodeLife <- OAuthSize.CodeLife,
  AccessLife <- OAuthSize.AccessLife, FamilyLife <- OAuthSize.FamilyLife,
  MaxPairs <- OAuthSize.MaxPairs, MaxTime <- OAuthSize.MaxTime,
  now <- v1, shown <- v2, flow <- v3, code <- v4, family <- v5, pair <- v6, request <- v7,
  held <- v8, replayed <- v9

\* The revocation of Bot Tokens, where the channel overflows.
Tokens == INSTANCE TokenRevocation WITH
  T <- TokensSize.T, Rm <- TokensSize.Rm, Stream <- TokensSize.Stream, Box <- TokensSize.Box,
  up <- v1, disk <- v2, cache <- v3, admin <- v4, stream <- v5, lagged <- v6, worker <- v7,
  sema <- v8, join <- v9, box <- v10, member <- v11, waiting <- v12

\* The same, where one Room is delivered to after the other.
Rooms == INSTANCE TokenRevocation WITH
  T <- RoomsSize.T, Rm <- RoomsSize.Rm, Stream <- RoomsSize.Stream, Box <- RoomsSize.Box,
  up <- v1, disk <- v2, cache <- v3, admin <- v4, stream <- v5, lagged <- v6, worker <- v7,
  sema <- v8, join <- v9, box <- v10, member <- v11, waiting <- v12

\* An agent that waits for its turn.
Wake == INSTANCE McpWake WITH
  Tasks <- WakeSize.Tasks, Queue <- WakeSize.Queue, MaxRev <- WakeSize.MaxRev,
  rev <- v1, mine <- v2, gone <- v3, events <- v4, lost <- v5, busy <- v6, wake <- v7,
  agent <- v8, told <- v9

\* An agent that also listens for notifications.
Listen == INSTANCE McpWake WITH
  Tasks <- ListenSize.Tasks, Queue <- ListenSize.Queue, MaxRev <- ListenSize.MaxRev,
  rev <- v1, mine <- v2, gone <- v3, events <- v4, lost <- v5, busy <- v6, wake <- v7,
  agent <- v8, told <- v9

\* A Run of Benchmark Mode.
Bench == INSTANCE Benchmark WITH
  Target <- BenchSize.Target, Queue <- BenchSize.Queue,
  up <- v1, room <- v2, actor <- v3, answer <- v4, queue <- v5, stray <- v6, mail <- v7,
  run <- v8, matches <- v9, counted <- v10, files <- v11, heard <- v12

\* The views of a Match.
Seen == INSTANCE Views WITH
  N <- SeenSize.N, Kyokus <- SeenSize.Kyokus, Draws <- SeenSize.Draws, Box <- SeenSize.Box,
  Watchers <- SeenSize.Watchers,
  engine <- v1, decision <- v2, log <- v3, held <- v4, history <- v5, known <- v6, client <- v7

\* The views, with a socket that follows them.
Socket == INSTANCE Views WITH
  N <- SocketSize.N, Kyokus <- SocketSize.Kyokus, Draws <- SocketSize.Draws,
  Box <- SocketSize.Box, Watchers <- SocketSize.Watchers,
  engine <- v1, decision <- v2, log <- v3, held <- v4, history <- v5, known <- v6, client <- v7

\* A Mjai Bot in a Room.
Player == INSTANCE RoomAgent WITH
  Matches <- PlayerSize.Matches, Decisions <- PlayerSize.Decisions, Box <- PlayerSize.Box,
  LongTime <- PlayerSize.LongTime,
  room <- v1, notes <- v2, on <- v3, agent <- v4, old <- v5, action <- v6, asked <- v7,
  taken <- v8

\* The same with the time of Unlimited.
Patient == INSTANCE RoomAgent WITH
  Matches <- PatientSize.Matches, Decisions <- PatientSize.Decisions, Box <- PatientSize.Box,
  LongTime <- PatientSize.LongTime,
  room <- v1, notes <- v2, on <- v3, agent <- v4, old <- v5, action <- v6, asked <- v7,
  taken <- v8

\* The results of a Match.
Results == INSTANCE Settlement WITH
  N <- ResultsSize.N, Kyokus <- ResultsSize.Kyokus, Wall <- ResultsSize.Wall,
  Points0 <- ResultsSize.Points0, Draws <- ResultsSize.Draws,
  engine <- v1, events <- v2, records <- v3, status <- v4

\* The frames of a Match of four-player tiles.
Yonma == INSTANCE ReplayFrames WITH
  N <- YonmaSize.N, Sanma <- YonmaSize.Sanma, HandSize <- YonmaSize.HandSize,
  Kinds <- YonmaSize.Kinds, Fives <- YonmaSize.Fives, North <- YonmaSize.North,
  Kyokus <- YonmaSize.Kyokus, Deals <- YonmaSize.Deals,
  table <- v1, frame <- v2

\* The frames of a Match with Norths.
Sanma == INSTANCE ReplayFrames WITH
  N <- SanmaSize.N, Sanma <- SanmaSize.Sanma, HandSize <- SanmaSize.HandSize,
  Kinds <- SanmaSize.Kinds, Fives <- SanmaSize.Fives, North <- SanmaSize.North,
  Kyokus <- SanmaSize.Kyokus, Deals <- SanmaSize.Deals,
  table <- v1, frame <- v2

ASSUME McpAssumption == Mcp!Assumption /\ Gateway!Assumption
ASSUME SocketAssumption == Human!Assumption /\ Agent!Assumption
ASSUME WakeAssumption == Wake!Assumption /\ Listen!Assumption
ASSUME TokensAssumption == Tokens!Assumption /\ Rooms!Assumption
ASSUME OAuthAssumption == OAuth!Assumption
ASSUME BenchAssumption == Bench!Assumption
ASSUME ViewsAssumption == Seen!Assumption /\ Socket!Assumption
ASSUME FramesAssumption == Yonma!Assumption /\ Sanma!Assumption
ASSUME ResultsAssumption == Results!Assumption

Unused3 == v13 = "unused" /\ v14 = "unused" /\ v15 = "unused"
Unused6 == v10 = "unused" /\ v11 = "unused" /\ v12 = "unused" /\ Unused3
Unused7 == v9 = "unused" /\ Unused6
Unused8 == v8 = "unused" /\ Unused7
Unused11 == v5 = "unused" /\ v6 = "unused" /\ v7 = "unused" /\ Unused8
Unused13 == v3 = "unused" /\ v4 = "unused" /\ Unused11

Init ==
  /\ part \in Parts
  /\ CASE part = "mcp" -> Mcp!Init
       [] part = "gateway" -> Gateway!Init
       [] part = "human" -> Human!Init /\ Unused7
       [] part = "agent" -> Agent!Init /\ Unused7
       [] part = "audit" -> Audit!Init /\ Unused6
       [] part = "oauth" -> OAuth!Init /\ Unused6
       [] part = "tokens" -> Tokens!Init /\ Unused3
       [] part = "rooms" -> Rooms!Init /\ Unused3
       [] part = "wake" -> Wake!Init /\ Unused6
       [] part = "listen" -> Listen!Init /\ Unused6
       [] part = "benchmark" -> Bench!Init /\ Unused3
       [] part = "views" -> Seen!Init /\ Unused8
       [] part = "socket" -> Socket!Init /\ Unused8
       [] part = "player" -> Player!Init /\ Unused7
       [] part = "patient" -> Patient!Init /\ Unused7
       [] part = "results" -> Results!Init /\ Unused11
       [] part = "yonma" -> Yonma!Init /\ Unused13
       [] part = "sanma" -> Sanma!Init /\ Unused13

Next ==
  /\ UNCHANGED part
  /\ \/ part = "mcp" /\ Mcp!Next
     \/ part = "gateway" /\ Gateway!Next
     \/ part = "human" /\ Human!Next /\ UNCHANGED last7
     \/ part = "agent" /\ Agent!Next /\ UNCHANGED last7
     \/ part = "audit" /\ Audit!Next /\ UNCHANGED last6
     \/ part = "oauth" /\ OAuth!Next /\ UNCHANGED last6
     \/ part = "tokens" /\ Tokens!Next /\ UNCHANGED last3
     \/ part = "rooms" /\ Rooms!Next /\ UNCHANGED last3
     \/ part = "wake" /\ Wake!Next /\ UNCHANGED last6
     \/ part = "listen" /\ Listen!Next /\ UNCHANGED last6
     \/ part = "benchmark" /\ Bench!Next /\ UNCHANGED last3
     \/ part = "views" /\ Seen!Next /\ UNCHANGED last8
     \/ part = "socket" /\ Socket!Next /\ UNCHANGED last8
     \/ part = "player" /\ Player!Next /\ UNCHANGED last7
     \/ part = "patient" /\ Patient!Next /\ UNCHANGED last7
     \/ part = "results" /\ Results!Next /\ UNCHANGED last11
     \/ part = "yonma" /\ Yonma!Next /\ UNCHANGED last13
     \/ part = "sanma" /\ Sanma!Next /\ UNCHANGED last13

Spec == Init /\ [][Next]_vars

Of(name, property) == part = name => property

-----------------------------------------------------------------------------

\* One identity has one Participant, one Participant one session or socket, one
\* task at a time works on it, and no agent stays connected without one unless the
\* Room was too busy to hear of its end (mcp.rs join_room, disconnect_entry, http.rs
\* operation_lock, compat.rs teardown_room_connection).
SessionsAreSound ==
  /\ Of("mcp", Mcp!SessionsAreSound)
  /\ Of("gateway", Gateway!SessionsAreSound)
  /\ Of("human", Human!SessionsAreSound)
  /\ Of("agent", Agent!SessionsAreSound)

\* Whoever was kicked or lost its token is out everywhere once the operation is
\* carried out (mcp.rs revoke_token, http.rs admin_participant_command,
\* compat.rs deliver_revocation).
ExpelledAreOut ==
  /\ Of("mcp", Mcp!ExpelledAreOut) /\ Of("gateway", Gateway!ExpelledAreOut)
  /\ Of("human", Human!ExpelledAreOut) /\ Of("agent", Agent!ExpelledAreOut)
  /\ Of("tokens", Tokens!ExpelledAreOut) /\ Of("rooms", Rooms!ExpelledAreOut)

\* What the Admin did is in the audit, or a row is left to put it there; what was
\* taken back never enters the audit (http.rs complete_admin_audit, storage.rs
\* flush_pending_audit).
AuditIsSound ==
  /\ [](part = "audit" => Audit!DoneIsAudited)
  /\ [][part = "audit" => Audit!StaysOut]_vars

\* A grant is redeemed once, ends when a token is replayed, and ends in time
\* (oauth_store.rs exchange_code, rotate_refresh).
GrantsAreSound ==
  Of("oauth", OAuth!GrantsAreSound)

\* An agent does not sleep through its Decision, and is told of it (mcp.rs
\* wait_until, record).
AgentsAreWoken ==
  Of("wake", Wake!AgentsAreWoken) /\ Of("listen", Listen!AgentsAreWoken)

\* Room, database and the Matches that count agree on a Run, however it ends
\* (room.rs complete_match, finish_benchmark, storage.rs complete_match).
BenchmarkIsTruthful ==
  Of("benchmark", Bench!IsTruthful)

\* No view of a Match shows what its audience may not know (projection.rs, room.rs
\* project_history_event, mjai event_for_player, http.rs visible_game_event).
SeesOnlyWhatItMay ==
  Of("views", Seen!SeesOnlyWhatItMay) /\ Of("socket", Socket!SeesOnlyWhatItMay)

\* The views of a Match agree with each other, with the results that are published,
\* and with what a socket has been sent (match_machine.rs project, room.rs
\* record_history, archive_published, publish).
ViewsAgree == Of("views", Seen!ViewsAgree) /\ Of("socket", Socket!ViewsAgree)

\* A Mjai Bot in a Room is asked about what is open for it, and its answer goes
\* there (compat.rs sync_room, room_reply).
BotsAnswerWhatIsOpen == Of("player", Player!BotsAnswer) /\ Of("patient", Patient!BotsAnswer)

\* The results the Machine files are those the reader finds in the events, and it takes
\* no others (engine.rs finish_apply, result_record, frames.rs attach_result_records,
\* validate_canonical_settlement).
ResultsFitTheEvents ==
  Of("results", /\ Results!ResultsAreReadable /\ Results!PointsAreKept
                /\ Results!ChangedResultsAreRefused)

\* A replay can be read and shows hands, melds and riichi as the table had them
\* (frames.rs ReplayState::apply, mjson.rs tile_name, parse_tile).
FramesShowTheTable ==
  Of("yonma", Yonma!FramesShowTheTable) /\ Of("sanma", Sanma!FramesShowTheTable)

\* "MJAI: five-minute safety watchdog whether connected or disconnected"
\* (spec/implementation-v1.md, 7.1): a Bot that answers within the time of its
\* request is not told that the request is stale.
LateThinkersAreHeard == Of("patient", Patient!TimeIsKept)

\* "Private-state update notifications are sent only for a relevant Decision"
\* (spec/implementation-v1.md, 16.4): a listening agent is told of its Decision.
ListenersAreTold == Of("listen", Listen!ListenersAreTold)
=============================================================================
