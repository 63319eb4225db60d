# Driichi in TLA+

Driichi is a server for riichi mahjong: people play in the browser, programs play
over Mjai WebSockets or MCP, and an Admin runs Rooms.  This directory models the
parts of it in which the order of events decides what is correct.  Every module
is translated from the Rust sources under `crates/`; `PROJECT.json` maps each
definition to its lines.

## 1. Inventory

| Part | Source | State | Operations | Hard behaviour |
|---|---|---|---|---|
| Decision | `double_riichi_core/decision.rs` | offers, deadlines, answers of one Decision | open, submit, resolve at a time, default, retime | an answer racing its deadline; a response that waits for several Seats; a Seat retimed while it is asked |
| Match Machine | `match_machine.rs` | presence and controller of each Seat, open Decision, public log, withheld Kyoku, events for the replay | submit, expire, disconnect, reconnect, automate, publish a result step, release a Kyoku | automation in the middle of a Decision; engine failure; a Kyoku end that must stay hidden while its results are shown |
| Engine adapter, results | `engine.rs`, `results.rs` | the external rules engine, its log, the capture of an ended Kyoku | legal actions, apply a batch, make the result record | the engine deals the next Kyoku in the step that ends one |
| Projections | `projection.rs`, `http.rs`, Mjai `lib.rs` | none | event or table × audience → view | what a view leaks; views that disagree |
| Room actor | `room.rs` | Participants, selection, Ready, roster, result step, replay flag, emptiness | join, select, ready, start, submit, confirm, leave, kick, revoke, reconnect, configure, Tick, delete | commands, deadlines and clocks in any order; who is waited for; what an abort leaves behind |
| Benchmark Mode | `room.rs`, `storage.rs` | Run, completed Matches, rotation, stop request | start, next Match, stop, fail | stop, loss of a Participant, a failing worker and a crash racing with completion |
| Room history, subscriptions | `room.rs` | bounded buffer, subscriber queues | append, archive, evict, subscribe | readers that fall behind and are dropped |
| Room Registry | `room.rs` | codes, cool-downs, workers | create, get, delete, revoke a token everywhere, shut down | several locks, closed Rooms found by code |
| Replay files | `double_riichi_replay` | part file, line count, tables of markers | append, flush, finalize; parse, rebuild, join results | crash between rename and row; a reader that must find again what the writer knew |
| Effect worker, storage | `double_riichi_server/storage.rs` | SQLite rows, open writers | open, append, flush, finalize, delete, startup clean-up | acknowledgement time-outs, partial failure, restart |
| Bot Tokens, sessions | `auth.rs` | token rows, cache, broadcast, Admin sessions | issue, authenticate, revoke | database and cache apart; a channel that overflows |
| Admin audit | `http.rs`, `storage.rs` | pending rows, audit log | announce, act, complete, cancel, flush | a dropped request, a crash, the daily flush in between |
| OAuth | `oauth.rs`, `oauth_store.rs` | pending authorizations, codes, refresh families | authorize, consent, exchange, rotate | a token used twice |
| Human front | `http.rs` | connection generations, operation locks | join, connect, replace, leave, kick | an old socket ending after a new one |
| Mjai sockets | `compat.rs` | connections, last Decision, pending requests | connect, sync, reply | notifications read late; a reply for a state that is gone |
| MCP server | `mcp.rs` | sessions, bindings, waits, revisions | bind, join, wait for a revision, listen, expire | two sessions, one Participant; sleeping through one's turn |
| Compatibility queues and Matches | `compat.rs` | queue, timer generation, slots, active Matches, requests and banks | enqueue, fill, start, cancel, revoke, collect replies | a batch formed under one lock and started under another; a Bot that goes away |
| Mjai codec, MCP bridge, gateway, characters, configuration, web client, plugin, scripts | see `PROJECT.json` | none that changes, or none of the server's | | |

How they interact.  A client's request becomes a `RoomCommand` in the queue of a
Room actor; the actor is a single task that owns its `RoomState` and the Match
Machine in it, so commands are atomic with respect to each other.  The actor
wakes up by itself once a second or at the next deadline (`RoomCommand::Tick`).
The Match Machine asks the engine and resolves Decisions; the actor takes the
events it produced and sends them as effects to a worker of its own, which owns
the replay file and the database rows, and which reports a lost replay back as a
command.  Whoever watches a Room (a Human's socket, a Mjai agent, an MCP session)
has a queue of notifications that says only that something changed, and reads the
Room again.  Token revocations go from the database through a broadcast to the
ranked queue, the sockets, the MCP sessions and, over the Registry, to every Room.
Compatibility Matches have no Room: a queue forms them and an actor of their own
drives a Match Machine.

What makes each part correct:

* Decision: every eligible Seat is answered exactly once, by its own action in
  time or by the safe default after its deadline, and never both.
* Match Machine: nobody waits for a Seat that is played automatically; a Decision
  without a deadline is only left to a Human who is there; nothing after the end of
  a Kyoku is public before its results have been shown, and the replay ends up
  with the public log.
* Results and replay frames: what is filed about a Kyoku is what its events say,
  and both show the table that was.
* Views: nobody learns a tile before it is theirs to know, and the table, the
  history and the sockets tell one story.
* Room: the roster of a Match stays complete whoever goes; a player who is there
  plays; results wait only for people who are there, but do wait for them; a
  Room is deleted when it is deserted and only then; a lost replay stays lost.
* Replay on disk, Benchmark: what the database calls completed is whole, and
  nothing is lost without a report.
* Compatibility: a slot is released once, a token is in one Match, every Bot that
  waits is answered, every Match ends.
* Sockets and sessions: one Participant has one of them, and whoever was expelled
  is out of all.
* Audit: what was done is in it, what was taken back is not.

## 2. Modules

| Module | Models | Kind |
|---|---|---|
| `Decision` | `decision.rs`: the record of one Decision and its operators | operators |
| `MatchMachine` | `match_machine.rs`: the machine and, as a nondeterministic environment, the engine | specification |
| `DecisionContract` | what the machine promises to the Room about Decisions | abstract specification |
| `MatchMachineProofs` | theorems about `MatchMachine` | proofs |
| `Room` | `room.rs`: `RoomState` and the actor around it | specification |
| `RoomProofs` | theorems about `Room` | proofs |
| `ReplayEffects` | actor, effect queue, worker, part file and rows of a replay, crash and restart | composition |
| `ReplayEffectsProofs` | theorems about `ReplayEffects` | proofs |
| `RankedQueue` | the ranked queue and the validation endpoint of `compat.rs` | specification |
| `CompatMatch` | the actor of one compatibility Match | specification |
| `Compat` | the two of `compat.rs` above, each alone | collection |
| `CompatProofs` | theorems about `Compat` and its two parts | proofs |
| `McpSessions` | sessions of MCP agents and their Participants | specification |
| `McpWake` | how a waiting or listening MCP agent is woken | specification |
| `McpProofs` | theorems about the two MCP modules and `Views` | proofs |
| `Connections` | sockets of Humans and Mjai agents, their locks | specification |
| `RoomAgent` | how a Mjai agent's socket follows a Room | specification |
| `AdminAudit` | audit of Admin operations | specification |
| `OAuthGrants` | grants of the ChatGPT gateway | specification |
| `TokenRevocation` | a Bot Token from its creation to the last Room | specification |
| `Benchmark` | a Run: actor, worker, tables | composition |
| `Views` | what each audience sees of a Match | specification |
| `Settlement` | the results of a Kyoku, captured by the adapter and joined by the reader | composition |
| `ReplayFrames` | from the table to the file and to the frames of a replay | composition |
| `SocketProofs` | theorems about `Connections`, `TokenRevocation`, `RoomAgent` and `ReplayFrames` | proofs |
| `RecordProofs` | theorems about `AdminAudit`, `OAuthGrants`, `Benchmark` and `Settlement`: what is written down of what was done | proofs |
| `Services` | the modules from `McpSessions` to `ReplayFrames`, each alone | collection |
| `ServicesProofs` | the theorems of `McpProofs`, `SocketProofs` and `RecordProofs`, carried over to `Services` | proofs |
| `MCMatchMachine`, `MCRoom`, `MCCompat`, `MCServices` | small instances | model checking |

The order of the list is that of dependence in the program.  `Room` keeps of the
Match Machine only what the Room reads: whether it decides, holds results, is
complete or aborted, and its view of controllers and presence; `MatchMachine` is
the detailed model of the same object.  `CompatMatch`, `Views` and `Settlement`
look at it from three other sides (one caller, what is shown, what is filed).

`Compat` and `Services` hold modules that share no state.  A behaviour there is one
of the parts alone: the variable `part` names it, and the module's variables are
`v1`, `v2`, ... in the order of its declaration.  The properties of the parts are
stated there once for all that have the same subject, and each part has constants
of its own (`McpSize`, `HumanSize`, ...), to which `MCCompat` and `MCServices` give
values.  The assumptions a module makes about its constants are its operator
`Assumption`, which the collection assumes of each part.

Definitions that begin with the comment "Slip:", or stand beside the one they are
named after (`SyncedKeeping`, `TimedAll`, ...), are faulty variants, each the result
of a plausible mistake in the code.  No specification uses them.  They show which
property notices the mistake (`mutants` in `PROJECT.json`).

### Decision and MatchMachine

Actions a Seat is offered are the classes that `default_action_id` tells apart:
"tsumogiri", "tedashi" (any other discard), "pass", "call", "win".  A deadline is
the number of ticks that are left; `Tick` is the clock and stops at zero, so that
"expired" is "no tick left".  `Unlimited` is a deadline of its own value, which
never runs down.

| Action | Code |
|---|---|
| `OpenDecision`, `NoSafeDefault` | `current_decision`, which asks the engine when no Decision is open |
| `SubmitAction` | `submit_action`, with the expiry check it begins with |
| `ResolveExpired` | `resolve_expired`, with Temporary Auto for Seats that are away |
| `Disconnect`, `Reconnect`, `SetPermanentAuto` | the methods of these names, with the retiming or replacement of the open Decision |
| `PublishKyokuStep`, `ReleaseKyoku` | presentation of a held Kyoku |
| `TakePersistenceEvents` | the Room collects events for the replay |
| `Tick` | the clock |

A resolved Decision goes to the engine in the same step (`Resolves`,
`EndsKyoku`, `Continues`, `EngineFails`).

`DecisionContract` is the abstract specification: a Decision, identified by its
id, collects one answer per Seat and is then either resolved with an answer for
everybody it asked or withdrawn.  `Contract` maps the machine's `decision` and
`resolved` to it; every step of the machine is a step of the contract or a
stutter.

Left out: `apply`, an entry point that only tests use; the branch of
`record_events` in which the Match completes without a held Kyoku, which the
engine adapter cannot reach because every Kyoku end is held; scores and tables.

### Room

| Action | Code |
|---|---|
| `Join`, `Select`, `Deselect`, `FillWithBots`, `Configure`, `SetReady`, `BackToLobby` | the `RoomState` methods of these names |
| `Disconnect`, `Reconnect` | the same, and the machine's view of the Seat |
| `LeaveOrKick`, `RevokeToken` (both `Goes`) | `leave`, `kick`, `revoke_token` |
| `Start`, `Rematch` | `start`, `rematch`: `build_match`, opening of the replay, then the commit |
| `SubmitAction`, `SubmissionFails` | `submit_action` and the handling of its result |
| `ConfirmResult`, `StepFallsDue` | `confirm_result` and the five seconds of a result step |
| `Tick` | `tick`: expiry of Participants, of the empty Room and of Decisions |
| `Advance` | one iteration of the loop in `advance_match` |
| `PersistenceFailure` | the worker's report of a lost replay |
| `Delete`, `Shutdown` | the end of the Room |

The actor handles one command at a time, so a command is one step, followed by
the iterations of `advance_match` (`task` counts those that are left) during
which no other command is handled.  `Settles` is the end of `process`: whoever
has gone is no longer waited for and the clock of the empty Room is refreshed.

Abstractions.  A clock is a flag that says it is running; a Tick chooses which of
the running clocks have run out.  The engine's play is `Played`: the machine
still decides, or holds results with some number of winners.  `next_step` of the
machine's hold is the index of the Room's result step, because the Room is the
only caller of `publish_kyoku_step`.  The branch of `advance_match` for a held
Kyoku without a result step is left out: `NoWaitForTheGone` proves that it is dead.
Revisions, the degraded flag, seat indices and characters are left out; history
and subscriptions are in `Views`, the replay in `ReplayEffects`, Benchmark Mode in
`Benchmark`.

### ReplayEffects

The actor sends effects (open, append, a marker before or after a line, flush,
finalize, delete, clean up) into a bounded queue; the worker takes them one by one and carries each out in the
steps the code does (`OpenPart` then `InsertRow`; `FinalizeFile`, then
`CompleteRow`; `MarkFailed`, `EraseFiles`, `EraseRow`).  The actor waits a second
for most answers (`GivesUp` may happen at any time) and for as long as it takes for
the finalization; the worker never learns that it has given up.  `Crash` leaves
disk and database as they are, `Boot` and `CleanRow` are the clean-up at the start,
and `doomed` is the deletion of a whole replay by the Admin.  A Match is the lines
1..`Total`, a file is the number of lines in it.

### RankedQueue and CompatMatch

`RankedQueue`: an action is what one task does under one hold of the lock.  The
three locks of `start_batch` are three actions (`Schedule`, `Register`, `Check` and
`Adopt`), between which timers, departures, revocations and the shutdown come in.
A connection's name stands for its ticket, a batch is named after its first member.
The refusal of a full queue is in the model but out of reach of the instance.
`CompatMatch` is the actor: `Ask` opens one request per Bot that is asked,
`Reply`, `LateReply`, `Timeout`, `Disconnect` settle it, `BadReply` (a frame whose
acknowledgement cannot be built) only stops the Bot, `Broadcast` moves the three
cursors over the log; the Match Machine is reduced to one Decision, its deadline and
a length of the log.

What the model shows besides its properties, without a run: `enqueue` does not ask
again whether the token is active; a second ticket of a drained token makes its
batch `server_busy`; validations can starve the ranked queue of slots
(`compat.rs:428`); a Bot that leaves before the first broadcast or at the release of
a Kyoku ends the Match.

### Sockets, sessions, tokens

`Connections` has one socket per generation.  A Human's operations go through a lock
of its own, which is made on demand and dropped from the map by the last user
(`Reclaim`); agents share one semaphore.  `McpSessions` has the two locks of the MCP
registry; `join_room` and the revocation hold one from their first look to their
last change (`Look` ... `Attach`, `McpHears`).  At a teardown the Room may be too
busy to take the disconnect.  A Human's socket and an MCP session send it once, an
agent's socket `ROOM_COMMAND_CAPACITY` times more, and then all of them go on as if
it had been taken (`disconnect_entry`, `join_room`, `teardown_room_connection`):
such a Participant is "stuck", connected for the Room without a socket or session,
until it reconnects or is removed.  `SessionsAreSound` allows it, and says that
nothing else leads there; a few steps are enough (a session is deleted while the
queue of the Room is full), although `spec/implementation-v1.md:915` says without
exception that "DELETE, revocation, replacement, or TTL expiry makes the Participant
disconnected". `McpHears` stands for a notice that is heard; a registry that has
lost one (its loop ends on `Lagged`) is a behaviour in which the step is never
taken.  `RoomAgent` is one Mjai socket: `Sync` reads the Room after a notification,
`Reply` classifies a reply by the tracker and the projection, `Submit` sends it to a
Room that may have moved on.  Decisions are numbered from 1 in every Match, so an
answer between the end of a Match and the next `Sync` may reach the Decision of the
same number in the next one. `TokenRevocation` has the Admin's transaction, cache
and broadcast, the worker with its retries, and the joins it races with; a request
that is dropped between the commit and the cache (`DropAdmin`) leaves the token
accepted until a restart. `McpWake` has a Room's revisions, the watcher of a
session, the listener, and `wait_for_turn` between its look and its sleep.

### AdminAudit, OAuthGrants, Benchmark

`AdminAudit`: a pending row, the operation, then the log entry or the withdrawal;
every statement may fail, the request may be dropped at any await, the daily flush
and the flush at the start take what is left.  An operation that is taken back but
whose withdrawal fails is flushed as if it had happened, which the code accepts.
`OAuthGrants`: pages, consent, code, pairs; a request reads the clock before it
reaches the database.  `Benchmark`: the actor's waits (`Await`), the worker, the rows
and the counted Matches; a Room that is deleted between two Matches, or a stop whose
effect times out in a full queue, leaves the Run 'running' until the next start.

### Views

The engine has every tile; the table, the history, the Mjai events and the frames of
a socket are derived from it by the four projection functions.  `known` is what each
audience may know: its own hand, what was discarded, called or shown.  The frames of
a Human and the history of the Room hide a closed kan that Mjai shows; the order of
discards after a call is not compared.

### Settlement and ReplayFrames

`Settlement`: a step of the adapter runs a batch twice, on the engine and on a copy
in single-Kyoku mode, and makes the record of a Kyoku from both; the reader sees
only `events` and joins `records` to them.  Where the code walks the events, the module
asks which places hold a kind of event (`At`) and which of them is the n-th (`Nth`), so
that the proofs need no induction over a log.  The engine is external; what it pays is a
parameter, but when a deposit is accepted, who takes the pot, and which payments an
emitted draw delta includes follow the captured fixtures of the repository
(`authoritative-draw-captures.json`).  A unit is 100 points; hands, yaku and fu are
left out.  `Changed`, `FromStart` and `WithEvidence` are the records the reader must
refuse.  It cannot tell a draw of the last Kyoku whose score and private evidence
were both changed.  In frames a deposit moves the pot when it is accepted and the
score when the Kyoku ends.

`ReplayFrames`: the engine's tiles have copies, a name in the log has not; `Written`
and `Read` are the two conversions, `Framed` what the reader makes of one more event.
The reader folds the whole file later; here it is run along with the table, event by
event, which gives the same frames.  Of a hand it keeps how often it has each tile.
`MeldValid` keeps a slip of the source: it compares the suit of the first tile with
itself, so a sequence across suits is accepted.  Dora markers and the hands a draw
reveals are left out.

## 3. Runs

Bounds are constants of the modules, each with a comment.

| Run | Instance | Shows |
|---|---|---|
| `casual` | two Humans and a bot, Casual time, one turn with a response, 3 ids, fairness | the Decision contract, defaults exactly for who is late, every Decision ends |
| `kyoku` | Human and agent, Unlimited time, two Kyoku, up to two winners, offers without a safe default, fairness | automation never blocks, an untimed Decision stays open only for a Human who is there, what is public, withheld and recorded |
| `room_match` | two Humans, agent, bot, tables for three and for one, no replay | Lobby, a Match and its results with everybody coming and going |
| `room_ends` | Human, agent, bot, replay on and off, fairness | a lost replay stays lost, results end, aborts end |
| `replay` | two Matches of three lines, queue of two, disk, database, delays and crashes, fairness | what is completed is whole, what is lost is told, no file is orphaned, finalization ends |
| `compat` | queue: three connections, two tokens, one slot; Match: two Bots and a built-in, two Kyoku of two Decisions, failures; fairness | slots, interruptions, replays, requests, and that every Bot and every Match comes to an end |
| `services` | eighteen instances of the other modules, see `MCServices` | one property per subject, named there |

Five runs expect a violation.  Each is a finding in `PROJECT.json`, with the line of
the repository that promises otherwise:

* `room_ghost`: a Player that leaves a Match which is then aborted stays in the
  Lobby for good, disconnected, because no clock was started.
* `replay_marker`: without any fault, an AutoStarted marker before a line that never
  comes makes the finalization refuse, and delete, a replay that is complete.
* `compat_leave`: a Bot that goes away while another Seat decides ends the Match for
  everybody.
* `wake_listen`: a listening agent is not told of its Decision when the watcher of
  its session records the revision first.
* `agent_late`: under Unlimited, a Mjai Bot that thinks for more than thirty seconds
  is told that its reply is stale and can no longer answer.

Why the bounds are enough.  A Decision is independent of those before it except
through controllers, presence and the id, so one turn with a response, and one id
more, show the histories of both kinds; results of one and of two winners differ (a
second step exists), more winners do not; two Kyoku give a first and a last.  The
Room depends on the number of Seats only through "all" and "some"; `LoopBound` = 2
lets the loop of `advance_match` continue once and also run out.  A replay of three
lines has a line before, at and after an end of a Kyoku; a second Match shows what a
late effect of the first does to it; a queue of two fills up behind the worker.  The
locks of `start_batch` are passed by one batch while another one forms.  Three
sockets give one to be replaced, one that replaces it and one more that comes in
between.  Two tokens and a channel of one overflow it.  Two Kyoku of three draws have
every kind of end, with riichi before, in and between the batches, honba and a pot
that is carried over and paid at the end of the Match.  Hands of four tiles allow
every call with and without the red five and a second call after the first.

## 4. Fairness

`MatchMachine`: weak fairness of `OpenDecision`, `ResolveExpired` and `Tick`.  The
Room computes its next wake-up from the machine's deadline and wakes at least
once a second (`next_wake`), then expires what is late and asks for the next
Decision; the clock runs by itself.  Players are not fair: they may never answer.

`Room`: weak fairness of `Advance` (the loop runs without waiting for anybody) and
of `StepFallsDue` (a clock).  A Tick is handled when the command queue is empty,
because the actor's `select!` is biased towards commands.  Strong fairness of
`Tick`, and of its finding the clocks of the Room or of a Participant run out,
states the assumption under which liveness is checked: the queue runs empty again
and again, and a clock that is never stopped runs out.  An actor that is flooded
with commands for ever does not satisfy it (listed as a hazard).

`ReplayEffects`: weak fairness of the worker's steps and of the actor's taking the
answer to a finalization.  Both are tasks that are never blocked by a client.

`Compat`: every behaviour of the queue and of a Match is finite but for
stuttering, since connections, interruptions, Kyoku and Decisions are bounded; so
weak fairness of all the tasks together (`System`) gives each of them its turn.
`System` leaves out what Bots, the Admin and the operator do.

The other modules have safety properties only.

## 5. Proofs

TLAPS checks, for every number of Seats, Participants, Matches or lines and every
value of the bounds:

`MatchMachineProofs`

* `TypeCorrect`.
* `Invariance` of the inductive invariant `IInv`, which adds to the type what the
  single properties need from each other: an open Decision has been asked of
  somebody, all its answers are from Seats it asked, not all of them have
  answered, and no Seat that is played automatically is asked without a deadline.
  `DecisionWaits`, `AutomationNeverBlocks`, `TemporaryAutoAway` and, as an action
  property, `PermanentAutoStays` follow from it.  The open Decision has to be in
  it because `SubmitAction` and `ResolveExpired` are the only steps that may
  complete it, and they close it in the same step.
* `ReplayFollowsPublicLog`: what the replay was given, what waits to be given to
  it and what is withheld make up the public log and the rest of the Kyoku, in
  order.  Needs the associativity of concatenation and that a release appends the
  withheld events to both logs.
* `ImplementsContract`: the machine implements `DecisionContract`.
* `NothingLeaks`: no end of a Kyoku and nothing of the next one is public before the
  settlement.  Its invariant `LogInv` says where the log is open: at the engine's Kyoku,
  or, while one is held, at that one, when the engine may already be one ahead and what
  it dealt waits in `held.future`.
* `DefaultsExactlyTheLate` states `DefaultExactlyWhenLate`: a Seat that responds in a step
  is marked as timed out exactly when its deadline has passed, and then gets its safe
  default.  After a step that resolves the Decision the responses are those of
  `resolved`, with the mark of each, so both directions are stated there too.  Needs
  `ResolvedBefore` beside `IInv`: the last Decision handed over is older than the open
  one, so that a response found after a step, in the open Decision or in the one
  handed over, is one to the Decision that was open before it.

`RoomProofs`

* `RoomInvariant`: the inductive invariant `RInv`, in four parts beside the types.
  `MatchInv`: there is a machine exactly while a Match is played, its roster has
  one entry for each Seat, and a Player is on it.  `MemberInv`: nothing is left of
  an absent Participant; one that has left (`leaving`) is a Player on Permanent
  Auto, in the Room's copy and in the machine's.  `ControlInv`: the three copies of
  a controller agree about a Player who is there.  `StepInv`: a result step is up
  exactly while results are held and waits only for Humans who are there.
  The parts need each other: the reconnection of a Player gives its controller
  back only because `ControlInv` says that the Room's copy already shows every
  Permanent Auto of the machine, and a command that removes a Participant keeps
  the roster only because `MatchInv` says who is on it.
* The safety properties `TypeCorrect`, `RosterIsSound`, `PresentPlayersControl`,
  `NoWaitForTheGone` and `NobodyAwayIsReady` follow from it; `OnlyDesertedExpire`
  needs it too, because during a Match the clock of the empty Room is off.
* The action properties `ResultsSeen`, `LeaversStay` and `LostStaysLost`, each by
  a walk through all the commands and the iterations of `advance_match`.

The proofs have one lemma per command.  Commands outside of a Match go through
`IdleState`, commands during a Match through `Table`, which says what Participants
and machine must agree on, and the synchronization of the controllers.  They
assume what the `ASSUME`s of `Room` say: kinds, table sizes of at least one Seat,
limits in Nat and a loop bound of at least one.

`ReplayEffectsProofs`

* `EffectsInvariant`: `ReplayInv`, which adds two parts to the types and to the two
  properties below.  `WorkInv` is about disk, database and the worker's job: a writer
  that writes has an unfinished row, and none writes a Match that is being completed
  or erased; a deletion that is about to drop a row has dropped the files; the start
  cleans up only what it found unfinished; only a file of a completed Match is
  doomed.  `RoomInv` says that the actor has a Match to name wherever it names one.
  `WorkInv` is needed because completion and deletion each take several steps, and
  what the first of them saw must still hold at the last.
* `CompletedReplayIsWhole` and `NoFileWithoutRow`, for every set of faults.
* `OrderInvariant`: `QueueInv`, which adds what the actor may conclude from an answer
  it has or gave up waiting for.  `OrderInv`: what is queued belongs to a Match that
  was opened before and is not yet finalized.  `KeptInv`: a Match whose lines are
  still under way, or have failed, is not completed, and the actor knows of a
  completed one as soon as it has the answer.  `AnswerInv`: there is no answer but to
  what the actor waits for.  A late answer of the worker, an opening that timed out
  and was carried out all the same, is harmless only because of the order: its
  deletion is queued behind it.
* `AvailableReplayIsKept` follows from it.
* `NothingIsLeftInSilence` needs `ToldInv` beside it: as long as neither the health
  nor the Room says anything, every part file and every unfinished row belongs to a
  writer that writes or to the effect under way (`RemainsInv`), and such a writer to
  somebody who will finish or delete its Match (`OwnedInv`): the actor that plays it,
  or the last effect in the queue.

`CompatProofs`

* `SlotsHold`, `InterruptionsGetThrough`, from `QueueInv` of `RankedQueue`.  `WaitingInv`:
  whoever has not joined the queue or is in it has no answer and is in no batch.
  `BatchInv`: a batch holds its entry in the table of active Matches from the first
  lock of its start to the end of its Match, unless the shutdown emptied the table.
  The second is what makes the three locks safe: whatever happened between two of
  them has left its mark on the entry, and the next lock looks for it.
* `BotsAreAskedOnce`, `ReplaysAreSafe`, from `MatchInv` of `CompatMatch`.  `AskInv`: a
  Decision that is open and not yet expired waits only for Bots that have a request
  or are played automatically.  `ReplayInv`: the open replay holds the log up to the
  cursor and one record per Kyoku.  `DiskInv`: the actor owns the row it opened and
  the file it writes until it ends.

`McpProofs`

* `NobodySleepsThrough`: `WakeInv` of `McpWake` follows the news: the agent's Decision is
  the last news on the way to the task, is being recorded, or is recorded at a later
  revision than the agent has seen; and a sleeper that was not notified has nothing
  to see, because registration and look are in that order.
* `OneAgentOneSession`, `RevokedSessionsEnd`: `SessionInv` of `McpSessions`.  A Participant
  that stays connected without a session is one whose disconnect a busy Room refused;
  no way out of a join, no expiry and no revocation forgets to send it.  `JoinInv`: the
  one join that is under way works for an identity that is not revoked, on what its
  last Participant was, and makes another only when that one is out.  `PairInv`,
  `EntryInv`, `BannedInv`: the tables of Participants and sessions fit together, and a
  revocation is announced before anybody may miss it.
* `ViewsShowNoMore`, `ViewsFit`: `ViewsInv` of `Views`, for every number of Seats, Kyoku and
  draws and every capacity of the socket.  `KnownInv`: each audience knows what the log,
  the history, the results and the table show it, and what the engine would show it
  beyond that is taught by the events that wait in `held.future`.  `HandInv`: a hand is
  what the events of the history put into it without what they took out, no tile is in
  two hands, and a tile still to come is in none and was never taken out; so a tile that
  is drawn is not taken for one that is gone.  `FiledInv`: sequence numbers, settlements
  and scores of table, `held` and history side by side; while results are shown the
  engine has dealt the next Kyoku (`NextDealt`) or the Match is over (`MatchOver`), and
  nothing else.

`SocketProofs`

* `OneSocketAtATime`, `ExpelledSocketsClose`: `ConnectionInv` of `Connections`.  `LockInv`:
  the tasks that work for a Participant have the same lock and its owner is the one
  at work; a lock leaves the map only when nobody has it.  `SocketInv`: a socket that
  has registered is the current one or was told to close.  `ExpelInv`: nobody opens a
  socket for whoever is expelled.
* `RevokedTokensAreOut`: `RevocationInv` of `TokenRevocation`.  What the worker owes a token
  is in the channel, in its list, or is what it works on; in a Room that was told,
  the revocation is queued behind every join of the token (`Swept`), because a join
  whose command is under way holds the semaphore of the delivery.
* `BotsAreHeard`: `AgentInv` of `RoomAgent`.  The pending request is about the last Decision
  the socket has seen, and without a request that Decision is past (`TrackerInv`); an
  accepted reply went to a Decision that is past (`TakenInv`).  "Past" is what the Room
  can never open again for this Player, and every step of the Room keeps it so
  (`RoomMoves`).
* `FramesFollowTheTable` states `FramesShowTheTable` of `ReplayFrames`, for every set of
  deals.  Its invariant says more: all that the reader has is a function of the table
  (`FrameOf`), with each tile as it comes back from the file.  That needs `TableOk`: the
  tiles of hands, melds, wall and the open discard are apart and all different.  What
  the engine takes by copy the reader then finds by name, as often as it is asked for;
  and since there are four tiles of a kind, a Seat has at most one triplet that a kakan
  can add to, so that the first one the reader finds is the engine's.

`RecordProofs`

* `AuditIsKept`: `AuditInv` says for each stage of a request whether the operation may have
  been done and whether a row or an entry speaks of it.
* `GrantsHold`: `GrantInv` of `OAuthGrants`.  A consent is pending, about to be issued or a
  code, one of them, once; a family comes from a used code, a pair from a code or a
  used pair, and no two from the same one.
* `RunsAreTruthful`: `BenchmarkInv` of `Benchmark`.  What waits for the worker fits what the
  actor awaits (`EffectInv`), and Room and database count the same Matches save in the
  moment of the answer (`CountInv`).
* `RecordsAreSettled` states the three parts of `ResultsFitTheEvents` of `Settlement`, for
  three and four Seats, every number of Kyoku and draws, every score to start with and
  every payment for tenpai.  `ResultsInv` is about ranges of events.  `StartsInv`: the
  Kyoku begin in order, each after the end of the last, and nothing else begins one.
  `KyokuInv`: scores and pot of the engine are those at the start of its Kyoku without the
  deposits accepted since, which is what the reader counts; and a deposit the Match goes
  on with is followed by a draw, so none stands directly before the end but that of the
  last batch.  `Filed`: for each record there is an event after which the terminal batch
  came, its money is `potBefore` and `before`, its wins or its draw are the terminal events,
  and what it leaves is what the next Kyoku starts with, or what the engine has in the end.
  All the money of the table is the same in each of them.
* A batch is followed through its commands by relations between the engine before and
  after (`Opened`, `Drawn`, `WonBy`): what it logs, and whom it pays.  The copy differs
  from the real step only in the deal and in who takes the pot at the end (`Ends`,
  `LastIs`), so their terminal events agree.
* That a changed record is refused is proved one fact at a time: the reader finds for the
  money before the batch no other event that fits, for the money after it no other sum,
  and for a win no other event.  A settlement told from the start of the Kyoku is accepted
  only if it is the same record, because a deposit in between makes the pots differ.

`ServicesProofs` states the properties that the run `services` checks, of every part they
speak of: `AuditIsKept`, `GrantsHold`, `AgentsWake`, `SessionsHold`, `ExpelledStayOut`,
`RunsHold`, `BotsAreHeard`, `ViewsShowWhatTheyMay`, `ViewsStayInAgreement`,
`FramesFollowTheTable`, `ResultsAreReported`.  Each of its lemmas shows that a behaviour whose `part` is
the component's satisfies the component's specification, and takes the theorem from
there.

The theorems assume what the `ASSUME`s say, which TLC evaluates on each instance:
capacities and limits are natural numbers, at least one where the code has a
constant; tables have three or four Seats where a result is filed; names of processes are not names of clients; a token, an identity or a kind
belongs to each connection; the tiles of a deal are all different and North is not a
five.

Four properties are proved and no longer checked by a run: `TemporaryAutoMeansAway`,
`PermanentAutoIsPermanent`, `ResultsWaitForPresentHumans`, `ReadyMeansPresent`.

Model-checked only: all liveness, because the prover has no `ENABLED`.

## 6. Plan

Done: all the modules of section 2, and a proof of every safety property of a passing
run.  Next: a mapping of `MatchMachine` to the machine that `CompatMatch` and `Views`
assume.

## 7. Not modelled

The rules of mahjong are those of the `riichienv` library, and formats, HTML, hashing
and the network are not about the order of events; the reason for every part is in
the `components` of `PROJECT.json`.  Parts with state that are left out:

* The Room Registry.  Its hazard is real but needs chance: between the deletion of a
  Room and the insertion of its code into the cool-down another creation may free
  and draw the same six digits, and the removal then drops the successor from the
  map.  A property that holds would have to assume that away.  Two observations:
  Rooms that expire by themselves are purged without a cool-down, and Rooms created
  while a shutdown works on its list are cleared from the map, with their effect
  workers awaited.  The delivery of a revocation over its list of Rooms is in
  `TokenRevocation`.
* Limits on requests, transports, waiters and bytes, which refuse and keep nothing.
* Migrations, configuration, characters: read once at the start.

Run a configuration with `tlc -config Room_match.cfg MCRoom.tla` and the proofs
with `tlapm MatchMachineProofs.tla`, and so on for every module whose name ends in
`Proofs`.
