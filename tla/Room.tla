-------------------------------- MODULE Room --------------------------------
(***************************************************************************)
(* One Room and its actor (crates/double_riichi_core/src/room.rs): who is   *)
(* in it, who is selected and Ready, the Match it plays, the result steps   *)
(* it presents, and when it forgets a Participant or itself.                *)
(*                                                                          *)
(* The actor handles one command at a time.  A command that reaches         *)
(* advance_match leaves `task = LoopBound`; the iterations of that loop are *)
(* steps of their own, and no command is handled between them.  Clocks are  *)
(* kept as "running" flags: whichever have run out when a Tick looks is a   *)
(* choice of the Tick.                                                      *)
(*                                                                          *)
(* The Match Machine is abstracted to what the Room reads of it: `machine`. *)
(* MatchMachine is its detailed model.                                      *)
(***************************************************************************)
EXTENDS Integers, FiniteSets

CONSTANTS
  P,           \* Participant identities
  Kind,        \* [P -> {"Human", "MJAI", "MCP", "BuiltInBot"}]
  Token,       \* [P -> Bot Token], "-" for a Participant without one
  Mode,        \* game modes
  ThreePlayer, \* the three-player modes
  SeatCount,   \* [Mode -> seats], scaled down in small instances
  Limits,      \* participant limits the Admin may set
  Saves,       \* replay-save settings the Admin may choose
  LoopBound,   \* iterations advance_match makes at most (10,000)
  MaxWins      \* bound: winners of one Kyoku

ASSUME KindAssumption == Kind \in [P -> {"Human", "MJAI", "MCP", "BuiltInBot"}]
ASSUME ModeAssumption ==
  /\ ThreePlayer \subseteq Mode
  /\ SeatCount \in [Mode -> Nat \ {0}]
ASSUME LimitAssumption == Limits \subseteq Nat /\ Saves \subseteq BOOLEAN /\ MaxWins \in Nat
ASSUME BoundAssumption == LoopBound \in Nat \ {0}
ASSUME FinitelyMany == IsFiniteSet(P)

VARIABLES
  life,      \* "open", "deleted", or "closed" by a server shutdown
  phase,     \* "Lobby", "Playing" or "PostMatch"
  config,    \* game mode, participant limit, replay-save
  member,    \* the Participants
  roster,    \* match_roster: controller of each Player, "none" for others
  machine,   \* the Match Machine as the Room sees it
  step,      \* result_step
  available, \* replay_available
  empty,     \* empty_since is set
  task       \* iterations advance_match has left, 0 outside of it

vars == <<life, phase, config, member, roster, machine, step, available, empty, task>>

Controller == {"Interactive", "TemporaryAuto", "PermanentAuto"}

Member ==
  [here : {"Absent", "Connected", "Disconnected"}, selected : BOOLEAN, ready : BOOLEAN,
   role : {"None", "Spectator", "Player"}, controller : Controller,
   clock : BOOLEAN,      \* disconnected_at is set
   leaving : BOOLEAN]    \* remove_after_match

Newcomer(role) ==
  [here |-> "Connected", selected |-> FALSE, ready |-> FALSE, role |-> role,
   controller |-> "Interactive", clock |-> FALSE, leaving |-> FALSE]

\* A Built-in Bot that fill_with_bots creates.
NewBot ==
  [here |-> "Connected", selected |-> TRUE, ready |-> TRUE, role |-> "None",
   controller |-> "PermanentAuto", clock |-> FALSE, leaving |-> FALSE]

Absent ==
  [here |-> "Absent", selected |-> FALSE, ready |-> FALSE, role |-> "None",
   controller |-> "Interactive", clock |-> FALSE, leaving |-> FALSE]

Machine ==
  [st : {"none", "decide", "held", "complete", "aborted"}, wins : Nat, final : BOOLEAN,
   ctl : [P -> Controller], here : [P -> {"Connected", "Disconnected"}]]

NoMachine ==
  [st |-> "none", wins |-> 0, final |-> FALSE, ctl |-> [p \in P |-> "Interactive"],
   here |-> [p \in P |-> "Connected"]]

Step ==
  [active : BOOLEAN, index : Nat, required : SUBSET P, confirmed : SUBSET P, due : BOOLEAN]

NoStep ==
  [active |-> FALSE, index |-> 0, required |-> {}, confirmed |-> {}, due |-> FALSE]

EmptyRoster == [p \in P |-> "none"]

-----------------------------------------------------------------------------
(* Questions about a Room *)

In(mem) == {p \in P : mem[p].here # "Absent"}

Selected == {p \in P : member[p].selected}

Players == {p \in P : roster[p] # "none"}

Seats == SeatCount[config.mode]

\* refresh_empty_since sets the clock of an empty Room exactly then.
Deserted(mem, ph) ==
  /\ ph # "Playing"
  /\ \A p \in P : mem[p].here = "Connected" => Kind[p] = "BuiltInBot"

\* Whose confirmation a result step waits for.
Attends(mem, p) ==
  /\ Kind[p] = "Human"
  /\ mem[p].here = "Connected"
  /\ mem[p].controller = "Interactive"
  /\ mem[p].role = "Player"

\* clear_selected_human_ready
Unready(mem) ==
  [p \in P |-> IF mem[p].selected /\ Kind[p] = "Human" THEN [mem[p] EXCEPT !.ready = FALSE]
                                                       ELSE mem[p]]

Deselected(m) == [m EXCEPT !.selected = FALSE, !.ready = FALSE, !.role = "None"]

\* What abort_match and back_to_lobby do to every Participant.
ToLobby(mem) ==
  [p \in P |-> IF mem[p].here = "Absent" THEN Absent
               ELSE [Deselected(mem[p]) EXCEPT !.controller = "Interactive", !.leaving = FALSE]]

Without(mem, gone) == [p \in P |-> IF p \in gone THEN Absent ELSE mem[p]]

\* Slip: every Participant is given the controller of its roster entry.
SyncedEverybody(mem, m) ==
  [p \in P |-> IF p \in In(mem)
               THEN [mem[p] EXCEPT !.controller = IF p \in Players THEN m.ctl[p] ELSE roster[p]]
               ELSE mem[p]]

\* sync_machine_controllers, for members and for the roster.
SyncedMembers(mem, m) ==
  [p \in P |-> IF p \in Players \cap In(mem) THEN [mem[p] EXCEPT !.controller = m.ctl[p]]
                                             ELSE mem[p]]

SyncedRoster(mem, m) ==
  [p \in P |-> IF p \in Players \cap In(mem) THEN m.ctl[p] ELSE roster[p]]

Listening == life = "open" /\ task = 0

\* An effect sent for the replay of a saved Match may fail, at the latest when
\* its acknowledgement times out.
Recorded ==
  available' \in IF config.save /\ available /\ phase = "Playing" THEN BOOLEAN ELSE {available}

\* What process does once a Room command has been applied: nobody who has
\* gone is waited for, and an empty Room may have been empty for too long.
Settles ==
  /\ empty' = Deserted(member', phase')
  /\ life' \in IF empty /\ empty' THEN {life, "deleted"} ELSE {life}
  /\ IF step.active
     THEN /\ step' = [step EXCEPT !.required = {p \in step.required : Attends(member', p)}]
          /\ task' = LoopBound
     ELSE UNCHANGED <<step, task>>

-----------------------------------------------------------------------------
Init ==
  /\ life = "open"
  /\ phase = "Lobby"
  /\ config \in {c \in [mode : Mode, limit : Limits, save : Saves] : SeatCount[c.mode] <= c.limit}
  /\ member = [p \in P |-> Absent]
  /\ roster = EmptyRoster
  /\ machine = NoMachine
  /\ step = NoStep
  /\ available = config.save
  /\ empty = TRUE
  /\ task = 0

-----------------------------------------------------------------------------
(* Membership and the Lobby *)

\* An identity is new: neither a Participant nor named by the last roster.
Join(p) ==
  /\ Listening
  /\ Kind[p] # "BuiltInBot"
  /\ member[p] = Absent /\ roster[p] = "none"
  /\ ~(config.mode \in ThreePlayer /\ Kind[p] = "MJAI")
  /\ Cardinality(In(member)) < config.limit
  /\ member' = [member EXCEPT ![p] = Newcomer(IF phase = "Lobby" THEN "None" ELSE "Spectator")]
  /\ UNCHANGED <<phase, config, roster, machine, available>>
  /\ Settles

Select(p) ==
  /\ Listening
  /\ phase = "Lobby"
  /\ p \in In(member)
  /\ member[p].here = "Connected" \/ Kind[p] = "BuiltInBot"
  /\ ~member[p].selected
  /\ ~(config.mode \in ThreePlayer /\ Kind[p] = "MJAI")
  /\ Cardinality(Selected) < Seats
  /\ member' = Unready([member EXCEPT ![p].selected = TRUE])
  /\ UNCHANGED <<phase, config, roster, machine, available>>
  /\ Settles

Deselect(p) ==
  /\ Listening
  /\ phase = "Lobby"
  /\ p \in Selected
  /\ member' = Unready([member EXCEPT ![p] = Deselected(member[p])])
  /\ UNCHANGED <<phase, config, roster, machine, available>>
  /\ Settles

\* Bots that wait in the Room are taken first, the rest is created.
FillWithBots(taken, created) ==
  LET needed == Seats - Cardinality(Selected)
      waiting == {p \in In(member) \ Selected : Kind[p] = "BuiltInBot"}
  IN  /\ Listening
      /\ phase = "Lobby"
      /\ needed > 0
      /\ taken \subseteq waiting
      /\ \A p \in created : Kind[p] = "BuiltInBot" /\ member[p] = Absent
      /\ Cardinality(taken) + Cardinality(created) = needed
      /\ created # {} => taken = waiting
      /\ Cardinality(In(member)) + Cardinality(created) <= config.limit
      /\ member' = Unready([p \in P |->
                              IF p \in created THEN NewBot
                              ELSE IF p \in taken THEN [member[p] EXCEPT !.selected = TRUE]
                              ELSE member[p]])
      /\ UNCHANGED <<phase, config, roster, machine, available>>
      /\ Settles

\* Slip: replay-save can be set in any phase.
ConfigureAnyTime(mode, limit, save, resave) ==
  /\ Listening
  /\ mode = config.mode /\ limit = config.limit
  /\ resave \/ save = config.save
  /\ config' = [mode |-> mode, limit |-> limit, save |-> save]
  /\ available' = IF resave THEN save ELSE available
  /\ UNCHANGED <<phase, member, roster, machine>>
  /\ Settles

\* Setting replay-save makes the replay available again, even to what it was.
Configure(mode, limit, save, resave) ==
  /\ Listening
  /\ phase = "Lobby"
  /\ ~(mode \in ThreePlayer /\ \E p \in In(member) : Kind[p] = "MJAI")
  /\ SeatCount[mode] <= limit
  /\ Cardinality(In(member)) <= limit
  /\ resave \/ save = config.save
  /\ config' = [mode |-> mode, limit |-> limit, save |-> save]
  /\ available' = IF resave THEN save ELSE available
  /\ member' = IF mode = config.mode THEN member
               ELSE [p \in P |-> Deselected(member[p])]
  /\ UNCHANGED <<phase, roster, machine>>
  /\ Settles

SetReady(p) ==
  /\ Listening
  /\ phase \in {"Lobby", "PostMatch"}
  /\ Kind[p] = "Human"
  /\ member[p].selected
  /\ member[p].here = "Connected"
  /\ member' = [member EXCEPT ![p].ready = TRUE]
  /\ UNCHANGED <<phase, config, roster, machine, available>>
  /\ Settles

-----------------------------------------------------------------------------
(* Coming and going *)

\* A connection of p has ended; the handler of a Built-in Bot has none.
Disconnect(p) ==
  LET m == IF machine.st # "none" /\ member[p].role = "Player"
           THEN [machine EXCEPT !.here[p] = "Disconnected"] ELSE machine
      mem == [member EXCEPT ![p].here = "Disconnected", ![p].clock = TRUE, ![p].ready = FALSE]
  IN  /\ Listening
      /\ p \in In(member)
      /\ Kind[p] # "BuiltInBot"
      /\ machine' = m
      /\ IF m.st = "none" THEN member' = mem /\ UNCHANGED roster
         ELSE member' = SyncedMembers(mem, m) /\ roster' = SyncedRoster(mem, m)
      /\ Recorded
      /\ UNCHANGED <<phase, config>>
      /\ Settles

\* Slips: the machine is not told; Permanent Auto is given back.
ReconnectRoomOnly(p) ==
  /\ Listening
  /\ p \in In(member)
  /\ Kind[p] # "BuiltInBot"
  /\ member[p].controller # "PermanentAuto"
  /\ member' = [member EXCEPT ![p].here = "Connected", ![p].clock = FALSE,
                  ![p].controller = "Interactive",
                  ![p].ready = IF phase = "Lobby" THEN FALSE ELSE @]
  /\ roster' = IF p \in Players THEN [roster EXCEPT ![p] = "Interactive"] ELSE roster
  /\ UNCHANGED <<phase, config, machine, available>>
  /\ Settles

ReconnectAnyone(p) ==
  /\ Listening
  /\ p \in In(member)
  /\ Kind[p] # "BuiltInBot"
  /\ member' = [member EXCEPT ![p].here = "Connected", ![p].clock = FALSE,
                  ![p].controller = "Interactive"]
  /\ UNCHANGED <<phase, config, roster, machine, available>>
  /\ Settles

Reconnect(p) ==
  /\ Listening
  /\ p \in In(member)
  /\ Kind[p] # "BuiltInBot"
  /\ member[p].controller # "PermanentAuto"
  /\ member' = [member EXCEPT ![p].here = "Connected", ![p].clock = FALSE,
                  ![p].controller = "Interactive",
                  ![p].ready = IF phase = "Lobby" THEN FALSE ELSE @]
  /\ roster' = IF p \in Players THEN [roster EXCEPT ![p] = "Interactive"] ELSE roster
  /\ machine' =
       IF machine.st # "none" /\ member[p].role = "Player"
       THEN [machine EXCEPT !.here[p] = "Connected",
               !.ctl[p] = IF @ = "TemporaryAuto" THEN "Interactive" ELSE @]
       ELSE machine
  /\ Recorded
  /\ UNCHANGED <<phase, config>>
  /\ Settles

\* Slip: a Player is removed at once.
GoesAtOnce(gone) ==
  /\ Listening
  /\ gone \subseteq In(member)
  /\ member' = Without(member, gone)
  /\ Recorded
  /\ UNCHANGED <<phase, config, roster, machine>>
  /\ Settles

\* leave, kick and revoke_token: an active Player is played on until the Match
\* ends, anybody else is removed at once.
Goes(gone) ==
  LET retained == IF phase = "Playing" THEN {p \in gone : member[p].role = "Player"} ELSE {}
  IN  /\ Listening
      /\ gone \subseteq In(member)
      /\ member' = [p \in P |->
                      IF p \in retained
                      THEN [member[p] EXCEPT !.leaving = TRUE, !.here = "Disconnected",
                              !.controller = "PermanentAuto"]
                      ELSE IF p \in gone THEN Absent ELSE member[p]]
      /\ machine' = IF machine.st = "none" THEN machine
                    ELSE [machine EXCEPT !.ctl = [p \in P |-> IF p \in retained
                                                    THEN "PermanentAuto" ELSE @[p]]]
      /\ roster' = [p \in P |-> IF p \in retained \cap Players THEN "PermanentAuto"
                                                               ELSE roster[p]]
      /\ Recorded
      /\ UNCHANGED <<phase, config>>
      /\ Settles

LeaveOrKick(p) == Goes({p})

RevokeToken(t) ==
  /\ t # "-"
  /\ \E p \in In(member) : Token[p] = t
  /\ Goes({p \in In(member) : Token[p] = t})

BackToLobby ==
  /\ Listening
  /\ phase = "PostMatch"
  /\ phase' = "Lobby"
  /\ member' = ToLobby(member)
  /\ roster' = EmptyRoster
  /\ machine' = NoMachine
  /\ UNCHANGED <<config, available>>
  /\ Settles

Delete ==
  /\ Listening
  /\ phase # "Playing"
  /\ life' = "deleted"
  /\ empty' = Deserted(member, phase)
  /\ UNCHANGED <<phase, config, member, roster, machine, step, available, task>>

\* A Match in progress is cleaned up, not finished.
Shutdown ==
  /\ Listening
  /\ life' = "closed"
  /\ available' \in IF phase = "Playing" /\ config.save THEN {available, FALSE} ELSE {available}
  /\ UNCHANGED <<phase, config, member, roster, machine, step, empty, task>>

-----------------------------------------------------------------------------
(* Starting a Match *)

\* build_match: every Seat has a Participant who is there and, if Human, Ready.
CanBuild(chosen) ==
  /\ Cardinality(chosen) = Seats
  /\ \A p \in chosen : /\ member[p].here = "Connected"
                       /\ Kind[p] = "Human" => member[p].ready

\* can_rematch
CanRematch ==
  /\ phase = "PostMatch"
  /\ Cardinality(Players) = Seats
  /\ \A p \in Players :
       /\ member[p].here = "Connected"
       /\ ~member[p].leaving
       /\ member[p].controller = "PermanentAuto" => Kind[p] = "BuiltInBot"
       /\ Kind[p] = "Human" => member[p].ready

InitialController(p) == IF Kind[p] = "BuiltInBot" THEN "PermanentAuto" ELSE "Interactive"

\* Slip: the clock of an empty Room keeps running.
CommitStaysEmpty(chosen) ==
  /\ phase' = "Playing"
  /\ machine' = [NoMachine EXCEPT !.st = "decide"]
  /\ step' = NoStep
  /\ roster' = [p \in P |-> IF p \in chosen THEN InitialController(p) ELSE "none"]
  /\ member' = [p \in P |->
                  IF p \in chosen
                  THEN [member[p] EXCEPT !.selected = TRUE, !.ready = FALSE, !.role = "Player",
                          !.controller = InitialController(p), !.leaving = FALSE]
                  ELSE member[p]]
  /\ task' = LoopBound
  /\ UNCHANGED <<life, config, available, empty>>

\* commit_match
Commit(chosen) ==
  /\ phase' = "Playing"
  /\ machine' = [NoMachine EXCEPT !.st = "decide",
                   !.ctl = [p \in P |-> IF p \in chosen THEN InitialController(p)
                                                       ELSE "Interactive"]]
  /\ step' = NoStep
  /\ roster' = [p \in P |-> IF p \in chosen THEN InitialController(p) ELSE "none"]
  /\ member' = [p \in P |->
                  IF p \in chosen
                  THEN [member[p] EXCEPT !.selected = TRUE, !.ready = FALSE, !.role = "Player",
                          !.controller = InitialController(p), !.leaving = FALSE]
                  ELSE member[p]]
  /\ empty' = FALSE
  /\ task' = LoopBound
  /\ UNCHANGED <<life, config, available>>

\* The replay of the new Match cannot be opened, or not within a second.
OpenFails ==
  /\ config.save
  /\ available' = FALSE
  /\ UNCHANGED <<life, phase, config, member, roster, machine, step, empty, task>>

Start ==
  /\ Listening
  /\ phase = "Lobby"
  /\ config.save => available
  /\ CanBuild(Selected)
  /\ Commit(Selected) \/ OpenFails

Rematch ==
  /\ Listening
  /\ CanRematch
  /\ CanBuild(Players)
  /\ config.save => available
  /\ Commit(Players) \/ OpenFails

-----------------------------------------------------------------------------
(* Playing *)

\* start_result_step and the machine's publish_kyoku_step, which expects the
\* same index: neither is kept twice here.
NewStep(index) ==
  [active |-> TRUE, index |-> index, required |-> {p \in Players : Attends(member, p)},
   confirmed |-> {}, due |-> FALSE]

\* The machine holds the results of a Kyoku.
Held(m, wins, final) == [m EXCEPT !.st = "held", !.wins = wins, !.final = final]

\* The engine plays on, or the Kyoku ends and its results are held.
Played(m) == {m} \cup {Held(m, wins, final) : wins \in 0..MaxWins, final \in BOOLEAN}

\* An expiry pass puts Seats whose owner is away on Temporary Auto.
Expired(m) ==
  {[m EXCEPT !.ctl = [p \in P |-> IF p \in late THEN "TemporaryAuto" ELSE @[p]]] :
     late \in SUBSET {p \in Players : m.here[p] = "Disconnected" /\ m.ctl[p] = "Interactive"}}

\* handle_decision_result: present the results at once, hand the events over.
HandleResult(m) ==
  /\ machine' = m
  /\ step' = IF m.st = "held" THEN NewStep(0) ELSE step
  /\ Recorded

\* abort_match
Abort(mem) ==
  /\ phase' = "Lobby"
  /\ machine' = NoMachine
  /\ step' = NoStep
  /\ roster' = EmptyRoster
  /\ member' = ToLobby(mem)
  /\ available' \in IF config.save THEN {available, FALSE} ELSE {available}
  /\ task' = 0
  /\ UNCHANGED <<life, config>>

SubmitAction(p) ==
  /\ Listening
  /\ member[p].role = "Player"
  /\ member[p].here = "Connected"
  /\ member[p].controller = "Interactive"
  /\ machine.st = "decide"
  /\ \E m \in Played(machine) :
       /\ HandleResult(m)
       /\ member' = SyncedMembers(member, m)
       /\ roster' = SyncedRoster(member, m)
  /\ task' = LoopBound
  /\ UNCHANGED <<life, phase, config, empty>>

\* The engine refuses the action; the Room learns of it at its next Tick.
SubmissionFails(p) ==
  /\ Listening
  /\ member[p].role = "Player"
  /\ member[p].here = "Connected"
  /\ member[p].controller = "Interactive"
  /\ machine.st = "decide"
  /\ machine' = [machine EXCEPT !.st = "aborted"]
  /\ UNCHANGED <<life, phase, config, member, roster, step, available, empty, task>>

\* A confirmation that comes after the deadline only advances the results.
ConfirmResult(p) ==
  /\ Listening
  /\ step.active
  /\ \/ step.due /\ UNCHANGED step
     \/ /\ ~step.due
        /\ p \in step.required \ step.confirmed
        /\ Attends(member, p)
        /\ step' = [step EXCEPT !.confirmed = @ \cup {p}]
  /\ task' = LoopBound
  /\ UNCHANGED <<life, phase, config, member, roster, machine, available, empty>>

\* The five seconds of a result step run out.
StepFallsDue ==
  /\ life = "open"
  /\ step.active /\ ~step.due
  /\ step' = [step EXCEPT !.due = TRUE]
  /\ UNCHANGED <<life, phase, config, member, roster, machine, available, empty, task>>

\* The replay worker reports that it lost this Match's replay.
PersistenceFailure ==
  /\ Listening
  /\ phase # "Lobby"
  /\ config.save
  /\ available' = FALSE
  /\ UNCHANGED <<life, phase, config, member, roster, machine, step, empty, task>>

\* disconnected_cleanup
Forgotten(late) ==
  {p \in late :
     /\ member[p].clock
     /\ member[p].here = "Disconnected"
     /\ member[p].selected => phase = "Lobby"
     /\ member[p].role # "Player"
     /\ Kind[p] # "BuiltInBot"}

TickWithoutMatch ==
  /\ machine.st = "none"
  /\ empty' = Deserted(member', phase)
  /\ life' \in IF empty /\ empty' THEN {life, "deleted"} ELSE {life}
  /\ UNCHANGED <<phase, roster, machine, step, available, task>>

\* Slip: a Tick does not look at results that fell due.
TickWithCompletion ==
  /\ machine.st = "complete"
  /\ task' = LoopBound
  /\ UNCHANGED <<life, phase, roster, machine, step, available, empty>>

TickWithResults ==
  /\ machine.st \in {"held", "complete"}
  /\ task' = LoopBound
  /\ UNCHANGED <<life, phase, roster, machine, step, available, empty>>

\* The expiry pass either resolves the Decision or leaves it waiting.
TickWithDecision(left) ==
  /\ machine.st = "decide"
  /\ \E m \in Expired(machine) :
       /\ HandleResult(m) \/ \E n \in Played(m) : HandleResult(n)
       /\ member' = SyncedMembers(left, machine')
       /\ roster' = SyncedRoster(left, machine')
  /\ task' = LoopBound
  /\ UNCHANGED <<life, phase, empty>>

\* Slip: an aborted machine is left alone.
TickAbortsRunning(left) ==
  /\ machine.st = "decide"
  /\ Abort(left)
  /\ empty' = Deserted(member', "Lobby")

\* The machine was aborted, or is by this expiry pass.
TickAborts(left) ==
  /\ machine.st \in {"decide", "aborted"}
  /\ Abort(left)
  /\ empty' = Deserted(member', "Lobby")

Tick(late) ==
  LET left == Without(member, Forgotten(late))
  IN  /\ Listening
      /\ \/ member' = left /\ (TickWithoutMatch \/ TickWithResults)
         \/ TickWithDecision(left)
         \/ TickAborts(left)
      /\ UNCHANGED config

-----------------------------------------------------------------------------
(* advance_match, one iteration at a time *)

Confirmed == step.required \subseteq step.confirmed

\* The results stay up until all have confirmed or the step is due.
AwaitConfirmation ==
  /\ machine.st = "held"
  /\ ~step.due /\ ~Confirmed
  /\ task' = 0
  /\ UNCHANGED <<life, phase, config, member, roster, machine, step, available, empty>>

\* Slip: the next win is shown without waiting.
NextWithoutWaiting ==
  /\ machine.st = "held"
  /\ step.index < machine.wins
  /\ step' = NewStep(step.index + 1)
  /\ task' = task - 1
  /\ UNCHANGED <<life, phase, config, member, roster, machine, available, empty>>

NextResultStep ==
  /\ machine.st = "held"
  /\ step.due \/ Confirmed
  /\ step.index < machine.wins
  /\ step' = NewStep(step.index + 1)
  /\ task' = task - 1
  /\ UNCHANGED <<life, phase, config, member, roster, machine, available, empty>>

\* release_kyoku
FinishResults ==
  /\ machine.st = "held"
  /\ step.due \/ Confirmed
  /\ step.index = machine.wins
  /\ step' = NoStep
  /\ machine' = [machine EXCEPT !.st = IF machine.final THEN "complete" ELSE "decide", !.wins = 0]
  /\ task' = task - 1
  /\ UNCHANGED <<life, phase, config, member, roster, available, empty>>

\* complete_match and finish_match
CompleteMatch ==
  /\ machine.st = "complete"
  /\ Recorded
  /\ phase' = "PostMatch"
  /\ machine' = NoMachine
  /\ step' = NoStep
  /\ member' = Without(member, {p \in P : member[p].leaving})
  /\ empty' = Deserted(member', "PostMatch")
  /\ task' = 0
  /\ UNCHANGED <<life, config, roster>>

AutoSeats == {p \in Players : roster[p] # "Interactive"}

\* Everybody the Decision waits for answers in person.
AwaitAction ==
  /\ machine.st = "decide"
  /\ AutoSeats # Players
  /\ task' = 0
  /\ UNCHANGED <<life, phase, config, member, roster, machine, step, available, empty>>

\* Some Seat is played automatically: an expiry pass may resolve the Decision,
\* and the Room's copy of the controllers is not refreshed here.
AutoPlays ==
  /\ machine.st = "decide"
  /\ AutoSeats # {}
  /\ \E m \in Expired(machine) :
       \/ HandleResult(m) /\ task' = task - 1
       \/ \E n \in Played(m) : HandleResult(n) /\ task' = task - 1
       \/ machine' = m /\ task' = 0 /\ UNCHANGED <<step, available>>
  /\ UNCHANGED <<life, phase, config, member, roster, empty>>

\* No legal set, or an engine that refuses: the Match ends without results.
AdvanceAborts ==
  /\ machine.st = "decide"
  /\ Abort(member)
  /\ UNCHANGED empty

Advance ==
  /\ life = "open"
  /\ task > 0
  /\ \/ AwaitConfirmation
     \/ NextResultStep
     \/ FinishResults
     \/ CompleteMatch
     \/ AwaitAction
     \/ AutoPlays
     \/ AdvanceAborts

-----------------------------------------------------------------------------
Next ==
  \/ \E p \in P :
       \/ Join(p)
       \/ Select(p)
       \/ Deselect(p)
       \/ SetReady(p)
       \/ Disconnect(p)
       \/ Reconnect(p)
       \/ LeaveOrKick(p)
       \/ SubmitAction(p)
       \/ SubmissionFails(p)
       \/ ConfirmResult(p)
  \/ \E t \in {Token[p] : p \in P} : RevokeToken(t)
  \/ \E taken, created \in SUBSET P : FillWithBots(taken, created)
  \/ \E mode \in Mode, limit \in Limits, save \in Saves, resave \in BOOLEAN :
       Configure(mode, limit, save, resave)
  \/ BackToLobby
  \/ Delete
  \/ Shutdown
  \/ Start
  \/ Rematch
  \/ StepFallsDue
  \/ PersistenceFailure
  \/ \E late \in SUBSET P : Tick(late)
  \/ Advance

Spec == Init /\ [][Next]_vars

-----------------------------------------------------------------------------
TypeOK ==
  /\ life \in {"open", "deleted", "closed"}
  /\ phase \in {"Lobby", "Playing", "PostMatch"}
  /\ config \in [mode : Mode, limit : Limits, save : BOOLEAN]
  /\ member \in [P -> Member]
  /\ roster \in [P -> Controller \cup {"none"}]
  /\ machine \in Machine
  /\ step \in Step
  /\ available \in BOOLEAN
  /\ empty \in BOOLEAN
  /\ task \in 0..LoopBound

(* Safety *)

\* While a Match is played its roster is exactly the Participants with a Seat,
\* and none of them can be lost: not by leaving, kick, revocation or expiry.
RosterSound ==
  /\ phase = "Lobby" => Players = {}
  /\ phase = "Playing" => /\ Players = {p \in In(member) : member[p].role = "Player"}
                          /\ Cardinality(Players) = Seats
                          /\ \A p \in Players : member[p].selected
  /\ \A p \in P : member[p].role = "Player" => p \in Players

\* A Player who is there plays its own Seat: Room and machine agree on it.
PresentPlayersPlay ==
  phase = "Playing" =>
    \A p \in Players :
      Kind[p] # "BuiltInBot" /\ member[p].here = "Connected" =>
        /\ member[p].controller = "Interactive"
        /\ roster[p] = "Interactive"
        /\ machine.ctl[p] = "Interactive"
        /\ machine.here[p] = "Connected"

\* Results wait only for Humans who are there to confirm them.
ResultsWaitForPresentHumans ==
  /\ step.active <=> machine.st = "held"
  /\ \A p \in step.required : Attends(member, p)

\* A Human is Ready only while it is selected and there, in a Room that is not
\* playing.
ReadyMeansPresent ==
  \A p \in P :
    Kind[p] = "Human" /\ member[p].ready =>
      member[p].selected /\ member[p].here = "Connected" /\ phase # "Playing"

\* Only a Room without connected Participants runs the clock that deletes it.
OnlyDesertedRoomsExpire == empty => Deserted(member, phase)

(* Action properties *)

\* A result step is left only when it is due or everybody it still waits for
\* has confirmed it.
ResultsAreSeen ==
  [][step.active /\ (step'.index # step.index \/ ~step'.active) =>
       step.due \/ Confirmed]_vars

\* Whoever left, was kicked or lost its token during a Match never plays it
\* again, and is gone when the Match completes.
LeaversStayOut ==
  [][\A p \in P :
       member[p].leaving =>
         /\ phase' = "Playing" => member'[p].leaving /\ member'[p].here = "Disconnected"
         /\ phase' = "PostMatch" => member'[p] = Absent]_vars

\* A replay that was lost stays lost until the Admin asks for one again in the
\* Lobby: no later success makes a Match with a gap look recorded.
LostReplayStaysLost ==
  [][~available /\ phase # "Lobby" => ~available']_vars

(* What the specification says and the code does not do, see the findings *)

(* Liveness *)

\* The actor finishes a command it has begun and the clock of a result step
\* runs.  Its loop serves commands before the Tick, so a Tick is only promised
\* if the command queue runs empty again and again; then every clock that
\* keeps running is one day found run out.
Forgets(p) == \E late \in SUBSET P : p \in Forgotten(late) /\ Tick(late)

Expires == \E late \in SUBSET P : Tick(late) /\ life' # life

Fairness ==
  /\ WF_vars(Advance)
  /\ WF_vars(StepFallsDue)
  /\ SF_vars(\E late \in SUBSET P : Tick(late))
  /\ SF_vars(Expires)
  /\ \A p \in P : SF_vars(Forgets(p))

FairSpec == Spec /\ Fairness

\* No result step stays up forever, whoever fails to confirm it.
ResultsEnd ==
  \A i \in 0..MaxWins :
    step.active /\ step.index = i ~> ~step.active \/ step.index # i \/ life # "open"

\* An engine failure never leaves the Room stuck in its Match.
AbortedMatchEnds ==
  machine.st = "aborted" ~> machine.st # "aborted" \/ life # "open"

\* spec/implementation-v1.md 8.3: a disconnected, unselected Human, MJAI or MCP
\* Participant is removed.
DisconnectedAreForgotten ==
  \A p \in P :
    LET ghost == /\ Kind[p] # "BuiltInBot"
                 /\ member[p].here = "Disconnected"
                 /\ ~member[p].selected
                 /\ member[p].role # "Player"
    IN  ghost ~> ~ghost \/ life # "open"
=============================================================================
