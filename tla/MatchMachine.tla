---------------------------- MODULE MatchMachine ----------------------------
(***************************************************************************)
(* The Match Machine (crates/double_riichi_core/src/match_machine.rs): it   *)
(* drives the rules engine one Decision at a time, decides which Seat is    *)
(* played automatically, and withholds the end of a Kyoku until the Room    *)
(* has presented its results.                                               *)
(*                                                                          *)
(* The engine is external.  What the machine sees of it is `engine`: the    *)
(* actions it offers to each Seat, the current Kyoku, and whether the Match *)
(* is over.  Its answers to an applied action are nondeterministic.         *)
(***************************************************************************)
EXTENDS Decision, Sequences, FiniteSets

CONSTANTS
  Kind,          \* [Seats -> {"Human", "MJAI", "MCP", "BuiltInBot"}]
  TimeControl,   \* "Casual", "RiichiDev" or "Unlimited"
  TurnTime,      \* ticks for a turn Decision under a timed control
  ResponseTime,  \* ticks for a response Decision under a timed control
  Watchdog,      \* ticks of the safety watchdog under Unlimited
  TurnSets,      \* the sets of actions the engine may offer for a turn
  MaxWins,       \* bound: winners of one Kyoku
  MaxKyoku,      \* bound: Kyoku in a Match
  MaxTurns,      \* bound: engine steps in one Kyoku
  MaxIds         \* bound: Decision ids, where an id is not spent on a turn

ASSUME KindAssumption ==
  Kind \in [Seats -> {"Human", "MJAI", "MCP", "BuiltInBot"}]
ASSUME TimeControlAssumption ==
  TimeControl \in {"Casual", "RiichiDev", "Unlimited"}
ASSUME TimingAssumption ==
  /\ TurnTime \in Nat \ {0}
  /\ ResponseTime \in Nat \ {0}
  /\ Watchdog \in Nat \ {0}
ASSUME TurnSetsAssumption ==
  TurnSets \subseteq (SUBSET {"tsumogiri", "tedashi", "win"}) \ {{}}
ASSUME BoundAssumption ==
  /\ MaxWins \in Nat
  /\ MaxKyoku \in Nat \ {0}
  /\ MaxTurns \in Nat \ {0}
  /\ MaxIds \in Nat

VARIABLES
  presence,    \* machine's view of each Seat's connection
  controller,  \* who plays each Seat
  status,      \* "Running", "Completed" or "Aborted"
  decision,    \* the open Decision, or NoDecision
  nextId,      \* next_decision_id
  engine,      \* the external engine, see above
  held,        \* the Kyoku whose results are being presented, or NoHold
  events,      \* public event log
  pending,     \* persistence_events, not yet taken by the Room
  journal,     \* events the Room has taken for the replay
  resolved     \* the last Decision resolution returned to the Room

vars == <<presence, controller, status, decision, nextId, engine, held,
          events, pending, journal, resolved>>

decisionVars == <<decision, nextId, resolved>>
logVars == <<events, pending, journal>>

-----------------------------------------------------------------------------
(* Events, outcomes and the hold *)

Ev(type, kyoku) == [type |-> type, kyoku |-> kyoku]

Event == [type : {"start_game", "start_kyoku", "play", "hora", "ryukyoku",
                  "end_kyoku", "end_game"},
          kyoku : Nat]

NoHold ==
  [active |-> FALSE, wins |-> 0, nextStep |-> 0, seq |-> 0,
   terminal |-> <<>>, future |-> <<>>, final |-> FALSE]

Hold ==
  [active : BOOLEAN, wins : Nat, nextStep : Nat, seq : Nat,
   terminal : Seq(Event), future : Seq(Event), final : BOOLEAN]

\* DecisionResolution: the response of each Seat, and whether it was a timeout.
Resolution ==
  [id : Nat, answer : [Seats -> Action \cup {NoAction}], timedOut : [Seats -> BOOLEAN]]

NoResolution ==
  [id |-> 0, answer |-> [s \in Seats |-> NoAction], timedOut |-> [s \in Seats |-> FALSE]]

EngineState == [offer : Offer, kyoku : Nat, turn : Nat, done : BOOLEAN]

\* A turn is offered to one Seat; a response never to every Seat, since the
\* Seat that discarded does not respond.
TurnOffers ==
  {offer \in [Seats -> TurnSets \cup {{}}] :
     \E t \in Seats : \A s \in Seats : offer[s] = {} <=> s # t}

ResponseOffers ==
  {offer \in [Seats -> {{}, {"pass", "call"}}] :
     (\E s \in Seats : offer[s] # {}) /\ (\E s \in Seats : offer[s] = {})}

Offers == TurnOffers \cup ResponseOffers

KindOf(offer) ==
  IF \E s \in Seats : offer[s] \cap {"pass", "call"} # {} THEN "Response" ELSE "Turn"

\* Public so far, then the terminal events, then what follows EndKyoku.
Terminal(wins, kyoku) ==
  IF wins = 0 THEN <<Ev("ryukyoku", kyoku)>>
              ELSE [w \in 1..wins |-> Ev("hora", kyoku)]

Future(kyoku, done) ==
  <<Ev("end_kyoku", kyoku),
    IF done THEN Ev("end_game", kyoku) ELSE Ev("start_kyoku", kyoku + 1)>>

\* kyoku_sequence of a result record: StartKyoku events already public.
Sequence ==
  Cardinality({i \in DOMAIN events : events[i].type = "start_kyoku"})

-----------------------------------------------------------------------------
(* Timing *)

Automated(s) == controller[s] # "Interactive"

DurationOf(kind) == IF kind = "Turn" THEN TurnTime ELSE ResponseTime


\* Slip: a Human never gets the watchdog.
TimingForgetsPresence(kind, s, here, who) ==
  IF who # "Interactive" \/ Kind[s] = "BuiltInBot" THEN [left |-> 0, watchdog |-> FALSE]
  ELSE IF Kind[s] = "Human" THEN [left |-> Never, watchdog |-> FALSE]
  ELSE [left |-> Watchdog, watchdog |-> TRUE]

\* decision_timing_for, for a given presence and controller of the Seat.
TimingFor(kind, s, here, who) ==
  IF who # "Interactive" THEN [left |-> 0, watchdog |-> FALSE]
  ELSE IF TimeControl # "Unlimited" THEN [left |-> DurationOf(kind), watchdog |-> FALSE]
  ELSE IF Kind[s] = "BuiltInBot" THEN [left |-> 0, watchdog |-> FALSE]
  ELSE IF Kind[s] = "Human" /\ here = "Connected" THEN [left |-> Never, watchdog |-> FALSE]
  ELSE [left |-> Watchdog, watchdog |-> TRUE]

-----------------------------------------------------------------------------
Init ==
  /\ presence = [s \in Seats |-> "Connected"]
  /\ controller = [s \in Seats |-> IF Kind[s] = "BuiltInBot" THEN "PermanentAuto"
                                                          ELSE "Interactive"]
  /\ status = "Running"
  /\ decision = NoDecision
  /\ nextId = 1
  /\ \E offer \in TurnOffers :
       engine = [offer |-> offer, kyoku |-> 1, turn |-> 0, done |-> FALSE]
  /\ held = NoHold
  /\ events = <<Ev("start_game", 0), Ev("start_kyoku", 1)>>
  /\ pending = <<>>
  /\ journal = events    \* written when the replay is opened
  /\ resolved = NoResolution

\* ensure_running
Running == status = "Running" /\ ~held.active

DecisionOpen == decision.id # 0

\* The Decision current_decision returns: the open one or a fresh one.
Current ==
  IF DecisionOpen THEN decision
  ELSE NewDecision(nextId, KindOf(engine.offer), engine.offer,
         [s \in Seats |-> TimingFor(KindOf(engine.offer), s, presence[s], controller[s])])

\* The engine state current_decision needs to return one.
CanDecide == Running /\ (DecisionOpen \/ HasSafeDefault(engine.offer))

SpendId == nextId' = IF DecisionOpen THEN nextId ELSE nextId + 1

OpenDecision ==
  /\ CanDecide
  /\ ~DecisionOpen
  /\ decision' = Current
  /\ SpendId
  /\ UNCHANGED <<presence, controller, status, engine, held, logVars, resolved>>

\* A legal set without a safe default aborts the Match.
NoSafeDefault ==
  /\ Running
  /\ ~DecisionOpen
  /\ ~HasSafeDefault(engine.offer)
  /\ status' = "Aborted"
  /\ nextId' = nextId + 1
  /\ UNCHANGED <<presence, controller, decision, engine, held, logVars, resolved>>

-----------------------------------------------------------------------------
(* The engine's answer to the applied actions (record_outcome) *)

Continues ==
  /\ engine.turn < MaxTurns
  /\ \E offer \in Offers :
       engine' = [offer |-> offer, kyoku |-> engine.kyoku, turn |-> engine.turn + 1,
                  done |-> FALSE]
  /\ events' = Append(events, Ev("play", engine.kyoku))
  /\ pending' = Append(pending, Ev("play", engine.kyoku))
  /\ UNCHANGED <<status, held>>

EndsKyokuWith(wins, done, offer) ==
  LET kyoku == engine.kyoku
      public == <<Ev("play", kyoku)>>
      terminal == Terminal(wins, kyoku)
      future == Future(kyoku, done)
  IN  /\ done \/ kyoku < MaxKyoku
      /\ engine' = IF done THEN [offer |-> EmptyOffer, kyoku |-> kyoku, turn |-> 0, done |-> TRUE]
                   ELSE [offer |-> offer, kyoku |-> kyoku + 1, turn |-> 0, done |-> FALSE]
      /\ events' = events \o public
      /\ pending' = pending \o (public \o (terminal \o future))
      /\ held' = [active |-> TRUE, wins |-> wins, nextStep |-> 0, seq |-> Sequence,
                  terminal |-> terminal, future |-> future, final |-> done]
      /\ UNCHANGED status

EndsKyoku ==
  \E wins \in 0..MaxWins, done \in BOOLEAN, offer \in TurnOffers :
    EndsKyokuWith(wins, done, offer)

\* abort_for_engine, for a rejected action or a diverged capture.
EngineFails ==
  /\ status' = "Aborted"
  /\ held' = NoHold
  /\ UNCHANGED <<engine, events, pending>>

\* resolve_actions
Resolves(d) ==
  /\ decision' = NoDecision
  /\ \/ /\ Continues \/ EndsKyoku
        /\ resolved' = [id |-> d.id, answer |-> d.answer, timedOut |-> d.timedOut]
     \/ EngineFails /\ UNCHANGED resolved
  /\ UNCHANGED journal

\* Store the changed Decision, or apply it when it is closed.
Settle(d) ==
  IF d.closed THEN Resolves(d)
  ELSE /\ decision' = d
       /\ UNCHANGED <<status, engine, held, logVars, resolved>>

SubmitAction(s, id, a) ==
  /\ CanDecide
  /\ id = Current.id
  /\ CanSubmit(Current, s, a)
  /\ Settle(Submitted(Current, s, a))
  /\ SpendId
  /\ UNCHANGED <<presence, controller>>

\* Only a Seat that is away and still Interactive is put on Temporary Auto.
ResolveExpired ==
  /\ CanDecide
  /\ LET d == TimedOutResolution(Current)
     IN  /\ controller' =
              [s \in Seats |->
                 IF d.timedOut[s] /\ presence[s] = "Disconnected"
                                  /\ controller[s] = "Interactive"
                 THEN "TemporaryAuto" ELSE controller[s]]
         /\ Settle(d)
  /\ SpendId
  /\ UNCHANGED presence

-----------------------------------------------------------------------------
(* Connections and controllers *)

\* A Built-in Bot has no connection.
Disconnect(s) ==
  /\ Kind[s] # "BuiltInBot"
  /\ presence' = [presence EXCEPT ![s] = "Disconnected"]
  /\ decision' =
       IF /\ TimeControl = "Unlimited"
          /\ Kind[s] = "Human"
          /\ controller[s] = "Interactive"
          /\ s \in Eligible(decision)
          /\ decision.left[s] = Never
       THEN Retimed(decision, s, [left |-> Watchdog, watchdog |-> TRUE])
       ELSE decision
  /\ UNCHANGED <<controller, status, nextId, engine, held, logVars, resolved>>

\* Slip: every reconnect starts the Seat's time again.
ReconnectRetimes(s) ==
  /\ Kind[s] # "BuiltInBot"
  /\ presence' = [presence EXCEPT ![s] = "Connected"]
  /\ controller' = [controller EXCEPT ![s] = "Interactive"]
  /\ decision' = Retimed(decision, s, TimingFor(decision.kind, s, "Connected", "Interactive"))
  /\ UNCHANGED <<status, nextId, engine, held, logVars, resolved>>

Reconnect(s) ==
  /\ Kind[s] # "BuiltInBot"
  /\ presence' = [presence EXCEPT ![s] = "Connected"]
  /\ controller' =
       [controller EXCEPT ![s] =
          IF controller[s] = "TemporaryAuto" THEN "Interactive" ELSE controller[s]]
  /\ decision' =
       IF \/ controller[s] = "TemporaryAuto"
          \/ TimeControl = "Unlimited" /\ Kind[s] = "Human" /\ decision.watchdog[s]
       THEN Retimed(decision, s, TimingFor(decision.kind, s, "Connected", controller'[s]))
       ELSE decision
  /\ UNCHANGED <<status, nextId, engine, held, logVars, resolved>>

\* Slip: the open Decision keeps the Seat's deadline.
SetPermanentAutoOnly(s) ==
  /\ controller' = [controller EXCEPT ![s] = "PermanentAuto"]
  /\ UNCHANGED <<presence, status, decisionVars, engine, held, logVars>>

SetPermanentAuto(s) ==
  /\ nextId < MaxIds
  /\ controller' = [controller EXCEPT ![s] = "PermanentAuto"]
  /\ decision' = NoDecision
  /\ UNCHANGED <<presence, status, nextId, engine, held, logVars, resolved>>

-----------------------------------------------------------------------------
(* Presenting a held Kyoku *)

\* Slip: the terminal events go out one step early.
PublishEarly ==
  /\ held.active
  /\ held.nextStep <= held.wins
  /\ held' = [held EXCEPT !.nextStep = @ + 1, !.terminal = <<>>]
  /\ events' = events \o held.terminal
  /\ UNCHANGED <<presence, controller, status, decisionVars, engine, pending, journal>>

\* Any other step index is refused.
PublishKyokuStep ==
  /\ held.active
  /\ held.nextStep <= held.wins
  /\ LET settlement == held.nextStep = held.wins
     IN  /\ events' = IF settlement THEN events \o held.terminal ELSE events
         /\ held' = [held EXCEPT !.nextStep = @ + 1,
                       !.terminal = IF settlement THEN <<>> ELSE @]
  /\ UNCHANGED <<presence, controller, status, decisionVars, engine, pending, journal>>

ReleaseKyoku ==
  /\ held.active
  /\ held.nextStep > held.wins
  /\ events' = events \o held.future
  /\ status' = IF held.final THEN "Completed" ELSE status
  /\ held' = NoHold
  /\ UNCHANGED <<presence, controller, decisionVars, engine, pending, journal>>

\* Slip: the events are copied rather than taken.
CopyPersistenceEvents ==
  /\ pending # <<>>
  /\ journal' = journal \o pending
  /\ UNCHANGED <<presence, controller, status, decisionVars, engine, held, events, pending>>

\* The Room takes the private events after every resolution.
TakePersistenceEvents ==
  /\ pending # <<>>
  /\ journal' = journal \o pending
  /\ pending' = <<>>
  /\ UNCHANGED <<presence, controller, status, decisionVars, engine, held, events>>

Tick ==
  /\ \E s \in Seats : decision.left[s] > 0
  /\ decision' = Aged(decision)
  /\ UNCHANGED <<presence, controller, status, nextId, engine, held, logVars, resolved>>

-----------------------------------------------------------------------------
Next ==
  \/ OpenDecision
  \/ NoSafeDefault
  \/ ResolveExpired
  \/ PublishKyokuStep
  \/ ReleaseKyoku
  \/ TakePersistenceEvents
  \/ Tick
  \/ \E s \in Seats :
       \/ \E id \in 1..nextId, a \in Action : SubmitAction(s, id, a)
       \/ Disconnect(s)
       \/ Reconnect(s)
       \/ SetPermanentAuto(s)

Spec == Init /\ [][Next]_vars

-----------------------------------------------------------------------------
(* Type invariant *)

TypeOK ==
  /\ presence \in [Seats -> {"Connected", "Disconnected"}]
  /\ controller \in [Seats -> {"Interactive", "TemporaryAuto", "PermanentAuto"}]
  /\ status \in {"Running", "Completed", "Aborted"}
  /\ decision \in DecisionType
  /\ nextId \in Nat
  /\ engine \in EngineState
  /\ held \in Hold
  /\ events \in Seq(Event)
  /\ pending \in Seq(Event)
  /\ journal \in Seq(Event)
  /\ resolved \in Resolution

(* Safety *)

\* Whoever is on Temporary Auto is away: reconnect always gives the Seat back
\* (match_machine.rs reconnect, resolve_expired).
TemporaryAutoMeansAway ==
  \A s \in Seats : controller[s] = "TemporaryAuto" => presence[s] = "Disconnected"

\* An open Decision is always waiting for somebody, in a running Match that is
\* presenting no results: neither a response, a timeout, a reconnect nor a
\* conversion to Permanent Auto leaves a complete Decision unapplied.
OpenDecisionWaits ==
  DecisionOpen =>
    /\ Running
    /\ ~decision.closed
    /\ ~Complete(decision)
    /\ decision.id < nextId

\* Nobody waits for a Seat that is played automatically: its response is in,
\* or its deadline has passed and the next expiry pass supplies the default.
AutomatedSeatNeverWaited ==
  \A s \in Eligible(decision) :
    Automated(s) => decision.answer[s] # NoAction \/ Expired(decision, s)

\* Events that are decided but not public yet.
Withheld == IF held.active THEN held.terminal \o held.future ELSE <<>>

\* The replay and the public log never diverge: what was handed to the replay
\* is the public log followed by exactly the withheld end of the held Kyoku.
JournalIsPublicPlusWithheld ==
  status # "Aborted" => journal \o pending = events \o Withheld

\* Until its settlement is published a held Kyoku has leaked neither a win, a
\* draw, its end nor the start of the next Kyoku.
NoFutureLeak ==
  held.active /\ held.nextStep <= held.wins =>
    \A i \in DOMAIN events :
      /\ events[i].kyoku <= held.seq
      /\ events[i].kyoku = held.seq => events[i].type \in {"start_kyoku", "play"}

(* Action properties *)

\* The Decisions of a Match, seen without clocks and engine, keep the contract:
\* nothing replaces an answer, no Decision is applied twice or incomplete, no
\* id comes back (match_machine.rs current_decision, submit_action,
\* resolve_expired, resolve_actions).
Abstract == INSTANCE DecisionContract WITH
  NoAnswer <- NoAction,
  asked <- decision.id,
  used <- nextId - 1,
  eligible <- Eligible(decision),
  given <- decision.answer,
  applied <- [id |-> resolved.id, answer |-> resolved.answer]

Contract == Abstract!Spec

\* The responses to Decision id after a step: of the open Decision, or of the one
\* the step has resolved.
ResponsesAfter(id) ==
  IF decision'.id = id THEN [answer |-> decision'.answer, timedOut |-> decision'.timedOut]
  ELSE IF resolved'.id = id THEN [answer |-> resolved'.answer, timedOut |-> resolved'.timedOut]
  ELSE [answer |-> NoDecision.answer, timedOut |-> NoDecision.timedOut]

\* A Seat that responds in a step is defaulted in it, to its safe default, exactly
\* when its deadline has passed, also in the step that opens the Decision or
\* resolves it; and whoever responded before stays what it was, defaulted or not
\* (decision.rs submit_at, resolve_at, accepted_resolution; match_machine.rs
\* resolve_expired).
DefaultExactlyWhenLate ==
  [][LET d == Current
         e == ResponsesAfter(d.id)
     IN  \A s \in Eligible(d) :
           LET late == d.answer[s] = NoAction /\ Expired(d, s)
           IN  e.answer[s] # NoAction =>
                 /\ e.timedOut[s] <=> d.timedOut[s] \/ late
                 /\ late => e.answer[s] = DefaultOf(d.offer[s])]_vars

\* Permanent Auto is permanent.
PermanentAutoIsPermanent ==
  [][\A s \in Seats : controller[s] = "PermanentAuto" => controller'[s] = "PermanentAuto"]_vars

(* What the specification says and the code does not do, see the findings *)

(* Liveness *)

\* The Room's actor loop wakes at the next deadline, or at the latest after a
\* second, and every wake is an expiry pass (room.rs next_wake and tick); it
\* opens the Decision when it computes the wake.
Fairness ==
  /\ WF_vars(OpenDecision)
  /\ WF_vars(ResolveExpired)
  /\ WF_vars(Tick)

FairSpec == Spec /\ Fairness

\* Under a timed control every Decision ends, however often the players
\* disconnect and reconnect.
EveryDecisionEnds ==
  TimeControl # "Unlimited" =>
    \A id \in 1..(MaxIds + MaxKyoku * (MaxTurns + 1)) :
      decision.id = id ~> decision.id # id

\* Under Unlimited a Decision can only stay open for a connected Human.
OpenOnlyForConnectedHuman ==
  \A id \in 1..(MaxIds + MaxKyoku * (MaxTurns + 1)) :
    decision.id = id ~>
      \/ decision.id # id
      \/ \E s \in Eligible(decision) :
           /\ decision.answer[s] = NoAction
           /\ Kind[s] = "Human"
           /\ presence[s] = "Connected"
=============================================================================
