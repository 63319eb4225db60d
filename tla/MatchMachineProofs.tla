------------------------- MODULE MatchMachineProofs -------------------------
(* Theorems about MatchMachine for every roster, time control and bound. *)
EXTENDS MatchMachine, FiniteSetTheorems, SequenceTheorems, TLAPS

-----------------------------------------------------------------------------
(* The Decision's methods keep its type *)

LEMMA DefaultType ==
  ASSUME NEW actions
  PROVE  DefaultOf(actions) \in Action
BY DEF DefaultOf, Action

LEMMA NoDecisionType == NoDecision \in DecisionType
BY DEF NoDecision, DecisionType, EmptyOffer, Offer, Ticks, Never, Action

LEMMA NewDecisionType ==
  ASSUME NEW id \in Nat, NEW kind \in {"Turn", "Response"}, NEW offer \in Offer,
         NEW timing \in [Seats -> Timing]
  PROVE  NewDecision(id, kind, offer, timing) \in DecisionType
<1>1. \A s \in Seats : timing[s].left \in Ticks /\ timing[s].watchdog \in BOOLEAN
  BY DEF Timing
<1>2. [s \in Seats |-> IF offer[s] = {} THEN Never ELSE timing[s].left] \in [Seats -> Ticks]
  BY <1>1 DEF Ticks
<1>3. [s \in Seats |-> offer[s] # {} /\ timing[s].watchdog] \in [Seats -> BOOLEAN]
  OBVIOUS
<1>4. [s \in Seats |-> NoAction] \in [Seats -> Action \cup {NoAction}]
  OBVIOUS
<1>5. [s \in Seats |-> FALSE] \in [Seats -> BOOLEAN]
  OBVIOUS
<1> QED
  BY <1>2, <1>3, <1>4, <1>5 DEF NewDecision, DecisionType

LEMMA SubmittedType ==
  ASSUME NEW d \in DecisionType, NEW s \in Seats, NEW a \in Action
  PROVE  Submitted(d, s, a) \in DecisionType
BY DEF Submitted, DecisionType, Complete

LEMMA TimedOutType ==
  ASSUME NEW d \in DecisionType
  PROVE  TimedOutResolution(d) \in DecisionType
<1> DEFINE late == NewlyTimedOut(d)
<1>1. [s \in Seats |-> IF s \in late THEN DefaultOf(d.offer[s]) ELSE d.answer[s]]
        \in [Seats -> Action \cup {NoAction}]
  BY DefaultType DEF DecisionType
<1>2. [s \in Seats |-> d.timedOut[s] \/ s \in late] \in [Seats -> BOOLEAN]
  OBVIOUS
<1> QED
  BY <1>1, <1>2 DEF TimedOutResolution, DecisionType, Complete

LEMMA RetimedType ==
  ASSUME NEW d \in DecisionType, NEW s \in Seats, NEW timing \in Timing
  PROVE  Retimed(d, s, timing) \in DecisionType
BY DEF Retimed, DecisionType, Timing

LEMMA AgedType ==
  ASSUME NEW d \in DecisionType
  PROVE  Aged(d) \in DecisionType
<1>1. [s \in Seats |-> IF d.left[s] > 0 THEN d.left[s] - 1 ELSE d.left[s]] \in [Seats -> Ticks]
  BY DEF DecisionType, Ticks, Never
<1> QED
  BY <1>1 DEF Aged, DecisionType

-----------------------------------------------------------------------------
(* Type correctness *)

LEMMA TimingType ==
  ASSUME NEW kind, NEW s \in Seats, NEW here, NEW who
  PROVE  TimingFor(kind, s, here, who) \in Timing
BY TimingAssumption DEF TimingFor, DurationOf, Timing, Ticks, Never

LEMMA CurrentType ==
  ASSUME TypeOK
  PROVE  Current \in DecisionType
<1> DEFINE timing == [s \in Seats |->
             TimingFor(KindOf(engine.offer), s, presence[s], controller[s])]
<1>1. timing \in [Seats -> Timing]
  BY TimingType
<1>2. KindOf(engine.offer) \in {"Turn", "Response"}
  BY DEF KindOf
<1>3. nextId \in Nat /\ engine.offer \in Offer /\ decision \in DecisionType
  BY DEF TypeOK, EngineState
<1> QED
  BY <1>1, <1>2, <1>3, NewDecisionType DEF Current

LEMMA OffersType == Offers \subseteq Offer /\ TurnOffers \subseteq Offer
<1>1. TurnSets \cup {{}} \subseteq SUBSET Action
  BY TurnSetsAssumption DEF Action
<1>2. TurnOffers \subseteq Offer
  BY <1>1 DEF TurnOffers, Offer
<1>3. {{}, {"pass", "call"}} \subseteq SUBSET Action
  BY DEF Action
<1>4. ResponseOffers \subseteq Offer
  BY <1>3 DEF ResponseOffers, Offer
<1> QED
  BY <1>2, <1>4 DEF Offers

LEMMA EventType ==
  ASSUME NEW type \in {"start_game", "start_kyoku", "play", "hora", "ryukyoku",
                       "end_kyoku", "end_game"},
         NEW kyoku \in Nat
  PROVE  Ev(type, kyoku) \in Event
BY DEF Ev, Event

LEMMA TerminalType ==
  ASSUME NEW wins \in Nat, NEW kyoku \in Nat
  PROVE  Terminal(wins, kyoku) \in Seq(Event)
<1>1. Ev("ryukyoku", kyoku) \in Event /\ Ev("hora", kyoku) \in Event
  BY EventType
<1> QED
  BY <1>1 DEF Terminal

LEMMA FutureType ==
  ASSUME NEW kyoku \in Nat, NEW done \in BOOLEAN
  PROVE  Future(kyoku, done) \in Seq(Event)
<1>1. /\ Ev("end_kyoku", kyoku) \in Event
      /\ Ev("end_game", kyoku) \in Event
      /\ Ev("start_kyoku", kyoku + 1) \in Event
  BY EventType
<1> QED
  BY <1>1 DEF Future

LEMMA SequenceType ==
  ASSUME TypeOK
  PROVE  Sequence \in Nat
<1>1. IsFiniteSet(DOMAIN events)
  <2>1. Len(events) \in Nat /\ DOMAIN events = 1..Len(events)
    BY DEF TypeOK
  <2> QED
    BY <2>1, FS_Interval
<1>2. IsFiniteSet({i \in DOMAIN events : events[i].type = "start_kyoku"})
  BY <1>1, FS_Subset
<1> QED
  BY <1>2, FS_CardinalityType DEF Sequence

LEMMA HoldType ==
  /\ NoHold \in Hold
  /\ \A wins, step, seq \in Nat, terminal, future \in Seq(Event), final \in BOOLEAN :
       [active |-> TRUE, wins |-> wins, nextStep |-> step, seq |-> seq,
        terminal |-> terminal, future |-> future, final |-> final] \in Hold
BY DEF NoHold, Hold

\* What applying a closed Decision does to the variables it touches.
LEMMA ResolvesType ==
  ASSUME TypeOK, NEW d \in DecisionType, Resolves(d)
  PROVE  /\ decision' \in DecisionType
         /\ status' \in {"Running", "Completed", "Aborted"}
         /\ engine' \in EngineState
         /\ held' \in Hold
         /\ events' \in Seq(Event)
         /\ pending' \in Seq(Event)
         /\ journal' \in Seq(Event)
         /\ resolved' \in Resolution
<1>1. decision' \in DecisionType /\ journal' \in Seq(Event)
  BY NoDecisionType DEF Resolves, TypeOK
<1>2. resolved' \in Resolution
  BY DEF Resolves, TypeOK, DecisionType, Resolution
<1>3. engine.kyoku \in Nat /\ engine.turn \in Nat
  BY DEF TypeOK, EngineState
<1>4. Ev("play", engine.kyoku) \in Event
  BY <1>3, EventType
<1>5. CASE Continues
  <2>1. PICK offer \in Offers :
          engine' = [offer |-> offer, kyoku |-> engine.kyoku, turn |-> engine.turn + 1,
                     done |-> FALSE]
    BY <1>5 DEF Continues
  <2>2. engine' \in EngineState
    BY <1>3, <2>1, OffersType DEF EngineState
  <2> QED
    BY <1>1, <1>2, <1>4, <1>5, <2>2 DEF Continues, TypeOK
<1>6. CASE EndsKyoku
  <2>1. PICK wins \in 0..MaxWins, done \in BOOLEAN, offer \in TurnOffers :
          EndsKyokuWith(wins, done, offer)
    BY <1>6 DEF EndsKyoku
  <2>2. wins \in Nat
    BY BoundAssumption
  <2>3. /\ Terminal(wins, engine.kyoku) \in Seq(Event)
        /\ Future(engine.kyoku, done) \in Seq(Event)
        /\ <<Ev("play", engine.kyoku)>> \in Seq(Event)
    <3>1. Terminal(wins, engine.kyoku) \in Seq(Event)
      BY <1>3, <2>2, TerminalType
    <3>2. Future(engine.kyoku, done) \in Seq(Event)
      BY <1>3, FutureType
    <3> QED
      BY <1>4, <3>1, <3>2
  <2>4. engine' \in EngineState
    <3>1. EmptyOffer \in Offer /\ offer \in Offer
      BY OffersType DEF EmptyOffer, Offer
    <3> QED
      BY <1>3, <2>1, <3>1 DEF EndsKyokuWith, EngineState
  <2>5. events' \in Seq(Event) /\ pending' \in Seq(Event)
    BY <2>1, <2>3 DEF EndsKyokuWith, TypeOK
  <2>6. held' \in Hold
    BY <2>1, <2>2, <2>3, HoldType, SequenceType DEF EndsKyokuWith
  <2> QED
    BY <1>1, <1>2, <2>1, <2>4, <2>5, <2>6 DEF EndsKyokuWith, TypeOK
<1>7. CASE EngineFails
  BY <1>1, <1>2, <1>7, HoldType DEF EngineFails, TypeOK
<1> QED
  BY <1>5, <1>6, <1>7 DEF Resolves

LEMMA SettleType ==
  ASSUME TypeOK, NEW d \in DecisionType, Settle(d)
  PROVE  /\ decision' \in DecisionType
         /\ status' \in {"Running", "Completed", "Aborted"}
         /\ engine' \in EngineState
         /\ held' \in Hold
         /\ events' \in Seq(Event)
         /\ pending' \in Seq(Event)
         /\ journal' \in Seq(Event)
         /\ resolved' \in Resolution
BY ResolvesType DEF Settle, TypeOK, logVars

LEMMA InitType == Init => TypeOK
<1> SUFFICES ASSUME Init PROVE TypeOK
  OBVIOUS
<1>1. engine \in EngineState
  BY OffersType DEF Init, EngineState
<1>2. events \in Seq(Event) /\ journal \in Seq(Event) /\ pending \in Seq(Event)
  <2>1. Ev("start_game", 0) \in Event /\ Ev("start_kyoku", 1) \in Event
    BY EventType
  <2> QED
    BY <2>1 DEF Init
<1>3. resolved \in Resolution
  BY DEF Init, NoResolution, Resolution
<1>4. held \in Hold /\ decision \in DecisionType
  BY HoldType, NoDecisionType DEF Init
<1> QED
  BY <1>1, <1>2, <1>3, <1>4 DEF Init, TypeOK

\* Every step keeps every variable in its type.
LEMMA NextType == TypeOK /\ [Next]_vars => TypeOK'
<1> SUFFICES ASSUME TypeOK, [Next]_vars PROVE TypeOK'
  OBVIOUS
<1>1. CASE OpenDecision
  BY <1>1, CurrentType DEF OpenDecision, SpendId, TypeOK, logVars
<1>2. CASE NoSafeDefault
  BY <1>2 DEF NoSafeDefault, TypeOK, logVars
<1>3. CASE ResolveExpired
  <2>1. TimedOutResolution(Current) \in DecisionType
    BY CurrentType, TimedOutType
  <2>2. Settle(TimedOutResolution(Current))
    BY <1>3 DEF ResolveExpired
  <2>3. controller' \in [Seats -> {"Interactive", "TemporaryAuto", "PermanentAuto"}]
    BY <1>3 DEF ResolveExpired, TypeOK
  <2>4. nextId' \in Nat /\ presence' = presence
    BY <1>3 DEF ResolveExpired, SpendId, TypeOK
  <2> QED
    BY <2>1, <2>2, <2>3, <2>4, SettleType DEF TypeOK
<1>4. CASE PublishKyokuStep
  <2>1. held' \in Hold
    <3>1. held' = [active |-> held.active, wins |-> held.wins, nextStep |-> held.nextStep + 1,
                   seq |-> held.seq,
                   terminal |-> IF held.nextStep = held.wins THEN <<>> ELSE held.terminal,
                   future |-> held.future, final |-> held.final]
      BY <1>4 DEF PublishKyokuStep, TypeOK, Hold
    <3> QED
      BY <3>1 DEF TypeOK, Hold
  <2>2. events' \in Seq(Event)
    BY <1>4 DEF PublishKyokuStep, TypeOK, Hold
  <2> QED
    BY <1>4, <2>1, <2>2 DEF PublishKyokuStep, TypeOK, decisionVars
<1>5. CASE ReleaseKyoku
  BY <1>5, HoldType DEF ReleaseKyoku, TypeOK, Hold, decisionVars
<1>6. CASE TakePersistenceEvents
  BY <1>6 DEF TakePersistenceEvents, TypeOK, decisionVars
<1>7. CASE Tick
  BY <1>7, AgedType DEF Tick, TypeOK, logVars
<1>8. ASSUME NEW s \in Seats, NEW id \in 1..nextId, NEW a \in Action, SubmitAction(s, id, a)
      PROVE  TypeOK'
  <2>1. Submitted(Current, s, a) \in DecisionType
    BY CurrentType, SubmittedType
  <2>2. nextId' \in Nat /\ presence' = presence /\ controller' = controller
    BY <1>8 DEF SubmitAction, SpendId, TypeOK
  <2> QED
    BY <1>8, <2>1, <2>2, SettleType DEF SubmitAction, TypeOK
<1>9. ASSUME NEW s \in Seats, Disconnect(s)
      PROVE  TypeOK'
  <2>1. [left |-> Watchdog, watchdog |-> TRUE] \in Timing
    BY TimingAssumption DEF Timing, Ticks
  <2>2. decision' \in DecisionType
    BY <1>9, <2>1, RetimedType DEF Disconnect, TypeOK
  <2> QED
    BY <1>9, <2>2 DEF Disconnect, TypeOK, logVars
<1>10. ASSUME NEW s \in Seats, Reconnect(s)
       PROVE  TypeOK'
  <2>1. decision' \in DecisionType
    BY <1>10, TimingType, RetimedType DEF Reconnect, TypeOK
  <2> QED
    BY <1>10, <2>1 DEF Reconnect, TypeOK, logVars
<1>11. ASSUME NEW s \in Seats, SetPermanentAuto(s)
       PROVE  TypeOK'
  BY <1>11, NoDecisionType DEF SetPermanentAuto, TypeOK, logVars
<1>12. CASE UNCHANGED vars
  BY <1>12 DEF vars, TypeOK
<1> QED
  BY <1>1, <1>2, <1>3, <1>4, <1>5, <1>6, <1>7, <1>8, <1>9, <1>10, <1>11, <1>12 DEF Next

\* Type correctness of the machine, for every roster, time control and bound.
THEOREM TypeCorrect == Spec => []TypeOK
BY InitType, NextType, PTL DEF Spec

-----------------------------------------------------------------------------
(* The inductive invariant *)

\* A Decision somebody is still asked to answer.
Waiting(d) ==
  /\ d.id # 0
  /\ ~d.closed
  /\ ~Complete(d)
  /\ \A s \in Seats : d.timedOut[s] => d.answer[s] # NoAction
  /\ \A s \in Seats : d.answer[s] # NoAction => s \in Eligible(d)

\* The response of an automated Seat is in, or due.
Served(d, who) ==
  \A s \in Eligible(d) : who[s] # "Interactive" => d.answer[s] # NoAction \/ Expired(d, s)

\* The engine has something to ask unless the Match is over.
EngineAsks ==
  status = "Running" /\ ~(held.active /\ held.final) => \E s \in Seats : engine.offer[s] # {}

\* A hold belongs to a running Match and gives its terminal events away once.
HoldInv ==
  held.active =>
    /\ status = "Running"
    /\ held.nextStep > held.wins => held.terminal = <<>>

DecisionInv ==
  \/ decision = NoDecision
  \/ Waiting(decision) /\ Running /\ decision.id = nextId - 1

IInv ==
  /\ TypeOK
  /\ nextId > 0
  /\ EngineAsks
  /\ HoldInv
  /\ DecisionInv
  /\ Served(decision, controller)
  /\ TemporaryAutoMeansAway

\* Every way to change an open Decision leaves somebody to answer it, or
\* closes it.
LEMMA NewDecisionWaits ==
  ASSUME NEW id \in Nat \ {0}, NEW kind \in {"Turn", "Response"}, NEW offer \in Offer,
         NEW timing \in [Seats -> Timing], \E s \in Seats : offer[s] # {}
  PROVE  Waiting(NewDecision(id, kind, offer, timing))
BY DEF Waiting, NewDecision, Eligible, Complete

LEMMA SubmittedWaits ==
  ASSUME NEW d \in DecisionType, NEW s \in Seats, NEW a \in Action,
         Waiting(d), CanSubmit(d, s, a), ~Submitted(d, s, a).closed
  PROVE  Waiting(Submitted(d, s, a))
<1>1. NoAction \notin Action
  BY DEF NoAction, Action
<1> QED
  BY <1>1 DEF Waiting, CanSubmit, Submitted, DecisionType, Eligible, Complete

LEMMA TimedOutWaits ==
  ASSUME NEW d \in DecisionType, Waiting(d), ~TimedOutResolution(d).closed
  PROVE  Waiting(TimedOutResolution(d))
<1> DEFINE late == NewlyTimedOut(d)
           e == TimedOutResolution(d)
<1>1. NoAction \notin Action
  BY DEF NoAction, Action
<1>2. /\ e.id = d.id /\ e.offer = d.offer
      /\ e.answer = [s \in Seats |-> IF s \in late THEN DefaultOf(d.offer[s]) ELSE d.answer[s]]
      /\ e.timedOut = [s \in Seats |-> d.timedOut[s] \/ s \in late]
  BY DEF TimedOutResolution, DecisionType
<1>3. ~e.closed
  OBVIOUS
<1>4. late \subseteq Eligible(d)
  BY DEF NewlyTimedOut
<1>5. Eligible(e) = Eligible(d)
  BY <1>2 DEF Eligible
<1> HIDE DEF e, late
<1>6. \A s \in Seats : e.timedOut[s] => e.answer[s] # NoAction
  <2> TAKE s \in Seats
  <2> HAVE e.timedOut[s]
  <2>1. CASE s \in late
    <3>1. s \in Eligible(d) /\ e.answer[s] = DefaultOf(d.offer[s])
      BY <1>2, <1>4, <2>1
    <3>2. DefaultOf(d.offer[s]) \in Action
      BY <3>1, DefaultType
    <3> QED
      BY <1>1, <3>1, <3>2
  <2>2. CASE s \notin late
    <3>1. e.answer[s] = d.answer[s]
      BY <1>2, <2>2
    <3>2. e.timedOut[s] = (d.timedOut[s] \/ s \in late)
      BY <1>2, Zenon
    <3>3. d.timedOut[s]
      BY <2>2, <3>2
    <3> QED
      BY <3>1, <3>3 DEF Waiting
  <2> QED
    BY <2>1, <2>2
<1>7. \A s \in Seats : e.answer[s] # NoAction => s \in Eligible(e)
  BY <1>2, <1>4, <1>5 DEF Waiting
<1>8. ~Complete(e)
  <2>1. CASE late = {}
    <3>1. \A s \in Seats : e.answer[s] = d.answer[s]
      BY <1>2, <2>1
    <3> QED
      BY <1>5, <3>1 DEF Waiting, Complete, Eligible
  <2>2. CASE late # {}
    BY <1>3, <2>2 DEF e, late, TimedOutResolution, Complete, Eligible, DecisionType
  <2> QED
    BY <2>1, <2>2
<1> QED
  BY <1>2, <1>3, <1>6, <1>7, <1>8 DEF e, Waiting

LEMMA RetimedWaits ==
  ASSUME NEW d \in DecisionType, NEW s \in Seats, NEW timing \in Timing, Waiting(d)
  PROVE  Waiting(Retimed(d, s, timing))
BY DEF Waiting, Retimed, DecisionType, Eligible, Complete

LEMMA AgedWaits ==
  ASSUME NEW d \in DecisionType, Waiting(d)
  PROVE  Waiting(Aged(d))
BY DEF Waiting, Aged, DecisionType, Eligible, Complete

LEMMA NobodyWaited == Eligible(NoDecision) = {} /\ NoDecision.id = 0
BY DEF Eligible, NoDecision, EmptyOffer

\* The Decision a response or an expiry pass works on.
LEMMA CurrentWaits ==
  ASSUME IInv, CanDecide
  PROVE  /\ Current \in DecisionType
         /\ Waiting(Current)
         /\ Served(Current, controller)
         /\ Current.id = IF DecisionOpen THEN nextId - 1 ELSE nextId
<1>1. Current \in DecisionType
  BY CurrentType DEF IInv
<1>2. CASE DecisionOpen
  BY <1>1, <1>2, NobodyWaited DEF DecisionOpen, Current, IInv, DecisionInv
<1>3. CASE ~DecisionOpen
  <2> DEFINE kind == KindOf(engine.offer)
             timing == [s \in Seats |-> TimingFor(kind, s, presence[s], controller[s])]
  <2>1. Current = NewDecision(nextId, kind, engine.offer, timing)
    BY <1>3 DEF Current
  <2>2. nextId \in Nat \ {0} /\ engine.offer \in Offer
    BY DEF IInv, TypeOK, EngineState
  <2>3. kind \in {"Turn", "Response"}
    BY DEF KindOf
  <2>4. timing \in [Seats -> Timing]
    BY TimingType
  <2>5. \E s \in Seats : engine.offer[s] # {}
    BY DEF CanDecide, Running, IInv, EngineAsks, Eligible
  <2>6. Waiting(Current)
    BY <2>1, <2>2, <2>3, <2>4, <2>5, NewDecisionWaits
  <2>7. Served(Current, controller)
    BY <2>1 DEF Served, NewDecision, Eligible, Expired, TimingFor
  <2>8. Current.id = nextId
    BY <2>1 DEF NewDecision
  <2> QED
    BY <1>1, <1>3, <2>2, <2>6, <2>7, <2>8
<1> QED
  BY <1>2, <1>3

\* Turns always ask somebody, and so do responses.
LEMMA OffersAsk ==
  ASSUME NEW offer \in Offers
  PROVE  \E s \in Seats : offer[s] # {}
BY DEF Offers, TurnOffers, ResponseOffers, Eligible

LEMMA SettleKeeps ==
  ASSUME IInv, CanDecide, NEW d \in DecisionType, Settle(d),
         ~d.closed => Waiting(d), d.id = nextId' - 1
  PROVE  EngineAsks' /\ HoldInv' /\ DecisionInv'
<1>1. status = "Running" /\ ~held.active
  BY DEF CanDecide, Running
<1>2. CASE ~d.closed
  BY <1>1, <1>2 DEF Settle, IInv, EngineAsks, HoldInv, DecisionInv, Running
<1>3. CASE d.closed
  <2>1. Resolves(d)
    BY <1>3 DEF Settle
  <2>2. decision' = NoDecision
    BY <2>1 DEF Resolves
  <2>3. CASE Continues
    <3>1. PICK offer \in Offers : engine'.offer = offer
      BY <2>3 DEF Continues
    <3> QED
      BY <1>1, <2>2, <2>3, <3>1, OffersAsk DEF Continues, EngineAsks, HoldInv, DecisionInv, Eligible
  <2>4. CASE EndsKyoku
    <3>1. PICK wins \in 0..MaxWins, done \in BOOLEAN, offer \in TurnOffers :
            EndsKyokuWith(wins, done, offer)
      BY <2>4 DEF EndsKyoku
    <3>2. \E s \in Seats : offer[s] # {}
      BY OffersAsk DEF Offers
    <3>3. EngineAsks'
      BY <3>1, <3>2 DEF EndsKyokuWith, EngineAsks, Eligible
    <3>4. HoldInv'
      BY <1>1, <3>1, BoundAssumption DEF EndsKyokuWith, HoldInv
    <3> QED
      BY <2>2, <3>3, <3>4 DEF DecisionInv
  <2>5. CASE EngineFails
    BY <2>2, <2>5 DEF EngineFails, NoHold, EngineAsks, HoldInv, DecisionInv
  <2> QED
    BY <2>1, <2>3, <2>4, <2>5 DEF Resolves
<1> QED
  BY <1>2, <1>3

LEMMA SettleServes ==
  ASSUME NEW d, Settle(d), NEW who, ~d.closed => Served(d, who)
  PROVE  Served(decision', who)
BY NobodyWaited DEF Settle, Resolves, Served

LEMMA InitIInv == Init => IInv
<1> SUFFICES ASSUME Init PROVE IInv
  OBVIOUS
<1>1. TypeOK
  BY InitType
<1>2. EngineAsks
  <2>1. PICK offer \in TurnOffers : engine.offer = offer
    BY DEF Init
  <2> QED
    BY <2>1, OffersAsk DEF EngineAsks, Offers, Eligible
<1>3. HoldInv /\ DecisionInv
  BY DEF Init, HoldInv, NoHold, DecisionInv
<1>4. Served(decision, controller)
  BY NobodyWaited DEF Init, Served
<1>5. TemporaryAutoMeansAway /\ nextId > 0
  BY DEF Init, TemporaryAutoMeansAway
<1> QED
  BY <1>1, <1>2, <1>3, <1>4, <1>5 DEF IInv

\* Steps that open, close and answer nothing.
LEMMA OtherSteps ==
  ASSUME IInv, UNCHANGED <<status, nextId, engine, held>>,
         \/ decision' = decision
         \/ Waiting(decision) /\ Waiting(decision') /\ decision'.id = decision.id
         \/ decision' = NoDecision
  PROVE  nextId' > 0 /\ EngineAsks' /\ HoldInv' /\ DecisionInv'
<1>1. nextId' > 0 /\ EngineAsks' /\ HoldInv'
  BY DEF IInv, EngineAsks, HoldInv
<1>2. DecisionInv'
  BY NobodyWaited DEF IInv, DecisionInv, Running, Waiting
<1> QED
  BY <1>1, <1>2

\* A new time limit for a Seat keeps the Decision waiting, if there is one.
LEMMA RetimedStep ==
  ASSUME IInv, NEW s \in Seats, NEW timing \in Timing,
         decision' \in {decision, Retimed(decision, s, timing)}
  PROVE  \/ decision' = decision
         \/ Waiting(decision) /\ Waiting(decision') /\ decision'.id = decision.id
<1>1. CASE decision = NoDecision
  BY <1>1, NobodyWaited DEF Retimed
<1>2. CASE Waiting(decision)
  <2>1. Waiting(Retimed(decision, s, timing))
    BY <1>2, RetimedWaits DEF IInv, TypeOK
  <2>2. Retimed(decision, s, timing).id = decision.id
    BY DEF Retimed, IInv, TypeOK, DecisionType
  <2> QED
    BY <1>2, <2>1, <2>2
<1> QED
  BY <1>1, <1>2 DEF IInv, DecisionInv

\* Every step keeps the invariant.
LEMMA NextIInv == IInv /\ [Next]_vars => IInv'
<1> SUFFICES ASSUME IInv, [Next]_vars PROVE IInv'
  OBVIOUS
<1>0. TypeOK'
  BY NextType DEF IInv
<1>1. CASE OpenDecision
  <2>1. /\ Waiting(decision') /\ Served(decision', controller)
        /\ decision'.id = nextId' - 1 /\ nextId' = nextId + 1
    BY <1>1, CurrentWaits DEF OpenDecision, SpendId, IInv, TypeOK
  <2>2. EngineAsks' /\ HoldInv' /\ DecisionInv'
    BY <1>1, <2>1 DEF OpenDecision, IInv, EngineAsks, HoldInv, DecisionInv, CanDecide, Running
  <2> QED
    BY <1>0, <1>1, <2>1, <2>2 DEF OpenDecision, IInv, TypeOK, TemporaryAutoMeansAway
<1>2. CASE NoSafeDefault
  <2>1. decision = NoDecision
    BY <1>2 DEF NoSafeDefault, IInv, DecisionInv, Waiting, DecisionOpen
  <2>2. EngineAsks' /\ HoldInv' /\ DecisionInv'
    BY <1>2, <2>1 DEF NoSafeDefault, Running, EngineAsks, HoldInv, DecisionInv
  <2> QED
    BY <1>0, <1>2, <2>2 DEF NoSafeDefault, IInv, TypeOK, TemporaryAutoMeansAway
<1>3. CASE ResolveExpired
  <2> DEFINE d == TimedOutResolution(Current)
  <2>1. /\ Current \in DecisionType /\ Waiting(Current)
        /\ Served(Current, controller) /\ Current.id = nextId' - 1
    BY <1>3, CurrentWaits DEF ResolveExpired, SpendId, IInv, TypeOK
  <2>2. d \in DecisionType /\ d.id = Current.id
    BY <2>1, TimedOutType DEF TimedOutResolution, DecisionType
  <2>3. ~d.closed => Waiting(d)
    BY <2>1, TimedOutWaits
  <2>4. ~d.closed => Served(d, controller')
    <3>1. SUFFICES ASSUME ~d.closed, NEW s \in Eligible(d), controller'[s] # "Interactive",
                          d.answer[s] = NoAction
                   PROVE  Expired(d, s)
      BY DEF Served
    <3>2. ~d.timedOut[s]
      BY <2>3, <3>1 DEF Waiting, Eligible
    <3>3. controller[s] # "Interactive"
      BY <1>3, <3>1, <3>2 DEF ResolveExpired, Eligible
    <3>4. d.left = Current.left /\ d.offer = Current.offer
      BY <2>1 DEF TimedOutResolution, DecisionType
    <3>5. Current.answer[s] = NoAction
      <4>1. Current.answer[s] # NoAction => d.answer[s] = Current.answer[s]
        BY <2>1, <3>1 DEF TimedOutResolution, NewlyTimedOut, DecisionType, Eligible
      <4> QED
        BY <3>1, <4>1
    <3> QED
      BY <2>1, <3>1, <3>3, <3>4, <3>5 DEF Served, Eligible, Expired
  <2>5. CanDecide /\ Settle(d)
    BY <1>3 DEF ResolveExpired
  <2>6. EngineAsks' /\ HoldInv' /\ DecisionInv'
    BY <2>1, <2>2, <2>3, <2>5, SettleKeeps
  <2>7. Served(decision', controller')
    BY <2>4, <2>5, SettleServes
  <2>8. TemporaryAutoMeansAway'
    BY <1>3 DEF ResolveExpired, IInv, TemporaryAutoMeansAway
  <2>9. nextId' > 0
    BY <1>3 DEF ResolveExpired, SpendId, IInv, TypeOK
  <2> QED
    BY <1>0, <2>6, <2>7, <2>8, <2>9 DEF IInv
<1>4. CASE PublishKyokuStep
  <2>1. /\ held.active /\ held'.active = held.active /\ held'.final = held.final
        /\ held'.wins = held.wins /\ held'.nextStep = held.nextStep + 1
        /\ held'.terminal = IF held.nextStep = held.wins THEN <<>> ELSE held.terminal
    BY <1>4 DEF PublishKyokuStep, IInv, TypeOK, Hold
  <2>2. HoldInv'
    BY <1>4, <2>1 DEF PublishKyokuStep, IInv, HoldInv, TypeOK, Hold
  <2>3. EngineAsks' /\ DecisionInv'
    BY <1>4, <2>1 DEF PublishKyokuStep, IInv, EngineAsks, DecisionInv, Running, decisionVars
  <2> QED
    BY <1>0, <1>4, <2>2, <2>3
    DEF PublishKyokuStep, IInv, Served, TemporaryAutoMeansAway, decisionVars
<1>5. CASE ReleaseKyoku
  <2>1. HoldInv' /\ DecisionInv'
    BY <1>5 DEF ReleaseKyoku, NoHold, IInv, HoldInv, DecisionInv, Running, decisionVars
  <2>2. EngineAsks'
    BY <1>5 DEF ReleaseKyoku, NoHold, IInv, EngineAsks, TypeOK, Hold
  <2> QED
    BY <1>0, <1>5, <2>1, <2>2
    DEF ReleaseKyoku, IInv, Served, TemporaryAutoMeansAway, decisionVars
<1>6. CASE TakePersistenceEvents
  BY <1>0, <1>6
  DEF TakePersistenceEvents, IInv, EngineAsks, HoldInv, DecisionInv, Running, Served,
      TemporaryAutoMeansAway, decisionVars
<1>7. CASE Tick
  <2>1. Waiting(decision)
    <3>1. decision # NoDecision
      BY <1>7 DEF Tick, NoDecision, Never
    <3> QED
      BY <3>1 DEF IInv, DecisionInv
  <2>2. Waiting(decision') /\ decision'.id = decision.id
    BY <1>7, <2>1, AgedWaits DEF Tick, Aged, IInv, TypeOK, DecisionType
  <2>3. Served(decision', controller)
    BY <1>7 DEF Tick, Aged, IInv, TypeOK, DecisionType, Served, Eligible, Expired
  <2> QED
    BY <1>0, <1>7, <2>1, <2>2, <2>3, OtherSteps DEF Tick, IInv, TemporaryAutoMeansAway
<1>8. ASSUME NEW s \in Seats, NEW id \in 1..nextId, NEW a \in Action, SubmitAction(s, id, a)
      PROVE  IInv'
  <2> DEFINE d == Submitted(Current, s, a)
  <2>1. /\ Current \in DecisionType /\ Waiting(Current)
        /\ Served(Current, controller) /\ Current.id = nextId' - 1
    BY <1>8, CurrentWaits DEF SubmitAction, SpendId, IInv, TypeOK
  <2>2. d \in DecisionType /\ d.id = Current.id
    BY <2>1, SubmittedType DEF Submitted, DecisionType
  <2>3. ~d.closed => Waiting(d)
    BY <1>8, <2>1, SubmittedWaits DEF SubmitAction
  <2>4. Served(d, controller)
    <3>1. NoAction \notin Action
      BY DEF NoAction, Action
    <3> QED
      BY <2>1, <3>1 DEF Served, Submitted, DecisionType, Eligible, Expired
  <2>5. CanDecide /\ Settle(d)
    BY <1>8 DEF SubmitAction
  <2>6. EngineAsks' /\ HoldInv' /\ DecisionInv'
    BY <2>1, <2>2, <2>3, <2>5, SettleKeeps
  <2>7. Served(decision', controller)
    BY <2>4, <2>5, SettleServes
  <2>8. nextId' > 0
    BY <1>8 DEF SubmitAction, SpendId, IInv, TypeOK
  <2> QED
    BY <1>0, <1>8, <2>6, <2>7, <2>8 DEF SubmitAction, IInv, TemporaryAutoMeansAway
<1>9. ASSUME NEW s \in Seats, Disconnect(s)
      PROVE  IInv'
  <2> DEFINE timing == [left |-> Watchdog, watchdog |-> TRUE]
  <2>1. timing \in Timing
    BY TimingAssumption DEF Timing, Ticks
  <2>2. decision' \in {decision, Retimed(decision, s, timing)}
    BY <1>9 DEF Disconnect
  <2>3. nextId' > 0 /\ EngineAsks' /\ HoldInv' /\ DecisionInv'
    BY <1>9, <2>1, <2>2, RetimedStep, OtherSteps DEF Disconnect
  <2>4. Served(decision', controller)
    BY <1>9 DEF Disconnect, IInv, TypeOK, DecisionType, Served, Retimed, Eligible, Expired
  <2>5. TemporaryAutoMeansAway'
    BY <1>9 DEF Disconnect, IInv, TypeOK, TemporaryAutoMeansAway
  <2> QED
    BY <1>0, <1>9, <2>3, <2>4, <2>5 DEF Disconnect, IInv
<1>10. ASSUME NEW s \in Seats, Reconnect(s)
       PROVE  IInv'
  <2> DEFINE timing == TimingFor(decision.kind, s, "Connected", controller'[s])
  <2>1. timing \in Timing
    BY TimingType
  <2>2. decision' \in {decision, Retimed(decision, s, timing)}
    BY <1>10 DEF Reconnect
  <2>3. nextId' > 0 /\ EngineAsks' /\ HoldInv' /\ DecisionInv'
    BY <1>10, <2>1, <2>2, RetimedStep, OtherSteps DEF Reconnect
  <2>4. \A t \in Seats : controller'[t] # "Interactive" => controller'[t] = controller[t]
    BY <1>10 DEF Reconnect, IInv, TypeOK
  <2>5. controller'[s] # "Interactive" => timing.left = 0
    BY DEF TimingFor
  <2> HIDE DEF timing
  <2>6. Served(decision', controller')
    <3>1. CASE decision' = decision
      BY <2>4, <3>1 DEF IInv, Served, Eligible, Expired
    <3>2. CASE decision' = Retimed(decision, s, timing)
      BY <2>4, <2>5, <3>2 DEF IInv, TypeOK, DecisionType, Served, Retimed, Eligible, Expired
    <3> QED
      BY <2>2, <3>1, <3>2
  <2>7. TemporaryAutoMeansAway'
    <3>1. controller'[s] # "TemporaryAuto"
      BY <1>10 DEF Reconnect, IInv, TypeOK
    <3> QED
      BY <1>10, <2>4, <3>1 DEF Reconnect, IInv, TypeOK, TemporaryAutoMeansAway
  <2> QED
    BY <1>0, <2>3, <2>6, <2>7 DEF IInv
<1>11. ASSUME NEW s \in Seats, SetPermanentAuto(s)
       PROVE  IInv'
  <2>1. nextId' > 0 /\ EngineAsks' /\ HoldInv' /\ DecisionInv'
    BY <1>11, OtherSteps DEF SetPermanentAuto
  <2>2. Served(decision', controller')
    BY <1>11, NobodyWaited DEF SetPermanentAuto, Served
  <2>3. TemporaryAutoMeansAway'
    BY <1>11 DEF SetPermanentAuto, IInv, TypeOK, TemporaryAutoMeansAway
  <2> QED
    BY <1>0, <2>1, <2>2, <2>3 DEF IInv
<1>12. CASE UNCHANGED vars
  BY <1>0, <1>12
  DEF vars, IInv, EngineAsks, HoldInv, DecisionInv, Running, Served, TemporaryAutoMeansAway
<1> QED
  BY <1>1, <1>2, <1>3, <1>4, <1>5, <1>6, <1>7, <1>8, <1>9, <1>10, <1>11, <1>12 DEF Next

THEOREM Invariance == Spec => []IInv
BY InitIInv, NextIInv, PTL DEF Spec

-----------------------------------------------------------------------------
(* The safety properties *)

\* An open Decision of a running Match always waits for somebody: no response,
\* timeout, reconnect or conversion leaves a complete Decision unapplied.
THEOREM DecisionWaits == Spec => []OpenDecisionWaits
<1>1. IInv => OpenDecisionWaits
  BY NobodyWaited DEF IInv, TypeOK, DecisionType, DecisionInv, Waiting, OpenDecisionWaits, DecisionOpen
<1> QED
  BY <1>1, Invariance, PTL

\* Nobody ever waits for a Seat that is played automatically.
THEOREM AutomationNeverBlocks == Spec => []AutomatedSeatNeverWaited
<1>1. IInv => AutomatedSeatNeverWaited
  BY DEF IInv, Served, AutomatedSeatNeverWaited, Automated
<1> QED
  BY <1>1, Invariance, PTL

\* Temporary Auto is given back on every reconnect.
THEOREM TemporaryAutoAway == Spec => []TemporaryAutoMeansAway
<1>1. IInv => TemporaryAutoMeansAway
  BY DEF IInv
<1> QED
  BY <1>1, Invariance, PTL

\* No step takes a Seat off Permanent Auto.
THEOREM PermanentAutoStays == Spec => PermanentAutoIsPermanent
<1> DEFINE Kept == \A s \in Seats : controller[s] = "PermanentAuto" => controller'[s] = "PermanentAuto"
<1>1. TypeOK /\ [Next]_vars => [Kept]_vars
  <2> SUFFICES ASSUME TypeOK, [Next]_vars PROVE Kept
    OBVIOUS
  <2>1. CASE controller' = controller
    BY <2>1
  <2>2. CASE ResolveExpired
    BY <2>2 DEF ResolveExpired, TypeOK
  <2>3. ASSUME NEW s \in Seats, Reconnect(s) \/ SetPermanentAuto(s)
        PROVE  Kept
    BY <2>3 DEF Reconnect, SetPermanentAuto, TypeOK
  <2> QED
    BY <2>1, <2>2, <2>3
    DEF Next, OpenDecision, NoSafeDefault, PublishKyokuStep, ReleaseKyoku,
        TakePersistenceEvents, Tick, SubmitAction, Disconnect, vars
<1> QED
  BY <1>1, TypeCorrect, PTL DEF Spec, PermanentAutoIsPermanent

-----------------------------------------------------------------------------
(* The replay and the public log *)

LEMMA Assoc ==
  \A r, s, t \in Seq(Event) :
    r \o s \in Seq(Event) /\ (r \o s) \o t = r \o (s \o t)
BY ConcatAssociative, ConcatProperties

LEMMA AppendAfter ==
  \A r, s \in Seq(Event), e \in Event :
    <<e>> \in Seq(Event) /\ Append(r, e) = r \o <<e>> /\ r \o Append(s, e) = Append(r \o s, e)
<1> SUFFICES ASSUME NEW r \in Seq(Event), NEW s \in Seq(Event), NEW e \in Event
             PROVE  <<e>> \in Seq(Event) /\ Append(r, e) = r \o <<e>>
                    /\ r \o Append(s, e) = Append(r \o s, e)
  OBVIOUS
<1>1. <<e>> \in Seq(Event) /\ r \o s \in Seq(Event)
  BY ConcatProperties
<1>2. /\ Append(r, e) = r \o <<e>>
      /\ Append(s, e) = s \o <<e>>
      /\ Append(r \o s, e) = (r \o s) \o <<e>>
  BY <1>1, AppendIsConcat
<1> QED
  BY <1>1, <1>2, Assoc

\* Nothing is withheld outside a hold, and a hold is the end of the pending
\* events.
LEMMA SettleJournals ==
  ASSUME IInv, JournalIsPublicPlusWithheld, CanDecide, NEW d, Settle(d)
  PROVE  JournalIsPublicPlusWithheld'
<1>1. status = "Running" /\ ~held.active
  BY DEF CanDecide, Running
<1>2. journal \o pending = events
  BY <1>1, ConcatEmptySeq DEF JournalIsPublicPlusWithheld, Withheld, IInv, TypeOK
<1>3. CASE ~d.closed
  BY <1>3 DEF Settle, JournalIsPublicPlusWithheld, Withheld, logVars
<1>4. CASE d.closed
  <2>1. Resolves(d) /\ journal' = journal
    BY <1>4 DEF Settle, Resolves
  <2>2. engine.kyoku \in Nat /\ Ev("play", engine.kyoku) \in Event
    BY EventType DEF IInv, TypeOK, EngineState
  <2>3. CASE Continues
    <3>1. journal' \o pending' = events' /\ events' \in Seq(Event)
      BY <1>2, <2>1, <2>2, <2>3, AppendAfter DEF Continues, IInv, TypeOK
    <3>2. Withheld' = <<>>
      BY <1>1, <2>3 DEF Continues, Withheld
    <3> QED
      BY <3>1, <3>2, ConcatEmptySeq DEF JournalIsPublicPlusWithheld
  <2>4. CASE EndsKyoku
    <3>1. PICK wins \in 0..MaxWins, done \in BOOLEAN, offer \in TurnOffers :
            EndsKyokuWith(wins, done, offer)
      BY <2>4 DEF EndsKyoku
    <3> DEFINE public == <<Ev("play", engine.kyoku)>>
               terminal == Terminal(wins, engine.kyoku)
               future == Future(engine.kyoku, done)
    <3>2. wins \in Nat
      BY BoundAssumption
    <3>3. public \in Seq(Event) /\ terminal \in Seq(Event) /\ future \in Seq(Event)
      <4>1. public \in Seq(Event)
        BY <2>2
      <4>2. terminal \in Seq(Event)
        BY <2>2, <3>2, TerminalType
      <4>3. future \in Seq(Event)
        BY <2>2, FutureType
      <4> QED
        BY <4>1, <4>2, <4>3
    <3>4. /\ events' = events \o public
          /\ pending' = pending \o (public \o (terminal \o future))
          /\ Withheld' = terminal \o future
      BY <3>1 DEF EndsKyokuWith, Withheld
    <3>5. terminal \o future \in Seq(Event)
      BY <3>3, Assoc
    <3>6. public \o (terminal \o future) \in Seq(Event)
      BY <3>3, <3>5, Assoc
    <3> HIDE DEF public, terminal, future
    <3>7. journal' \o pending' = (journal \o pending) \o (public \o (terminal \o future))
      <4> DEFINE new == public \o (terminal \o future)
      <4>1. journal \in Seq(Event) /\ pending \in Seq(Event) /\ new \in Seq(Event)
        BY <3>6 DEF IInv, TypeOK
      <4>2. journal' \o pending' = journal \o (pending \o new)
        BY <2>1, <3>4
      <4> HIDE DEF new
      <4>3. journal \o (pending \o new) = (journal \o pending) \o new
        BY <4>1, Assoc
      <4> QED
        BY <4>2, <4>3 DEF new
    <3>8. events' \o Withheld' = events \o (public \o (terminal \o future))
      <4> DEFINE withheld == terminal \o future
      <4>1. events \in Seq(Event) /\ withheld \in Seq(Event)
        BY <3>5 DEF IInv, TypeOK
      <4>2. events' = events \o public /\ Withheld' = withheld
        BY <3>4
      <4> HIDE DEF withheld
      <4>3. (events \o public) \o withheld = events \o (public \o withheld)
        BY <3>3, <4>1, Assoc
      <4> QED
        BY <4>2, <4>3 DEF withheld
    <3> QED
      BY <1>2, <3>7, <3>8 DEF JournalIsPublicPlusWithheld
  <2>5. CASE EngineFails
    BY <2>5 DEF EngineFails, JournalIsPublicPlusWithheld
  <2> QED
    BY <2>1, <2>3, <2>4, <2>5 DEF Resolves
<1> QED
  BY <1>3, <1>4

LEMMA NextJournals == IInv /\ JournalIsPublicPlusWithheld /\ [Next]_vars => JournalIsPublicPlusWithheld'
<1> SUFFICES ASSUME IInv, JournalIsPublicPlusWithheld, [Next]_vars
             PROVE  JournalIsPublicPlusWithheld'
  OBVIOUS
<1>1. CASE PublishKyokuStep
  <2>1. status = "Running" /\ held.terminal \in Seq(Event) /\ held.future \in Seq(Event)
    BY <1>1 DEF PublishKyokuStep, IInv, HoldInv, TypeOK, Hold
  <2>2. journal \o pending = events \o (held.terminal \o held.future)
    BY <1>1, <2>1 DEF PublishKyokuStep, JournalIsPublicPlusWithheld, Withheld
  <2>3. held'.active /\ held'.future = held.future
        /\ held'.terminal = IF held.nextStep = held.wins THEN <<>> ELSE held.terminal
    BY <1>1 DEF PublishKyokuStep, IInv, TypeOK, Hold
  <2>4. events' \o Withheld' = events \o (held.terminal \o held.future)
    <3>1. CASE held.nextStep = held.wins
      <4>1. events' = events \o held.terminal
        BY <1>1, <3>1 DEF PublishKyokuStep
      <4>2. Withheld' = held'.terminal \o held'.future
        BY <2>3 DEF Withheld
      <4>3. held'.terminal = <<>>
        BY <2>3, <3>1
      <4>4. held'.terminal \o held.future = held.future
        BY <2>1, <4>3, ConcatEmptySeq, Zenon
      <4>5. (events \o held.terminal) \o held.future = events \o (held.terminal \o held.future)
        <5>1. events \in Seq(Event)
          BY DEF IInv, TypeOK
        <5> QED
          BY <2>1, <5>1, Assoc, Zenon
      <4> QED
        BY <2>3, <4>1, <4>2, <4>4, <4>5
    <3>2. CASE held.nextStep # held.wins
      BY <1>1, <2>3, <3>2 DEF PublishKyokuStep, Withheld
    <3> QED
      BY <3>1, <3>2
  <2> QED
    BY <1>1, <2>2, <2>4 DEF PublishKyokuStep, JournalIsPublicPlusWithheld
<1>2. CASE ReleaseKyoku
  <2>1. status = "Running" /\ held.terminal = <<>> /\ held.future \in Seq(Event)
    BY <1>2 DEF ReleaseKyoku, IInv, HoldInv, TypeOK, Hold
  <2>2. journal \o pending = events \o held.future
    BY <1>2, <2>1, ConcatEmptySeq DEF ReleaseKyoku, JournalIsPublicPlusWithheld, Withheld
  <2>3. Withheld' = <<>> /\ events' = events \o held.future
    BY <1>2 DEF ReleaseKyoku, Withheld, NoHold
  <2>4. events' \o Withheld' = events'
    BY <2>1, <2>3, Assoc, ConcatEmptySeq DEF IInv, TypeOK
  <2> QED
    BY <1>2, <2>2, <2>3, <2>4 DEF ReleaseKyoku, JournalIsPublicPlusWithheld
<1>3. CASE TakePersistenceEvents
  <2>1. journal' \o pending' = journal \o pending
    BY <1>3, Assoc, ConcatEmptySeq DEF TakePersistenceEvents, IInv, TypeOK
  <2> QED
    BY <1>3, <2>1 DEF TakePersistenceEvents, JournalIsPublicPlusWithheld, Withheld
<1>4. ASSUME NEW d, CanDecide, Settle(d) PROVE JournalIsPublicPlusWithheld'
  BY <1>4, SettleJournals
<1>5. CASE status' \in {status, "Aborted"} /\ UNCHANGED <<held, logVars>>
  BY <1>5 DEF JournalIsPublicPlusWithheld, Withheld, logVars
<1>6. CASE ResolveExpired
  BY <1>4, <1>6 DEF ResolveExpired
<1>7. ASSUME NEW s \in Seats, NEW id, NEW a, SubmitAction(s, id, a)
      PROVE  JournalIsPublicPlusWithheld'
  BY <1>4, <1>7 DEF SubmitAction
<1> QED
  BY <1>1, <1>2, <1>3, <1>5, <1>6, <1>7
  DEF Next, OpenDecision, NoSafeDefault, Tick, Disconnect, Reconnect, SetPermanentAuto, vars,
      logVars

\* What the Room hands to the replay is always the public log followed by
\* exactly the withheld end of the held Kyoku (match_machine.rs record_outcome,
\* publish_kyoku_step, release_kyoku).
THEOREM ReplayFollowsPublicLog == Spec => []JournalIsPublicPlusWithheld
<1>1. Init => JournalIsPublicPlusWithheld
  <2> SUFFICES ASSUME Init PROVE JournalIsPublicPlusWithheld
    OBVIOUS
  <2>1. journal = events /\ pending = <<>> /\ Withheld = <<>> /\ events \in Seq(Event)
    BY InitType DEF Init, Withheld, NoHold, TypeOK
  <2> QED
    BY <2>1 DEF JournalIsPublicPlusWithheld
<1> QED
  BY <1>1, NextJournals, Invariance, PTL DEF Spec

-----------------------------------------------------------------------------
(* What a held Kyoku withholds *)

StartsOf(log) == {i \in DOMAIN log : log[i].type = "start_kyoku"}

\* The Kyoku up to k have been started in the log, and no later one is named.
StartedUpTo(log, k) ==
  /\ Cardinality(StartsOf(log)) = k
  /\ \A i \in DOMAIN log : log[i].kyoku <= k

\* Of Kyoku k only its start and its play are in the log.
OpenAt(log, k) ==
  \A i \in DOMAIN log : log[i].kyoku = k => log[i].type \in {"start_kyoku", "play"}

\* The public log is open at the engine's Kyoku, and while a Kyoku is held at
\* that one until its settlement; the engine may already be a Kyoku ahead.
LogInv ==
  /\ Running => StartedUpTo(events, engine.kyoku) /\ OpenAt(events, engine.kyoku)
  /\ held.active =>
       /\ StartedUpTo(events, held.seq)
       /\ held.future = Future(held.seq, held.final)
       /\ ~held.final => engine.kyoku = held.seq + 1
       /\ held.nextStep <= held.wins =>
            OpenAt(events, held.seq) /\ held.terminal = Terminal(held.wins, held.seq)

LEMMA StartsFinite ==
  ASSUME NEW log \in Seq(Event)
  PROVE  IsFiniteSet(StartsOf(log)) /\ Cardinality(StartsOf(log)) \in Nat
<1>1. Len(log) \in Nat /\ DOMAIN log = 1..Len(log)
  BY LenProperties
<1>2. IsFiniteSet(DOMAIN log)
  BY <1>1, FS_Interval
<1>3. StartsOf(log) \in SUBSET (DOMAIN log)
  BY DEF StartsOf
<1> QED
  BY <1>2, <1>3, FS_Subset, FS_CardinalityType

\* Positions of a concatenation.
LEMMA Positions ==
  ASSUME NEW r \in Seq(Event), NEW s \in Seq(Event)
  PROVE  /\ \A i \in DOMAIN r : i \in DOMAIN (r \o s) /\ (r \o s)[i] = r[i]
         /\ \A i \in DOMAIN (r \o s) :
              i \in DOMAIN r \/ \E j \in DOMAIN s : i = Len(r) + j /\ (r \o s)[i] = s[j]
<1>1. /\ Len(r) \in Nat /\ DOMAIN r = 1..Len(r)
      /\ Len(s) \in Nat /\ DOMAIN s = 1..Len(s)
  BY LenProperties
<1>2. r \o s \in Seq(Event) /\ Len(r \o s) = Len(r) + Len(s)
  BY ConcatProperties
<1>3. DOMAIN (r \o s) = 1..(Len(r) + Len(s))
  BY <1>2, LenProperties
<1>4. \A i \in 1..(Len(r) + Len(s)) :
        (r \o s)[i] = IF i <= Len(r) THEN r[i] ELSE s[i - Len(r)]
  BY ConcatProperties
<1>5. \A i \in DOMAIN r : i \in DOMAIN (r \o s) /\ (r \o s)[i] = r[i]
  BY <1>1, <1>3, <1>4
<1>6. ASSUME NEW i \in DOMAIN (r \o s), i \notin DOMAIN r
      PROVE  \E j \in DOMAIN s : i = Len(r) + j /\ (r \o s)[i] = s[j]
  <2>1. i - Len(r) \in DOMAIN s /\ i = Len(r) + (i - Len(r)) /\ ~(i <= Len(r))
    BY <1>1, <1>3, <1>6
  <2> QED
    BY <1>3, <1>4, <1>6, <2>1
<1> QED
  BY <1>5, <1>6

\* Events of Kyoku k that start nothing leave the count; play leaves it open.
LEMMA QuietConcat ==
  ASSUME NEW log \in Seq(Event), NEW new \in Seq(Event), NEW k \in Nat,
         StartedUpTo(log, k),
         \A j \in DOMAIN new : new[j].kyoku = k /\ new[j].type # "start_kyoku"
  PROVE  /\ StartedUpTo(log \o new, k)
         /\ OpenAt(log, k) /\ (\A j \in DOMAIN new : new[j].type = "play") => OpenAt(log \o new, k)
<1>1. StartsOf(log \o new) = StartsOf(log)
  <2>1. ASSUME NEW i \in StartsOf(log) PROVE i \in StartsOf(log \o new)
    BY <2>1, Positions DEF StartsOf
  <2>2. ASSUME NEW i \in StartsOf(log \o new) PROVE i \in StartsOf(log)
    <3>1. i \in DOMAIN log
      BY <2>2, Positions DEF StartsOf
    <3> QED
      BY <2>2, <3>1, Positions DEF StartsOf
  <2> QED
    BY <2>1, <2>2
<1>2. \A i \in DOMAIN (log \o new) : (log \o new)[i].kyoku <= k
  <2> SUFFICES ASSUME NEW i \in DOMAIN (log \o new) PROVE (log \o new)[i].kyoku <= k
    OBVIOUS
  <2>1. CASE i \in DOMAIN log
    BY <2>1, Positions DEF StartedUpTo
  <2>2. CASE \E j \in DOMAIN new : (log \o new)[i] = new[j]
    BY <2>2
  <2> QED
    BY <2>1, <2>2, Positions
<1>3. ASSUME OpenAt(log, k), \A j \in DOMAIN new : new[j].type = "play"
      PROVE  OpenAt(log \o new, k)
  <2> SUFFICES ASSUME NEW i \in DOMAIN (log \o new), (log \o new)[i].kyoku = k
               PROVE  (log \o new)[i].type \in {"start_kyoku", "play"}
    BY DEF OpenAt
  <2>1. CASE i \in DOMAIN log
    BY <1>3, <2>1, Positions DEF OpenAt
  <2>2. CASE \E j \in DOMAIN new : (log \o new)[i] = new[j]
    BY <1>3, <2>2
  <2> QED
    BY <2>1, <2>2, Positions
<1> QED
  BY <1>1, <1>2, <1>3 DEF StartedUpTo

\* The start of the next Kyoku is one more start, and opens the log at it.
LEMMA StartConcat ==
  ASSUME NEW log \in Seq(Event), NEW k \in Nat, StartedUpTo(log, k)
  PROVE  LET started == log \o <<Ev("start_kyoku", k + 1)>>
         IN  StartedUpTo(started, k + 1) /\ OpenAt(started, k + 1)
<1> DEFINE new == <<Ev("start_kyoku", k + 1)>>
           started == log \o new
           n == Len(log) + 1
<1>1. new \in Seq(Event) /\ DOMAIN new = {1} /\ new[1] = Ev("start_kyoku", k + 1)
  BY EventType
<1>2. new[1].type = "start_kyoku" /\ new[1].kyoku = k + 1
  BY <1>1 DEF Ev
<1>3. Len(log) \in Nat /\ DOMAIN log = 1..Len(log) /\ n \notin DOMAIN log
  BY LenProperties
<1>4. n \in DOMAIN started /\ started[n] = new[1]
  <2>1. Len(new) = 1 /\ Len(started) = n /\ started \in Seq(Event)
    BY <1>1, ConcatProperties
  <2>2. DOMAIN started = 1..n
    BY <2>1, LenProperties
  <2>3. n \in DOMAIN started
    BY <1>3, <2>2
  <2> QED
    BY <1>1, <1>3, <2>3, Positions
<1> HIDE DEF new, started, n
<1>5. \A i \in DOMAIN started : i \in DOMAIN log \/ i = n
  BY <1>1, Positions DEF started, n
<1>6. \A i \in DOMAIN log : i \in DOMAIN started /\ started[i] = log[i]
  BY <1>1, Positions DEF started
<1>7. StartsOf(started) = StartsOf(log) \cup {n}
  BY <1>2, <1>4, <1>5, <1>6 DEF StartsOf
<1>8. Cardinality(StartsOf(started)) = k + 1
  <2>1. IsFiniteSet(StartsOf(log)) /\ n \notin StartsOf(log)
    BY <1>3, StartsFinite DEF StartsOf
  <2> QED
    BY <1>7, <2>1, FS_AddElement DEF StartedUpTo
<1>9. \A i \in DOMAIN log : log[i].kyoku \in Nat /\ log[i].kyoku <= k
  <2>1. \A i \in DOMAIN log : log[i] \in Event
    BY ElementOfSeq, <1>3
  <2> QED
    BY <2>1 DEF Event, StartedUpTo
<1>10. \A i \in DOMAIN started : started[i].kyoku <= k + 1
  BY <1>2, <1>4, <1>5, <1>6, <1>9
<1>11. OpenAt(started, k + 1)
  BY <1>2, <1>4, <1>5, <1>6, <1>9 DEF OpenAt
<1> QED
  BY <1>8, <1>10, <1>11 DEF StartedUpTo, started, new

\* A win or a draw, and what follows EndKyoku, belong to the Kyoku that ended.
LEMMA TerminalQuiet ==
  ASSUME NEW wins \in Nat, NEW k \in Nat
  PROVE  \A j \in DOMAIN Terminal(wins, k) :
           Terminal(wins, k)[j].kyoku = k /\ Terminal(wins, k)[j].type # "start_kyoku"
BY DEF Terminal, Ev

LEMMA FutureConcat ==
  ASSUME NEW log \in Seq(Event), NEW k \in Nat, StartedUpTo(log, k)
  PROVE  /\ StartedUpTo(log \o Future(k, FALSE), k + 1)
         /\ OpenAt(log \o Future(k, FALSE), k + 1)
<1> DEFINE end == <<Ev("end_kyoku", k)>>
           start == <<Ev("start_kyoku", k + 1)>>
<1>1. end \in Seq(Event) /\ start \in Seq(Event)
  BY EventType
<1>2. Future(k, FALSE) = end \o start
  BY DEF Future
<1>3. \A j \in DOMAIN end : end[j].kyoku = k /\ end[j].type # "start_kyoku"
  BY DEF Ev
<1> HIDE DEF end
<1>4. log \o end \in Seq(Event) /\ StartedUpTo(log \o end, k)
  BY <1>1, <1>3, QuietConcat, Assoc
<1> HIDE DEF start
<1>5. log \o Future(k, FALSE) = (log \o end) \o start
  <2>1. (log \o end) \o start = log \o (end \o start)
    BY <1>1, Assoc, Zenon
  <2> QED
    BY <1>2, <2>1, Zenon
<1> QED
  BY <1>4, <1>5, StartConcat DEF start

LEMMA PlayConcat ==
  ASSUME NEW log \in Seq(Event), NEW k \in Nat, StartedUpTo(log, k), OpenAt(log, k)
  PROVE  /\ StartedUpTo(log \o <<Ev("play", k)>>, k)
         /\ OpenAt(log \o <<Ev("play", k)>>, k)
<1> DEFINE new == <<Ev("play", k)>>
<1>1. new \in Seq(Event)
  BY EventType
<1>2. \A j \in DOMAIN new : new[j].kyoku = k /\ new[j].type = "play"
  BY DEF Ev
<1> HIDE DEF new
<1> QED
  BY <1>1, <1>2, QuietConcat DEF new

LEMMA SettleLogs ==
  ASSUME IInv, LogInv, CanDecide, NEW d, Settle(d)
  PROVE  LogInv'
<1>1. /\ StartedUpTo(events, engine.kyoku) /\ OpenAt(events, engine.kyoku)
      /\ status = "Running" /\ ~held.active
      /\ engine.kyoku \in Nat /\ events \in Seq(Event)
  BY DEF CanDecide, Running, LogInv, IInv, TypeOK, EngineState
<1>2. CASE ~d.closed
  BY <1>2 DEF Settle, LogInv, Running, logVars
<1>3. CASE d.closed
  <2>1. Resolves(d)
    BY <1>3 DEF Settle
  <2>2. CASE Continues
    <3>1. engine'.kyoku = engine.kyoku /\ ~held'.active
      BY <1>1, <2>2 DEF Continues
    <3>2. events' = events \o <<Ev("play", engine.kyoku)>>
      BY <1>1, <2>2, EventType, AppendAfter DEF Continues
    <3> QED
      BY <1>1, <3>1, <3>2, PlayConcat DEF LogInv
  <2>3. CASE EndsKyoku
    <3>1. PICK wins \in 0..MaxWins, done \in BOOLEAN, offer \in TurnOffers :
            EndsKyokuWith(wins, done, offer)
      BY <2>3 DEF EndsKyoku
    <3>2. /\ held' = [active |-> TRUE, wins |-> wins, nextStep |-> 0, seq |-> Sequence,
                      terminal |-> Terminal(wins, engine.kyoku),
                      future |-> Future(engine.kyoku, done), final |-> done]
          /\ events' = events \o <<Ev("play", engine.kyoku)>>
          /\ ~done => engine'.kyoku = engine.kyoku + 1
      BY <3>1 DEF EndsKyokuWith
    <3>3. Sequence = engine.kyoku
      BY <1>1 DEF Sequence, StartedUpTo, StartsOf
    <3>4. StartedUpTo(events', engine.kyoku) /\ OpenAt(events', engine.kyoku)
      BY <1>1, <3>2, PlayConcat
    <3>5. /\ held'.active /\ held'.seq = engine.kyoku /\ held'.final = done /\ held'.wins = wins
          /\ held'.terminal = Terminal(wins, engine.kyoku)
          /\ held'.future = Future(engine.kyoku, done)
      BY <3>2, <3>3
    <3> QED
      BY <3>2, <3>4, <3>5 DEF LogInv, Running
  <2>4. CASE EngineFails
    BY <2>4 DEF EngineFails, LogInv, Running, NoHold
  <2> QED
    BY <2>1, <2>2, <2>3, <2>4 DEF Resolves
<1> QED
  BY <1>2, <1>3

LEMMA NextLogs == IInv /\ LogInv /\ [Next]_vars => LogInv'
<1> SUFFICES ASSUME IInv, LogInv, [Next]_vars PROVE LogInv'
  OBVIOUS
<1>1. CASE PublishKyokuStep
  <2>1. /\ held.active /\ held.nextStep <= held.wins /\ held.terminal \in Seq(Event)
        /\ held.wins \in Nat /\ held.seq \in Nat /\ held.nextStep \in Nat /\ events \in Seq(Event)
    BY <1>1 DEF PublishKyokuStep, IInv, TypeOK, Hold
  <2>2. /\ held'.active /\ held'.future = held.future /\ held'.final = held.final
        /\ held'.seq = held.seq /\ held'.wins = held.wins /\ held'.nextStep = held.nextStep + 1
        /\ held'.terminal = IF held.nextStep = held.wins THEN <<>> ELSE held.terminal
        /\ UNCHANGED <<status, engine>>
    BY <1>1 DEF PublishKyokuStep, IInv, TypeOK, Hold
  <2>3. StartedUpTo(events, held.seq) /\ held.terminal = Terminal(held.wins, held.seq)
    BY <2>1 DEF LogInv
  <2>4. StartedUpTo(events', held.seq)
    <3>1. CASE held.nextStep = held.wins
      <4>1. events' = events \o held.terminal
        BY <1>1, <3>1 DEF PublishKyokuStep
      <4>2. \A j \in DOMAIN held.terminal :
              held.terminal[j].kyoku = held.seq /\ held.terminal[j].type # "start_kyoku"
        BY <2>1, <2>3, TerminalQuiet
      <4> QED
        BY <2>1, <2>3, <4>1, <4>2, QuietConcat
    <3>2. CASE held.nextStep # held.wins
      BY <1>1, <2>3, <3>2 DEF PublishKyokuStep
    <3> QED
      BY <3>1, <3>2
  <2>5. held'.nextStep <= held'.wins =>
          OpenAt(events', held.seq) /\ held'.terminal = Terminal(held.wins, held.seq)
    <3> SUFFICES ASSUME held'.nextStep <= held'.wins
                 PROVE  OpenAt(events', held.seq) /\ held'.terminal = Terminal(held.wins, held.seq)
      OBVIOUS
    <3>1. held.nextStep # held.wins
      BY <2>1, <2>2
    <3> QED
      BY <1>1, <2>1, <2>2, <2>3, <3>1 DEF PublishKyokuStep, LogInv
  <2> QED
    BY <2>1, <2>2, <2>4, <2>5 DEF LogInv, Running
<1>2. CASE ReleaseKyoku
  <2>1. /\ held.active /\ held.seq \in Nat /\ held.final \in BOOLEAN /\ events \in Seq(Event)
        /\ ~held'.active /\ engine' = engine /\ events' = events \o held.future
        /\ status' = IF held.final THEN "Completed" ELSE status
    BY <1>2 DEF ReleaseKyoku, NoHold, IInv, TypeOK, Hold
  <2>2. CASE held.final
    BY <2>1, <2>2 DEF LogInv, Running
  <2>3. CASE ~held.final
    <3>1. held.future = Future(held.seq, FALSE) /\ engine.kyoku = held.seq + 1
          /\ StartedUpTo(events, held.seq)
      BY <2>1, <2>3 DEF LogInv
    <3> QED
      BY <2>1, <3>1, FutureConcat DEF LogInv, Running
  <2> QED
    BY <2>1, <2>2, <2>3
<1>3. CASE status' \in {status, "Aborted"} /\ UNCHANGED <<engine, held, events>>
  BY <1>3 DEF LogInv, Running
<1>4. CASE ResolveExpired
  BY <1>4, SettleLogs DEF ResolveExpired
<1>5. ASSUME NEW s \in Seats, NEW id, NEW a, SubmitAction(s, id, a)
      PROVE  LogInv'
  BY <1>5, SettleLogs DEF SubmitAction
<1> QED
  BY <1>1, <1>2, <1>3, <1>4, <1>5
  DEF Next, OpenDecision, NoSafeDefault, TakePersistenceEvents, Tick, Disconnect, Reconnect,
      SetPermanentAuto, vars, logVars

LEMMA InitLogs == Init => LogInv
<1> SUFFICES ASSUME Init PROVE LogInv
  OBVIOUS
<1> DEFINE game == <<Ev("start_game", 0)>>
<1>0. 0 + 1 = 1
  OBVIOUS
<1>1. game \in Seq(Event) /\ game \o <<Ev("start_kyoku", 1)>> = events
  <2>1. events = Append(game, Ev("start_kyoku", 1))
    BY DEF Init
  <2>2. game \in Seq(Event) /\ Ev("start_kyoku", 1) \in Event
    BY EventType
  <2> HIDE DEF game
  <2> QED
    BY <2>1, <2>2, AppendAfter
<1>2. StartedUpTo(game, 0)
  <2>1. StartsOf(game) = {}
    BY DEF StartsOf, Ev
  <2>2. \A i \in DOMAIN game : game[i].kyoku <= 0
    BY DEF Ev
  <2> QED
    BY <2>1, <2>2, FS_EmptySet DEF StartedUpTo
<1> HIDE DEF game
<1>3. StartedUpTo(events, 1) /\ OpenAt(events, 1)
  BY <1>0, <1>1, <1>2, StartConcat
<1> QED
  BY <1>3 DEF Init, NoHold, LogInv, Running

\* No observer can know a win, a draw, the end of the Kyoku or the start of the
\* next one before the settlement of the held Kyoku is published, although the
\* engine has already decided all of it (match_machine.rs record_outcome,
\* publish_kyoku_step).
THEOREM NothingLeaks == Spec => []NoFutureLeak
<1>1. LogInv => NoFutureLeak
  BY DEF LogInv, StartedUpTo, OpenAt, NoFutureLeak
<1>2. Spec => []LogInv
  BY InitLogs, NextLogs, Invariance, PTL DEF Spec
<1> QED
  BY <1>1, <1>2, PTL

-----------------------------------------------------------------------------
(* The machine implements the contract *)

\* What a response or an expiry pass may have made of the Decision d.
Advanced(d, e) ==
  /\ e.id = d.id
  /\ e.offer = d.offer
  /\ \A s \in Seats : d.answer[s] # NoAction => e.answer[s] = d.answer[s]
  /\ \A s \in Seats : e.answer[s] # NoAction => s \in Eligible(d)
  /\ IF e.closed THEN Complete(e) ELSE Waiting(e)

LEMMA SubmittedAdvances ==
  ASSUME NEW d \in DecisionType, NEW s \in Seats, NEW a \in Action,
         Waiting(d), CanSubmit(d, s, a)
  PROVE  Advanced(d, Submitted(d, s, a))
<1> DEFINE e == Submitted(d, s, a)
<1>1. /\ e.id = d.id /\ e.offer = d.offer
      /\ e.answer = [d.answer EXCEPT ![s] = a]
  BY DEF Submitted, DecisionType
<1>2. e.closed => Complete(e)
  BY DEF Submitted, Complete, Eligible, DecisionType
<1>3. \A t \in Seats : e.answer[t] # NoAction => t \in Eligible(d)
  BY <1>1 DEF CanSubmit, Waiting, DecisionType
<1>4. \A t \in Seats : d.answer[t] # NoAction => e.answer[t] = d.answer[t]
  BY <1>1 DEF CanSubmit, DecisionType
<1> QED
  BY <1>1, <1>2, <1>3, <1>4, SubmittedWaits DEF Advanced

LEMMA TimedOutAdvances ==
  ASSUME NEW d \in DecisionType, Waiting(d)
  PROVE  Advanced(d, TimedOutResolution(d))
<1> DEFINE late == NewlyTimedOut(d)
           e == TimedOutResolution(d)
<1>1. /\ e.id = d.id /\ e.offer = d.offer
      /\ e.answer = [s \in Seats |-> IF s \in late THEN DefaultOf(d.offer[s]) ELSE d.answer[s]]
  BY DEF TimedOutResolution, DecisionType
<1>2. e.closed => Complete(e)
  BY DEF TimedOutResolution, Complete, Eligible, DecisionType, Waiting
<1>3. late \subseteq {s \in Eligible(d) : d.answer[s] = NoAction}
  BY DEF NewlyTimedOut
<1>4. \A s \in Seats : d.answer[s] # NoAction => e.answer[s] = d.answer[s]
  BY <1>1, <1>3
<1>5. \A s \in Seats : e.answer[s] # NoAction => s \in Eligible(d)
  BY <1>1, <1>3 DEF Waiting
<1> QED
  BY <1>1, <1>2, <1>4, <1>5, TimedOutWaits DEF Advanced

\* Answers of a waiting Decision: only from the Seats asked, and not from all.
LEMMA WaitingAnswers ==
  ASSUME NEW d, Waiting(d)
  PROVE  /\ Abstract!Answered(d.answer) \subseteq Eligible(d)
         /\ Abstract!Answered(d.answer) # Eligible(d)
         /\ Eligible(d) # {}
BY DEF Waiting, Complete, Abstract!Answered, Eligible

LEMMA NobodyAnswered == Eligible(NoDecision) = {} /\ NoDecision.id = 0
                        /\ NoDecision.answer = Abstract!Nobody
BY DEF NoDecision, Eligible, EmptyOffer, Abstract!Nobody

\* Answering is Ask or Give, applying the answers is Apply, and an engine
\* failure withdraws the Decision.
LEMMA SettleRefines ==
  ASSUME IInv, CanDecide, SpendId, NEW d, Advanced(Current, d), Settle(d)
  PROVE  Abstract!Next \/ UNCHANGED Abstract!contractVars
<1>1. /\ Waiting(Current)
      /\ Current.id = nextId' - 1 /\ nextId' \in Nat
      /\ nextId' = IF DecisionOpen THEN nextId ELSE nextId + 1
  BY CurrentWaits DEF IInv, TypeOK, SpendId
<1>2. DecisionOpen => Current = decision /\ decision.id = nextId - 1 /\ decision.id # 0
  BY NobodyAnswered DEF Current, DecisionOpen, IInv, DecisionInv
<1>3. ~DecisionOpen => decision = NoDecision
  BY DEF IInv, DecisionInv, DecisionOpen, Waiting
<1>4. nextId \in Nat /\ Eligible(d) = Eligible(Current)
  BY DEF IInv, TypeOK, Advanced, Eligible
<1>5. CASE ~d.closed
  <2>1. decision' = d /\ resolved' = resolved
    BY <1>5 DEF Settle
  <2>2. Waiting(d)
    BY <1>5 DEF Advanced
  <2>3. CASE DecisionOpen
    <3>1. Abstract!Give
      BY <1>1, <1>2, <1>4, <2>1, <2>2, <2>3, WaitingAnswers
      DEF Abstract!Give, Abstract!Extends, Abstract!Answered, Advanced
    <3> QED
      BY <3>1 DEF Abstract!Next
  <2>4. CASE ~DecisionOpen
    <3>1. Abstract!Ask
      BY <1>1, <1>3, <1>4, <2>1, <2>2, <2>4, WaitingAnswers, NobodyAnswered
      DEF Abstract!Ask, Advanced
    <3> QED
      BY <3>1 DEF Abstract!Next
  <2> QED
    BY <2>3, <2>4
<1>6. CASE d.closed
  <2>1. Resolves(d) /\ decision' = NoDecision
    BY <1>6 DEF Settle, Resolves
  <2>2. Abstract!Idle
    BY <2>1, NobodyAnswered DEF Abstract!Idle
  <2>3. CASE EngineFails /\ UNCHANGED resolved
    <3>1. Abstract!Withdraw
      BY <1>1, <1>4, <2>2, <2>3 DEF Abstract!Withdraw
    <3> QED
      BY <3>1 DEF Abstract!Next
  <2>4. CASE resolved' = [id |-> d.id, answer |-> d.answer, timedOut |-> d.timedOut]
    <3>1. Abstract!Answered(d.answer) = Eligible(Current)
      BY <1>4, <1>6 DEF Advanced, Complete, Abstract!Answered, Eligible
    <3>2. Eligible(Current) # {}
      BY <1>1, WaitingAnswers
    <3>3. Abstract!Extends(decision.answer, d.answer)
      <4>1. CASE DecisionOpen
        BY <1>2, <4>1 DEF Advanced, Abstract!Extends, Abstract!Answered
      <4>2. CASE ~DecisionOpen
        BY <1>3, <4>2, NobodyAnswered DEF Abstract!Extends, Abstract!Answered, Abstract!Nobody
      <4> QED
        BY <4>1, <4>2
    <3>4. d.id = nextId' - 1
      BY <1>1 DEF Advanced
    <3>5. resolved'.id = d.id /\ resolved'.answer = d.answer
      BY <2>4
    <3>6. Abstract!Apply
      <4>1. CASE DecisionOpen
        BY <1>1, <1>2, <1>4, <2>2, <3>1, <3>3, <3>4, <3>5, <4>1 DEF Abstract!Apply
      <4>2. CASE ~DecisionOpen
        BY <1>1, <1>3, <1>4, <2>2, <3>1, <3>2, <3>3, <3>4, <3>5, <4>2, NobodyAnswered
        DEF Abstract!Apply
      <4> QED
        BY <4>1, <4>2
    <3> QED
      BY <3>6 DEF Abstract!Next
  <2> QED
    BY <2>1, <2>3, <2>4 DEF Resolves
<1> QED
  BY <1>5, <1>6

LEMMA StepRefines == IInv /\ [Next]_vars => [Abstract!Next]_Abstract!contractVars
<1> SUFFICES ASSUME IInv, [Next]_vars
             PROVE  Abstract!Next \/ UNCHANGED Abstract!contractVars
  BY DEF Abstract!contractVars
<1>1. CASE OpenDecision
  <2>1. decision = NoDecision
    BY <1>1 DEF OpenDecision, DecisionOpen, IInv, DecisionInv, Waiting
  <2>2. Waiting(decision') /\ decision'.id = nextId' - 1 /\ nextId' = nextId + 1
        /\ UNCHANGED resolved /\ nextId \in Nat
    BY <1>1, CurrentWaits DEF OpenDecision, SpendId, IInv, TypeOK
  <2>3. Abstract!Ask
    BY <2>1, <2>2, NobodyAnswered, WaitingAnswers DEF Abstract!Ask
  <2> QED
    BY <2>3 DEF Abstract!Next
<1>2. CASE NoSafeDefault
  <2>1. decision = NoDecision
    BY <1>2 DEF NoSafeDefault, DecisionOpen, IInv, DecisionInv, Waiting
  <2>2. Abstract!Withdraw
    BY <1>2, <2>1, NobodyAnswered
    DEF NoSafeDefault, Abstract!Withdraw, Abstract!Idle, IInv, TypeOK
  <2> QED
    BY <2>2 DEF Abstract!Next
<1>3. CASE ResolveExpired
  <2>1. CanDecide /\ Settle(TimedOutResolution(Current)) /\ SpendId
    BY <1>3 DEF ResolveExpired
  <2>2. Advanced(Current, TimedOutResolution(Current))
    BY <2>1, CurrentWaits, TimedOutAdvances
  <2> QED
    BY <2>1, <2>2, SettleRefines
<1>4. ASSUME NEW s \in Seats, NEW id \in 1..nextId, NEW a \in Action, SubmitAction(s, id, a)
      PROVE  Abstract!Next \/ UNCHANGED Abstract!contractVars
  <2>1. CanDecide /\ Settle(Submitted(Current, s, a)) /\ SpendId /\ CanSubmit(Current, s, a)
    BY <1>4 DEF SubmitAction
  <2>2. Advanced(Current, Submitted(Current, s, a))
    BY <2>1, CurrentWaits, SubmittedAdvances
  <2> QED
    BY <2>1, <2>2, SettleRefines
<1>5. ASSUME NEW s \in Seats, SetPermanentAuto(s)
      PROVE  Abstract!Next \/ UNCHANGED Abstract!contractVars
  <2>1. Abstract!Withdraw
    BY <1>5, NobodyAnswered DEF SetPermanentAuto, Abstract!Withdraw, Abstract!Idle
  <2> QED
    BY <2>1 DEF Abstract!Next
<1>6. CASE /\ decision'.id = decision.id /\ decision'.offer = decision.offer
           /\ decision'.answer = decision.answer
           /\ UNCHANGED <<nextId, resolved>>
  BY <1>6 DEF Abstract!contractVars, Eligible
<1>7. ASSUME NEW s \in Seats, Disconnect(s) \/ Reconnect(s)
      PROVE  Abstract!Next \/ UNCHANGED Abstract!contractVars
  <2>1. \A timing : LET d == Retimed(decision, s, timing)
                    IN  /\ d.id = decision.id /\ d.offer = decision.offer
                        /\ d.answer = decision.answer
    BY DEF Retimed, IInv, TypeOK, DecisionType
  <2>2. UNCHANGED <<nextId, resolved>>
        /\ (decision' = decision \/ \E timing : decision' = Retimed(decision, s, timing))
    BY <1>7 DEF Disconnect, Reconnect
  <2> QED
    BY <1>6, <2>1, <2>2
<1>8. CASE Tick
  BY <1>6, <1>8 DEF Tick, Aged, IInv, TypeOK, DecisionType
<1> QED
  BY <1>1, <1>2, <1>3, <1>4, <1>5, <1>6, <1>7, <1>8
  DEF Next, PublishKyokuStep, ReleaseKyoku, TakePersistenceEvents, decisionVars, vars

\* The machine keeps the Decision contract: ids are never used twice, no answer
\* is ever replaced, and the engine is given exactly the answers of all eligible
\* Seats, once (match_machine.rs current_decision, submit_action,
\* resolve_expired, resolve_actions).
THEOREM ImplementsContract == Spec => Contract
<1>1. Init => Abstract!Init
  BY NobodyAnswered DEF Init, Abstract!Init, NoResolution, Abstract!Nobody
<1> QED
  BY <1>1, StepRefines, Invariance, PTL DEF Spec, Contract, Abstract!Spec
-----------------------------------------------------------------------------
(* Who is given the default *)

\* The last Decision handed to the Room is older than the open one.
ResolvedBefore == resolved.id < nextId /\ (DecisionOpen => resolved.id < decision.id)

\* Who has responded in e is defaulted if it was in d, or if it is late, and then to
\* its default.
DefaultsLate(d, e) ==
  \A s \in Eligible(d) :
    LET late == d.answer[s] = NoAction /\ Expired(d, s)
    IN  e.answer[s] # NoAction =>
          /\ e.timedOut[s] <=> d.timedOut[s] \/ late
          /\ late => e.answer[s] = DefaultOf(d.offer[s])

\* The same of a step.
StepDefaultsLate == DefaultsLate(Current, ResponsesAfter(Current.id))

LEMMA SubmittedLate ==
  ASSUME NEW d \in DecisionType, NEW s \in Seats, NEW a \in Action,
         Waiting(d), CanSubmit(d, s, a)
  PROVE  DefaultsLate(d, Submitted(d, s, a))
<1> DEFINE e == Submitted(d, s, a)
<1>1. e.answer = [d.answer EXCEPT ![s] = a] /\ e.timedOut = d.timedOut
  BY DEF Submitted, DecisionType
<1>2. \A t \in Seats : e.answer[t] # NoAction => d.answer[t] # NoAction \/ ~Expired(d, t)
  BY <1>1 DEF CanSubmit, DecisionType
<1> HIDE DEF e
<1>3. DefaultsLate(d, e)
  BY <1>1, <1>2 DEF DefaultsLate, Eligible, DecisionType
<1> QED
  BY <1>3 DEF e

LEMMA TimedOutLate ==
  ASSUME NEW d \in DecisionType, Waiting(d)
  PROVE  DefaultsLate(d, TimedOutResolution(d))
<1> DEFINE late == NewlyTimedOut(d)
           e == TimedOutResolution(d)
<1>1. /\ e.answer = [s \in Seats |-> IF s \in late THEN DefaultOf(d.offer[s]) ELSE d.answer[s]]
      /\ e.timedOut = [s \in Seats |-> d.timedOut[s] \/ s \in late]
  BY DEF TimedOutResolution, DecisionType
<1>2. \A s \in Eligible(d) : s \in late <=> d.answer[s] = NoAction /\ Expired(d, s)
  BY DEF NewlyTimedOut, Waiting
<1> HIDE DEF e, late
<1>3. DefaultsLate(d, e)
  BY <1>1, <1>2 DEF DefaultsLate, Eligible
<1> QED
  BY <1>3 DEF e

\* The Decision a step is about is not the one handed over before.
LEMMA CurrentIsNew ==
  ASSUME ResolvedBefore, TypeOK
  PROVE  resolved.id # Current.id
BY DEF ResolvedBefore, TypeOK, Resolution, DecisionType, Current, NewDecision

\* A step that answers nobody, in the Decision that stays open.
LEMMA NobodyDefaulted ==
  ASSUME ResolvedBefore, TypeOK, UNCHANGED resolved,
         decision'.id = Current.id =>
           decision'.answer = Current.answer /\ decision'.timedOut = Current.timedOut
  PROVE  StepDefaultsLate
<1>1. resolved'.id # Current.id
  BY CurrentIsNew
<1>2. CASE decision'.id = Current.id
  BY <1>2 DEF StepDefaultsLate, DefaultsLate, ResponsesAfter
<1>3. CASE decision'.id # Current.id
  BY <1>1, <1>3 DEF StepDefaultsLate, DefaultsLate, ResponsesAfter, NoDecision, Eligible
<1> QED
  BY <1>2, <1>3

LEMMA SettleLate ==
  ASSUME IInv, ResolvedBefore, CanDecide, SpendId, NEW d,
         Advanced(Current, d), DefaultsLate(Current, d), Settle(d)
  PROVE  StepDefaultsLate /\ ResolvedBefore'
<1>1. /\ Current.id = nextId' - 1
      /\ nextId \in Nat /\ nextId' = IF DecisionOpen THEN nextId ELSE nextId + 1
      /\ resolved.id \in Nat /\ decision.id \in Nat /\ Current.id # 0
  BY CurrentWaits DEF IInv, TypeOK, SpendId, DecisionType, Resolution, Waiting
<1>2. d.id = Current.id
  BY DEF Advanced
<1>3. DecisionOpen => Current = decision /\ decision.id = nextId - 1 /\ decision.id # 0
  BY NobodyAnswered DEF Current, DecisionOpen, IInv, DecisionInv
<1>4. CASE ~d.closed
  <2>1. decision' = d /\ resolved' = resolved
    BY <1>4 DEF Settle
  <2>2. ResolvedBefore'
    BY <1>1, <1>2, <1>3, <2>1 DEF ResolvedBefore, DecisionOpen
  <2>3. StepDefaultsLate
    BY <1>2, <2>1 DEF StepDefaultsLate, DefaultsLate, ResponsesAfter
  <2> QED
    BY <2>2, <2>3
<1>5. CASE d.closed
  <2>1. Resolves(d) /\ decision' = NoDecision /\ decision'.id = 0
    BY <1>5, NobodyAnswered DEF Settle, Resolves
  <2>2. CASE resolved' = resolved
    <3>1. ResolvedBefore'
      BY <1>1, <2>1, <2>2 DEF ResolvedBefore, DecisionOpen
    <3>2. StepDefaultsLate
      BY <1>1, <2>1, <2>2, NobodyDefaulted DEF IInv
    <3> QED
      BY <3>1, <3>2
  <2>3. CASE resolved' = [id |-> d.id, answer |-> d.answer, timedOut |-> d.timedOut]
    <3>1. resolved'.id = d.id /\ resolved'.answer = d.answer /\ resolved'.timedOut = d.timedOut
      BY <2>3
    <3>2. ResolvedBefore'
      <4>1. nextId' \in Nat
        BY <1>1 DEF DecisionOpen
      <4>2. resolved'.id = nextId' - 1
        BY <1>1, <1>2, <3>1
      <4>3. resolved'.id < nextId'
        <5>1. \A n \in Nat : n - 1 < n
          OBVIOUS
        <5> QED
          BY <4>1, <4>2, <5>1, Zenon
      <4>4. ~DecisionOpen'
        BY <2>1 DEF DecisionOpen
      <4> QED
        BY <4>3, <4>4 DEF ResolvedBefore
    <3>3. StepDefaultsLate
      BY <1>1, <1>2, <2>1, <3>1 DEF StepDefaultsLate, DefaultsLate, ResponsesAfter
    <3> QED
      BY <3>2, <3>3
  <2> QED
    BY <2>1, <2>2, <2>3 DEF Resolves
<1> QED
  BY <1>4, <1>5

LEMMA NextLate == IInv /\ ResolvedBefore /\ [Next]_vars => StepDefaultsLate /\ ResolvedBefore'
<1> SUFFICES ASSUME IInv, ResolvedBefore, [Next]_vars
             PROVE  StepDefaultsLate /\ ResolvedBefore'
  OBVIOUS
<1>1. TypeOK /\ nextId \in Nat /\ resolved.id \in Nat /\ Current.id # 0
      /\ (decision.id = Current.id => Current = decision)
  <2>1. TypeOK /\ nextId \in Nat /\ resolved.id \in Nat
    BY DEF IInv, TypeOK, Resolution
  <2>2. nextId # 0
    BY <2>1 DEF ResolvedBefore
  <2> QED
    BY <2>1, <2>2 DEF Current, NewDecision, DecisionOpen
<1>2. CASE OpenDecision
  <2>1. ~DecisionOpen /\ UNCHANGED resolved /\ decision' = Current /\ nextId' = nextId + 1
        /\ CanDecide
    BY <1>2 DEF OpenDecision, SpendId
  <2>2. decision'.id = nextId
    BY <2>1, CurrentWaits
  <2>3. ResolvedBefore'
    BY <1>1, <2>1, <2>2 DEF ResolvedBefore, DecisionOpen
  <2> QED
    BY <1>1, <2>1, <2>3, NobodyDefaulted
<1>3. CASE NoSafeDefault
  <2>1. ~DecisionOpen /\ UNCHANGED <<decision, resolved>> /\ nextId' = nextId + 1
    BY <1>3 DEF NoSafeDefault
  <2>2. ResolvedBefore'
    BY <1>1, <2>1 DEF ResolvedBefore, DecisionOpen
  <2> QED
    BY <1>1, <2>1, <2>2, NobodyDefaulted DEF DecisionOpen
<1>4. CASE ResolveExpired
  <2>1. CanDecide /\ Settle(TimedOutResolution(Current)) /\ SpendId
    BY <1>4 DEF ResolveExpired
  <2>2. /\ Advanced(Current, TimedOutResolution(Current))
        /\ DefaultsLate(Current, TimedOutResolution(Current))
    BY <2>1, CurrentWaits, TimedOutAdvances, TimedOutLate
  <2> QED
    BY <2>1, <2>2, SettleLate
<1>5. ASSUME NEW s \in Seats, NEW id \in 1..nextId, NEW a \in Action, SubmitAction(s, id, a)
      PROVE  StepDefaultsLate /\ ResolvedBefore'
  <2>1. CanDecide /\ Settle(Submitted(Current, s, a)) /\ SpendId /\ CanSubmit(Current, s, a)
    BY <1>5 DEF SubmitAction
  <2>2. /\ Advanced(Current, Submitted(Current, s, a))
        /\ DefaultsLate(Current, Submitted(Current, s, a))
    BY <2>1, CurrentWaits, SubmittedAdvances, SubmittedLate
  <2> QED
    BY <2>1, <2>2, SettleLate
<1>6. ASSUME NEW s \in Seats, SetPermanentAuto(s)
      PROVE  StepDefaultsLate /\ ResolvedBefore'
  <2>1. decision' = NoDecision /\ UNCHANGED <<nextId, resolved>>
    BY <1>6 DEF SetPermanentAuto
  <2>2. decision'.id = 0
    BY <2>1, NobodyAnswered
  <2>3. ResolvedBefore'
    BY <2>1, <2>2 DEF ResolvedBefore, DecisionOpen
  <2>4. StepDefaultsLate
    BY <1>1, <2>1, <2>2, NobodyDefaulted
  <2> QED
    BY <2>3, <2>4
<1>7. CASE /\ decision'.id = decision.id /\ decision'.answer = decision.answer
           /\ decision'.timedOut = decision.timedOut
           /\ UNCHANGED <<nextId, resolved>>
  <2>1. ResolvedBefore'
    BY <1>7 DEF ResolvedBefore, DecisionOpen
  <2> QED
    BY <1>1, <1>7, <2>1, NobodyDefaulted
<1>8. ASSUME NEW s \in Seats, Disconnect(s) \/ Reconnect(s)
      PROVE  StepDefaultsLate /\ ResolvedBefore'
  <2>1. \A timing : LET d == Retimed(decision, s, timing)
                    IN  /\ d.id = decision.id /\ d.answer = decision.answer
                        /\ d.timedOut = decision.timedOut
    BY DEF Retimed, IInv, TypeOK, DecisionType
  <2>2. UNCHANGED <<nextId, resolved>>
        /\ (decision' = decision \/ \E timing : decision' = Retimed(decision, s, timing))
    BY <1>8 DEF Disconnect, Reconnect
  <2> QED
    BY <1>7, <2>1, <2>2
<1>9. CASE Tick
  BY <1>7, <1>9 DEF Tick, Aged, IInv, TypeOK, DecisionType
<1> QED
  BY <1>2, <1>3, <1>4, <1>5, <1>6, <1>7, <1>8, <1>9
  DEF Next, PublishKyokuStep, ReleaseKyoku, TakePersistenceEvents, decisionVars, vars

\* A Seat that responds in a step is defaulted in it exactly when its deadline has
\* passed, then to its safe default, in the Decision that stays open and in the one
\* the step resolves (decision.rs submit_at, resolve_at, accepted_resolution;
\* match_machine.rs resolve_expired).
THEOREM DefaultsExactlyTheLate == Spec => DefaultExactlyWhenLate
<1>1. Init => ResolvedBefore
  BY NobodyAnswered DEF Init, ResolvedBefore, NoResolution, DecisionOpen
<1>2. IInv /\ ResolvedBefore /\ [Next]_vars => ResolvedBefore'
  BY NextLate
<1>3. IInv /\ ResolvedBefore /\ [Next]_vars =>
        [LET d == Current
             e == ResponsesAfter(d.id)
         IN  \A s \in Eligible(d) :
               LET late == d.answer[s] = NoAction /\ Expired(d, s)
               IN  e.answer[s] # NoAction =>
                     /\ e.timedOut[s] <=> d.timedOut[s] \/ late
                     /\ late => e.answer[s] = DefaultOf(d.offer[s])]_vars
  BY NextLate DEF StepDefaultsLate, DefaultsLate
<1> QED
  BY <1>1, <1>2, <1>3, Invariance, PTL DEF Spec, DefaultExactlyWhenLate
=============================================================================
