------------------------------- MODULE Views -------------------------------
(***************************************************************************)
(* What everybody gets to see of a Match                                   *)
(* (crates/double_riichi_core/src/{engine,match_machine,projection,room}.rs,*)
(* crates/double_riichi_mjai/src/lib.rs event_for_player and               *)
(* crates/double_riichi_server/src/http.rs queue_room_event).              *)
(*                                                                         *)
(* The engine knows every tile, and plays on into the next Kyoku while the *)
(* results of the last are still shown.  Three views are made from it: the *)
(* table, the history of the Room and the events of the protocols; a       *)
(* fourth, the frames of a Human's socket, is made later from a queue.     *)
(*                                                                         *)
(* A tile is a number, fresh in every Kyoku; hands are of two tiles and a  *)
(* meld of two.  What can be called or won with is any choice; between     *)
(* tiles that are in a hand alike, the choice is the oldest or the newest. *)
(***************************************************************************)
EXTENDS Integers, Sequences, SequencesExt, FiniteSets

CONSTANTS
  N,        \* number of Seats
  Kyokus,   \* Kyoku in the Match
  Draws,    \* tiles drawn in a Kyoku after the first
  Box,      \* notifications a socket has room for (64 in the code)
  Watchers  \* the audiences a socket may serve

VARIABLES
  engine,    \* the engine's table
  decision,  \* the open Decision: who is asked, who has answered
  log,       \* the events the Match Machine has published of this Kyoku
  held,      \* the ended Kyoku whose results are shown
  history,   \* RoomHistoryBuffer
  known,     \* what each audience may know by the rules of the game
  client     \* the socket of one audience

vars == <<engine, decision, log, held, history, known, client>>

Seats == 1 .. N
Public == 0
Audiences == Seats \cup {Public}

Assumption ==
  /\ N \in Nat \ {0} /\ Kyokus \in Nat /\ Draws \in Nat /\ Box \in Nat
  /\ Watchers \subseteq Audiences

NoResults == [seq |-> 0, wins |-> <<>>, settled |-> FALSE]
NoHold == [seq |-> 0]
NoDecision == [kind |-> "none", who |-> {}, done |-> {}]

-----------------------------------------------------------------------------
(* The engine: its table after each move, and the events it logs *)

Event(kind, actor, tiles, hands) ==
  [kind |-> kind, actor |-> actor, tiles |-> tiles, hands |-> hands]

Plain(kind, actor, tiles) == Event(kind, actor, tiles, [s \in Seats |-> {}])

Following(s) == (s % N) + 1

\* The tiles of a Kyoku follow those of the last.
Dealt(e) ==
  LET first == e.kyoku * (2 * N + 2 * Draws + 3) + 1 IN
  [hand |-> [s \in Seats |-> {first + 2 * s - 2, first + 2 * s - 1}],
   pond |-> [s \in Seats |-> {}], melds |-> [s \in Seats |-> {}],
   dora |-> {first + 2 * N}, next |-> first + 2 * N + 1, left |-> Draws,
   last |-> 0, seat |-> 1, kyoku |-> e.kyoku + 1, score |-> e.score]

Drawn(e, s) == [e EXCEPT !.hand[s] = @ \cup {e.next}, !.next = @ + 1]

DrawEvent(e, s) == Plain("tsumo", s, {e.next})

StartEvents(e) ==
  <<Event("start", 1, e.dora, e.hand), DrawEvent(e, 1)>>

Oldest(hand) == {t \in hand : \A u \in hand : t <= u}
Newest(hand) == {t \in hand : \A u \in hand : t >= u}

Turn(s) == [kind |-> "turn", who |-> {s}, done |-> {}]

\* A win as the result record has it: the completed hand.
Win(e, s, tile) == [seat |-> s, tiles |-> e.hand[s] \cup {tile} \cup UNION {m.tiles : m \in e.melds[s]}]

-----------------------------------------------------------------------------
(* The Match Machine *)

\* published_kyoku_results
Published(h) ==
  IF h.seq = 0 \/ h.next = 0 THEN NoResults
  ELSE [seq |-> h.seq, settled |-> h.next > Len(h.wins),
        wins |-> SubSeq(h.wins, 1, IF h.next > Len(h.wins) THEN Len(h.wins) ELSE h.next)]

\* What is published at once starts one Kyoku at most.
Starts(events) == \E i \in DOMAIN events : events[i].kind = "start"
StartOf(events) == CHOOSE i \in DOMAIN events : events[i].kind = "start"

\* The log, as far as it is kept here
Logged(events) ==
  IF Starts(events) THEN SubSeq(events, StartOf(events), Len(events)) ELSE log \o events

\* Slip: the table of the engine, also while results are shown.
TableOfEngine == engine

\* MatchMachine::project: the table it projects
Table == IF held.seq # 0 THEN held.table ELSE engine

-----------------------------------------------------------------------------
(* The history of the Room *)

Terminal(events) == {i \in DOMAIN events : events[i].kind \in {"hora", "ryukyoku"}}

\* RoomKyokuSummary::from_events
FinishCurrent(h) ==
  IF Terminal(h.current) = {} THEN h
  ELSE [h EXCEPT !.previous = Append(@, [ends |-> Cardinality(Terminal(h.current)),
                                         seq |-> h.done.seq, settled |-> h.done.settled])]

Continued(h, events) ==
  IF h.current # <<>> THEN [h EXCEPT !.current = @ \o events] ELSE h

Recorded(h, events) ==
  IF Starts(events)
  THEN LET from == StartOf(events)
           b == Continued(h, SubSeq(events, 1, from - 1))
       IN [FinishCurrent(b) EXCEPT !.current = SubSeq(events, from, Len(events)),
                                   !.seq = @ + 1, !.done = NoResults]
  ELSE Continued(h, events)

\* archive_published_kyoku, archive_published
Archivable(h, results) ==
  h.current # <<>> /\ h.seq = results.seq /\ results.settled

-----------------------------------------------------------------------------
(* The views *)

\* visible_meld
VisibleMeld(m, own) == IF m.open \/ own THEN m ELSE [m EXCEPT !.tiles = {}]

\* player_decision, public_decision: there is none while results are shown.
VisibleDecision(a) ==
  IF held.seq # 0 THEN [kind |-> "none", tiles |-> {}]
  ELSE IF a = Public THEN [kind |-> decision.kind, tiles |-> {}]
  ELSE IF a \notin decision.who THEN [kind |-> "none", tiles |-> {}]
  ELSE [kind |-> decision.kind, tiles |-> IF a \in decision.done THEN {} ELSE Table.hand[a]]

\* project_table_state, visible_player
View(a) ==
  [hands |-> [s \in Seats |-> IF s = a THEN Table.hand[s] ELSE {}],
   counts |-> [s \in Seats |-> Cardinality(Table.hand[s])],
   pond |-> Table.pond,
   melds |-> [s \in Seats |-> {VisibleMeld(m, s = a) : m \in Table.melds[s]}],
   dora |-> Table.dora,
   score |-> Table.score,
   decision |-> VisibleDecision(a),
   results |-> Published(held)]

ResultTiles(results) == UNION {results.wins[i].tiles : i \in DOMAIN results.wins}

ViewTiles(v) ==
  v.dora \cup v.decision.tiles \cup ResultTiles(v.results)
    \cup UNION {v.hands[s] \cup v.pond[s] \cup UNION {m.tiles : m \in v.melds[s]} : s \in Seats}

\* Slip: a closed kan is shown like every other meld.
HistoryEventWithKans(ev, a) ==
  [ev EXCEPT !.tiles = IF ev.kind = "tsumo" /\ ev.actor # a THEN {} ELSE @,
             !.hands = IF ev.kind = "start" /\ a # Public THEN [s \in {a} |-> @[a]] ELSE <<>>]

\* project_history_event: hands and draws of others, closed kans and the hands
\* after a draw are left out.
HistoryEvent(ev, a) ==
  [ev EXCEPT !.tiles = IF ev.kind \in {"tsumo", "ankan"} /\ ev.actor # a THEN {} ELSE @,
             !.hands = IF ev.kind = "start" /\ a # Public THEN [s \in {a} |-> @[a]] ELSE <<>>]

\* RoomHistoryBuffer::projection
HistoryView(a) ==
  [events |-> [i \in DOMAIN history.current |-> HistoryEvent(history.current[i], a)],
   official |-> IF Published(held).seq = history.seq THEN Published(held) ELSE history.done,
   previous |-> history.previous]

\* event_for_player of the Mjai codec: closed kans and the hands after a draw are
\* shown to everybody.
MjaiEvent(ev, a) ==
  [ev EXCEPT !.tiles = IF ev.kind = "tsumo" /\ ev.actor # a THEN {} ELSE @,
             !.hands = IF ev.kind = "start" THEN [s \in {a} |-> @[a]] ELSE @]

\* visible_game_event of the Human socket
HumanEvent(ev, a) == HistoryEvent(ev, a)

EventTiles(ev) == ev.tiles \cup UNION {ev.hands[s] : s \in DOMAIN ev.hands}
EventsTiles(events) == UNION {EventTiles(events[i]) : i \in DOMAIN events}

-----------------------------------------------------------------------------
(* What the rules let an audience know once an event is public *)

Teaches(ev, a) ==
  IF ev.kind = "start" THEN ev.tiles \cup (IF a = Public THEN {} ELSE ev.hands[a])
  ELSE IF ev.kind \in {"tsumo", "ankan"} THEN IF ev.actor = a THEN ev.tiles ELSE {}
  ELSE ev.tiles

Learn(events, wins) ==
  known' = [a \in Audiences |->
    known[a] \cup UNION ({Teaches(events[i], a) : i \in DOMAIN events} \cup
                         {wins[i].tiles : i \in DOMAIN wins})]

-----------------------------------------------------------------------------
(* The Room: what a step publishes *)

Note(kind, events) == [kind |-> kind, events |-> events]

\* RoomActor::publish: a subscriber whose queue is full is dropped; what it has
\* queued can still be read.
Publish(notes) ==
  LET room == Box - Len(client.queue)
      fit == IF Len(notes) > room THEN SubSeq(notes, 1, room) ELSE notes
  IN client' = IF client.on
               THEN [client EXCEPT !.queue = @ \o fit, !.on = Len(notes) <= room]
               ELSE client

StepNotes == <<Note("step", <<>>), Note("snapshot", <<>>)>>
ResolvedNotes(events) == <<Note("resolved", events), Note("snapshot", <<>>)>>

\* publish_kyoku_step: the terminal events come with the settlement.
PublishStep(h, published, notes) ==
  LET last == h.next = Len(h.wins)
      released == IF last THEN h.terminal ELSE <<>>
      win == IF last THEN <<>> ELSE <<h.wins[h.next + 1]>>
  IN /\ held' = [h EXCEPT !.next = @ + 1,
                          !.table.score = IF last THEN @ + 1 ELSE @,
                          !.terminal = IF last THEN <<>> ELSE @]
     /\ log' = Logged(published \o released)
     /\ history' = Recorded(history, published \o released)
     /\ Learn(published \o released, win)
     /\ Publish(StepNotes \o notes)

\* record_outcome and handle_decision_result, in the middle of a Kyoku
Goes(e, events, d) ==
  /\ engine' = e /\ decision' = d /\ UNCHANGED held
  /\ log' = Logged(events) /\ history' = Recorded(history, events)
  /\ Learn(events, <<>>) /\ Publish(ResolvedNotes(events))

\* The Kyoku ends: the engine settles and deals again at once (finish_apply), the
\* machine holds the copy that stopped before, and the first result is shown.
\* `showing` are the hands the engine logs with a draw.
Ends(e, events, wins, tiles, showing) ==
  LET settled == [e EXCEPT !.score = @ + 1]
      more == e.kyoku < Kyokus
      dealt == Dealt(settled)
      over == IF wins = <<>>
              THEN <<Event("ryukyoku", 0, {}, [s \in Seats |-> IF s \in showing THEN e.hand[s] ELSE {}])>>
              ELSE [i \in DOMAIN wins |-> Plain("hora", wins[i].seat, tiles)]
  IN /\ engine' = IF more THEN Drawn(dealt, 1) ELSE settled
     /\ decision' = IF more THEN Turn(1) ELSE NoDecision
     /\ PublishStep([seq |-> e.kyoku, table |-> e, wins |-> wins, next |-> 0,
                     terminal |-> over,
                     future |-> <<Plain("end", 0, {})>> \o
                                (IF more THEN StartEvents(dealt) ELSE <<Plain("over", 0, {})>>)],
                    events, ResolvedNotes(events))

\* The next Seat draws, or there is nothing left to draw.
DrawNext(e, events, s) ==
  \/ /\ e.left > 0
     /\ Goes([Drawn(e, s) EXCEPT !.left = @ - 1], Append(events, DrawEvent(e, s)), Turn(s))
  \/ e.left = 0 /\ \E showing \in {{}, {1}} : Ends(e, events, <<>>, {}, showing)

-----------------------------------------------------------------------------
(* Steps *)

Playing == held.seq = 0 /\ decision.kind # "none"

Discard(s, t) ==
  LET e == [engine EXCEPT !.hand[s] = @ \ {t}, !.pond[s] = @ \cup {t}, !.last = t, !.seat = s]
      events == <<Plain("dahai", s, {t})>>
  IN \/ DrawNext(e, events, Following(s))
     \/ \E who \in (SUBSET (Seats \ {s})) \ {{}} :
          Goes(e, events, [kind |-> "response", who |-> who, done |-> {}])

\* A closed kan, a new dora and a draw in its place
ClosedKan(s, c) ==
  LET e == [engine EXCEPT !.hand[s] = @ \ c, !.melds[s] = @ \cup {[tiles |-> c, open |-> FALSE]},
                          !.dora = @ \cup {engine.next}, !.next = @ + 1, !.left = @ - 1]
  IN /\ engine.left > 0
     /\ Goes(Drawn(e, s),
             <<Plain("ankan", s, c), Plain("dora", 0, {engine.next}), DrawEvent(e, s)>>, Turn(s))

SelfDraw(s) ==
  \E t \in Newest(engine.hand[s]) : Ends(engine, <<>>, <<Win(engine, s, t)>>, {t}, {})

\* A turn is played.
TakeTurn ==
  /\ Playing /\ decision.kind = "turn"
  /\ \E s \in decision.who :
       \/ \E t \in Oldest(engine.hand[s]) \cup Newest(engine.hand[s]) : Discard(s, t)
       \/ Cardinality(engine.hand[s]) = 3 /\ ClosedKan(s, engine.hand[s] \ Newest(engine.hand[s]))
       \/ SelfDraw(s)

\* One of several answers: the Decision waits for the others.
Submit ==
  /\ Playing /\ decision.kind = "response"
  /\ \E s \in decision.who \ decision.done :
       /\ decision.who \ decision.done # {s}
       /\ decision' = [decision EXCEPT !.done = @ \cup {s}]
  /\ Publish(ResolvedNotes(<<>>))
  /\ UNCHANGED <<engine, log, held, history, known>>

\* The winners as the results list them
InOrder(winners) ==
  {order \in [1 .. Cardinality(winners) -> winners] :
     \A i, j \in 1 .. Cardinality(winners) : i < j => order[i] < order[j]}

\* The last answer: somebody wins, somebody calls, or all pass.
Respond ==
  /\ Playing /\ decision.kind = "response" /\ Cardinality(decision.who \ decision.done) = 1
  /\ \/ \E winners \in (SUBSET decision.who) \ {{}} : \E order \in InOrder(winners) :
          Ends(engine, <<>>, [i \in DOMAIN order |-> Win(engine, order[i], engine.last)],
               {engine.last}, {})
     \/ \E s \in decision.who : \E t \in Oldest(engine.hand[s]) :
          /\ Cardinality(engine.hand[s]) = 2
          /\ Goes([engine EXCEPT !.hand[s] = @ \ {t},
                                 !.melds[s] = @ \cup {[tiles |-> {t, engine.last}, open |-> TRUE]}],
                  <<Plain("call", s, {t, engine.last})>>, Turn(s))
     \/ DrawNext(engine, <<>>, Following(engine.seat))

\* advance_result_step, before the settlement
NextStep ==
  /\ held.seq # 0 /\ held.next <= Len(held.wins)
  /\ PublishStep(held, <<>>, <<>>)
  /\ UNCHANGED <<engine, decision>>

\* advance_result_step, after it: archive, then release.
Release ==
  /\ held.seq # 0 /\ held.next > Len(held.wins)
  /\ Archivable(history, Published(held))
  /\ held' = NoHold
  /\ log' = Logged(held.future)
  /\ history' = Recorded([history EXCEPT !.done = Published(held)], held.future)
  /\ Learn(held.future, <<>>)
  /\ Publish(StepNotes)
  /\ UNCHANGED <<engine, decision>>

-----------------------------------------------------------------------------
(* The socket *)

\* queue_room_event: the events go with the state only if they are the last.
Deliver ==
  /\ client.queue # <<>>
  /\ LET n == Head(client.queue)
         fresh == n.kind = "resolved" /\ n.events # <<>> /\ IsSuffix(n.events, log)
     IN client' = [client EXCEPT
          !.queue = Tail(@), !.state = View(client.who),
          !.events = IF fresh THEN [i \in DOMAIN n.events |-> HumanEvent(n.events[i], client.who)]
                     ELSE <<>>]
  /\ UNCHANGED <<engine, decision, log, held, history, known>>

\* The socket ends; a new one subscribes and is sent a snapshot first.
Reconnect ==
  /\ ~client.on /\ client.queue = <<>>
  /\ client' = [client EXCEPT !.on = TRUE, !.queue = <<Note("snapshot", <<>>)>>, !.events = <<>>]
  /\ UNCHANGED <<engine, decision, log, held, history, known>>

-----------------------------------------------------------------------------

Blank == [kyoku |-> 0, score |-> 0]

\* commit_match, and a socket that has just come
Init ==
  /\ engine = Drawn(Dealt(Blank), 1) /\ decision = Turn(1) /\ held = NoHold
  /\ log = StartEvents(Dealt(Blank))
  /\ history = Recorded([current |-> <<>>, previous |-> <<>>, seq |-> 0, done |-> NoResults], log)
  /\ known = [a \in Audiences |-> UNION {Teaches(log[i], a) : i \in DOMAIN log}]
  /\ \E a \in Watchers :
       client = [on |-> Box > 0, who |-> a, queue |-> <<>>, state |-> View(a), events |-> <<>>]

Next ==
  \/ TakeTurn \/ Submit \/ Respond \/ NextStep \/ Release
  \/ Box > 0 /\ (Deliver \/ Reconnect)

Spec == Init /\ [][Next]_vars

-----------------------------------------------------------------------------
(* Properties *)

\* No view shows a tile its audience may not know: not the hands of the next
\* Kyoku, not a winner whose turn to be shown has not come, not a closed kan but in
\* the protocol that shows it (projection.rs, room.rs project_history_event, mjai
\* event_for_player, http.rs visible_game_event).
SeesOnlyWhatItMay ==
  /\ \A a \in Audiences :
       /\ ViewTiles(View(a)) \subseteq known[a]
       /\ LET h == HistoryView(a) IN
          EventsTiles(h.events) \cup ResultTiles(h.official) \subseteq known[a]
       /\ a # Public =>
            \A i \in DOMAIN log :
              log[i].kind \notin {"ankan", "ryukyoku"} => EventTiles(MjaiEvent(log[i], a)) \subseteq known[a]
  /\ EventsTiles(client.events) \subseteq known[client.who]

\* The hand a Player can work out from the history of the Kyoku.
HandByHistory(a) ==
  LET events == HistoryView(a).events
      got(i) == IF events[i].kind = "start" THEN events[i].hands[a]
                ELSE IF events[i].kind = "tsumo" /\ events[i].actor = a THEN events[i].tiles ELSE {}
      gone(i) == IF events[i].kind \in {"dahai", "call", "ankan"} /\ events[i].actor = a
                 THEN events[i].tiles ELSE {}
  IN (UNION {got(i) : i \in DOMAIN events}) \ UNION {gone(i) : i \in DOMAIN events}

\* Table and history show a Player the same hand, also while results are shown and
\* after the last Kyoku (room.rs record_history, match_machine.rs project).
HistoryTellsTheHand == \A a \in Seats : HandByHistory(a) = View(a).hands[a]

\* The results of a Kyoku are shown as far as they are published, counted in the
\* scores when they are settled, archived once in order, and never refused by the
\* archive (room.rs archive_published, match_machine.rs publish_kyoku_step).
ResultsAreFiled ==
  LET filed == Len(history.previous)
      settled == history.done.settled \/ Published(held).settled
  IN /\ held.seq # 0 => Published(held).seq = history.seq
     /\ held.seq # 0 /\ Published(held).settled => Archivable(history, Published(held))
     /\ filed = history.seq - 1
     /\ \A i \in 1 .. filed : history.previous[i].seq = i /\ history.previous[i].settled
     /\ Table.score = filed + (IF settled THEN 1 ELSE 0)

\* A socket that has read everything shows what there is (room.rs publish, http.rs
\* queue_room_event).
ClientIsCurrent == client.on /\ client.queue = <<>> => client.state = View(client.who)

ViewsAgree == HistoryTellsTheHand /\ ResultsAreFiled /\ ClientIsCurrent

-----------------------------------------------------------------------------
(* The inductive invariant *)

Tiles == SUBSET Nat

\* Only a deal and a draw show hands.
Events ==
  {ev \in [kind : {"start", "tsumo", "dahai", "call", "ankan", "dora", "hora", "ryukyoku", "end", "over"},
           actor : Nat, tiles : Tiles, hands : [Seats -> Tiles]] :
     ev.kind \notin {"start", "ryukyoku"} => \A s \in Seats : ev.hands[s] = {}}

Tables ==
  [hand : [Seats -> Tiles], pond : [Seats -> Tiles],
   melds : [Seats -> SUBSET [tiles : Tiles, open : BOOLEAN]], dora : Tiles,
   next : Nat, left : Nat, last : Nat, seat : Seats, kyoku : Nat, score : Nat]

Decisions == [kind : {"none", "turn", "response"}, who : SUBSET Seats, done : SUBSET Seats]

AllWins == Seq([seat : Seats, tiles : Tiles])

Endings == {ev \in Events : ev.kind \in {"hora", "ryukyoku"}}

Holds ==
  [seq : Nat \ {0}, table : Tables, wins : AllWins, next : Nat \ {0},
   terminal : Seq(Endings), future : Seq(Events)]

Histories ==
  [current : Seq(Events), previous : Seq([ends : Nat, seq : Nat, settled : BOOLEAN]),
   seq : Nat, done : [seq : Nat, wins : AllWins, settled : BOOLEAN]]

TypeOK ==
  /\ engine \in Tables /\ decision \in Decisions /\ log \in Seq(Events)
  /\ held = NoHold \/ held \in Holds
  /\ history \in Histories /\ history.current # <<>>
  /\ known \in [Audiences -> Tiles]
  /\ client = [on |-> client.on, who |-> client.who, queue |-> client.queue,
               state |-> client.state, events |-> client.events]
  /\ client.on \in BOOLEAN /\ client.who \in Audiences
  /\ client.queue \in Seq([kind : {"step", "snapshot", "resolved"}, events : Seq(Events)])

\* What a table shows an audience, and what events teach it
Shown(e, a) ==
  (IF a = Public THEN {} ELSE e.hand[a]) \cup e.dora
    \cup (UNION {e.pond[s] : s \in Seats})
    \cup UNION {UNION {VisibleMeld(m, s = a).tiles : m \in e.melds[s]} : s \in Seats}

Taught(events, a) == UNION {Teaches(events[i], a) : i \in DOMAIN events}

\* While results are shown, the engine may be one Kyoku ahead: by what waits to be
\* released.
Ahead(a) == IF held.seq = 0 THEN {} ELSE Taught(held.future, a)

KnownInv ==
  /\ \A a \in Audiences :
       /\ Taught(log, a) \cup Taught(history.current, a) \subseteq known[a]
       /\ ResultTiles(history.done) \cup ResultTiles(Published(held)) \subseteq known[a]
       /\ Shown(Table, a) \subseteq known[a]
       /\ Shown(engine, a) \subseteq known[a] \cup Ahead(a)
  /\ EventsTiles(client.events) \subseteq known[client.who]

\* What a Seat took into its hand and put out of it, by the events
Got(events, a) ==
  UNION {IF events[i].kind = "start" THEN events[i].hands[a]
         ELSE IF events[i].kind = "tsumo" /\ events[i].actor = a THEN events[i].tiles
         ELSE {} : i \in DOMAIN events}

Gone(events, a) ==
  UNION {IF events[i].kind \in {"dahai", "call", "ankan"} /\ events[i].actor = a
         THEN events[i].tiles ELSE {} : i \in DOMAIN events}

\* Every tile is in one hand at most, and those to come are in none.
Fair(e) ==
  /\ e.last < e.next
  /\ \A a \in Seats : \A t \in e.hand[a] : t < e.next
  /\ \A a, b \in Seats : a # b => e.hand[a] \cap e.hand[b] = {}

HandInv ==
  /\ Fair(engine) /\ Fair(Table)
  /\ \A a \in Seats :
       /\ Table.hand[a] = Got(history.current, a) \ Gone(history.current, a)
       /\ \A t \in Gone(history.current, a) : t < Table.next
  /\ decision.kind = "response" => \A a \in Seats : engine.last \notin engine.hand[a]

\* What the engine did when the Kyoku ended: it dealt the next one, or the Match is over.
NextDealt ==
  LET dealt == Dealt([held.table EXCEPT !.score = held.seq]) IN
  /\ engine = Drawn(dealt, 1) /\ decision = Turn(1)
  /\ held.future = <<Plain("end", 0, {})>> \o StartEvents(dealt)

MatchOver ==
  /\ decision = NoDecision
  /\ engine.hand = held.table.hand /\ engine.next = held.table.next
  /\ engine.kyoku = held.seq /\ engine.score = held.seq
  /\ \A a \in Audiences : Shown(engine, a) = Shown(held.table, a)
  /\ held.future = <<Plain("end", 0, {}), Plain("over", 0, {})>>

FiledInv ==
  /\ Len(history.previous) = history.seq - 1
  /\ \A i \in 1 .. Len(history.previous) :
       history.previous[i].seq = i /\ history.previous[i].settled
  /\ held.seq # 0 =>
       /\ history.seq = held.seq /\ held.table.kyoku = held.seq /\ ~history.done.settled
       /\ held.table.score = held.seq - (IF held.next > Len(held.wins) THEN 0 ELSE 1)
       /\ held.next > Len(held.wins) => Terminal(history.current) # {}
       /\ held.next <= Len(held.wins) => held.terminal # <<>>
       /\ MatchOver \/ NextDealt
  /\ held.seq = 0 =>
       /\ history.seq = engine.kyoku
       /\ engine.score = history.seq - (IF history.done.settled THEN 0 ELSE 1)
       /\ history.done.settled => decision = NoDecision

ViewsInv == TypeOK /\ KnownInv /\ HandInv /\ FiledInv /\ ClientIsCurrent
=============================================================================
