----------------------------- MODULE Settlement -----------------------------
(***************************************************************************)
(* The results of a Kyoku: how the engine adapter captures them             *)
(* (EngineAdapter::apply, finish_apply, result_record, crates/              *)
(* double_riichi_core/src/engine.rs), and how the replay reader joins them  *)
(* to the events of the Match (attach_result_records, crates/               *)
(* double_riichi_replay/src/frames.rs).                                     *)
(*                                                                          *)
(* The engine deals the next Kyoku within the step that ends one, so the    *)
(* adapter plays the step again on a copy that stops at the end of the      *)
(* Kyoku.  The reader has the events alone and must find the same           *)
(* boundaries, scores and pot in them.  The engine is external: what it     *)
(* pays is a parameter of its step, the same for the copy, which is a       *)
(* clone, hands and wall included.  A unit is 100 points.                   *)
(***************************************************************************)
EXTENDS Integers, Sequences, FiniteSets

CONSTANTS
  N,        \* Seats
  Kyokus,   \* bound: Kyoku of a Match
  Wall,     \* bound: tiles to draw in a Kyoku
  Points0,  \* the score everybody starts with
  Draws     \* the sets of Seats that may be tenpai at an exhaustive draw

VARIABLES
  engine,   \* the engine's state; its log holds what the adapter has not drained
  events,   \* the events of the Match, as the journal and the replay have them
  records,  \* the private results, one for each ended Kyoku
  status    \* "ok", or the divergence that ended the Match

vars == <<engine, events, records, status>>

Seats == 1..N

\* Both modes of the engine; the tables have three or four Seats.
Assumption ==
  /\ N \in {3, 4} /\ Kyokus \in Nat \ {0} /\ Wall \in Nat \ {0} /\ Points0 \in Nat
  /\ Draws \subseteq SUBSET Seats

Stick == 10
Zero == [s \in Seats |-> 0]
Plus(f, g) == [s \in Seats |-> f[s] + g[s]]
Less(f, g) == [s \in Seats |-> f[s] - g[s]]

\* The best score; of equal ones, the first Seat's.
Top(scores) ==
  CHOOSE s \in Seats : \A o \in Seats :
    scores[s] > scores[o] \/ (scores[s] = scores[o] /\ s <= o)

\* Where a log has events of some kinds, the k-th such place, and the events there.
At(log, kinds) == {i \in DOMAIN log : log[i].kind \in kinds}
Nth(places, k) == CHOOSE i \in places : Cardinality({j \in places : j <= i}) = k
Only(log, kinds) ==
  LET at == At(log, kinds) IN [k \in 1..Cardinality(at) |-> log[Nth(at, k)]]

Is(kind) == [kind |-> kind]
Terminals(log) == Only(log, {"hora", "ryukyoku"})
Has(log, kind) == \E i \in DOMAIN log : log[i].kind = kind

-----------------------------------------------------------------------------
(* The engine (riichienv) *)

Logged(e, ev) == [e EXCEPT !.log = Append(@, ev)]

\* What a hand of value 1 earns without the honba.
Share(double) == IF double THEN 20 ELSE 10
WinPoints(dealer, tsumo) ==
  CASE tsumo /\ dealer -> (N - 1) * Share(TRUE)
    [] tsumo /\ ~dealer -> (N - 2) * Share(FALSE) + Share(TRUE)
    [] OTHER -> IF dealer THEN 30 ELSE 20

StartKyoku(e) ==
  [kind |-> "start_kyoku", scores |-> e.scores, kyotaku |-> e.pot, oya |-> e.dealer]

NextDealer(e) == (e.dealer % N) + 1

Dealt(e) ==
  Logged([e EXCEPT !.kyoku = @ + 1, !.turn = e.dealer, !.left = Wall - 1,
                   !.pending = 0, !.reached = {}, !.owed = Zero, !.phase = "act",
                   !.won = <<>>],
         StartKyoku(e))

\* The Kyoku is over; the next one is this dealer's.
Over(e, dealer, honba) ==
  [e EXCEPT !.phase = "over", !.dealer = dealer, !.honba = honba]

\* The end: of the copy, and of the Match after the last Kyoku or when a score is
\* negative; the best then takes the pot.  Else the next Kyoku is dealt at once.
Ended(e, single) ==
  LET end == Logged(e, Is("end_kyoku"))
      top == Top(e.scores)
      last == e.kyoku = Kyokus \/ \E s \in Seats : e.scores[s] < 0
  IN
  CASE single -> Logged([end EXCEPT !.done = TRUE], Is("end_game"))
    [] ~single /\ last ->
         Logged([end EXCEPT !.done = TRUE, !.pot = 0, !.scores[top] = @ + e.pot * Stick],
                Is("end_game"))
    [] ~single /\ ~last -> Dealt(end)

Accepted(e) ==
  LET put(f) == [f EXCEPT ![e.pending] = @ - Stick] IN
  IF e.pending = 0 THEN e
  ELSE Logged([e EXCEPT !.pending = 0, !.reached = @ \cup {e.pending}, !.pot = @ + 1,
                        !.scores = put(@), !.owed = put(@)],
              [kind |-> "reach_accepted", actor |-> e.pending])

Draw(e, reason, payments, delta) ==
  LET paid == [e EXCEPT !.scores = Plus(@, payments)] IN
  Over(Logged(paid, [kind |-> "ryukyoku", reason |-> reason, delta |-> delta]),
       e.dealer, e.honba + 1)

\* Nagashi mangan adds to what the Seats already paid in the Kyoku, the payments
\* for tenpai replace it, and a draw without payments shows it.
Exhausted(e, luck) ==
  LET k == Cardinality(luck.tenpai)
      tenpai == [s \in Seats |-> IF s \in luck.tenpai THEN (10 * (N - 1)) \div k
                                 ELSE -((10 * (N - 1)) \div (N - k))]
      nagashi == [s \in Seats |-> IF s = luck.nagashi THEN 40 * (N - 1) ELSE -40]
  IN
  CASE luck.nagashi # 0 -> Draw(e, "nagashimangan", nagashi, Plus(e.owed, nagashi))
    [] luck.nagashi = 0 /\ k \in 1..N - 1 -> Draw(e, "exhaustive_draw", tenpai, tenpai)
    [] OTHER -> Draw(e, "exhaustive_draw", Zero, e.owed)

\* Nobody takes the discard: its riichi is accepted and the next Seat draws, unless
\* the Kyoku is drawn.
Passed(e, luck) ==
  LET a == Accepted(e) IN
  CASE luck.abort -> Draw(a, "abortive", Zero, Zero)
    [] ~luck.abort /\ a.left = 0 -> Exhausted(a, luck)
    [] OTHER -> Logged([a EXCEPT !.turn = (@ % N) + 1, !.left = @ - 1, !.phase = "act"],
                       Is("tsumo"))

\* The winner is paid, the first one the honba and the pot too.
Won(e, w) ==
  LET tsumo == w = e.turn
      base == WinPoints(w = e.dealer, tsumo)
      honba == IF tsumo \/ e.won = <<>> THEN e.honba ELSE 0
      pays(s) == IF tsumo THEN Share(e.dealer \in {s, w}) + honba
                 ELSE IF s = e.turn THEN base + 3 * honba ELSE 0
      takes == base + e.pot * Stick + honba * IF tsumo THEN N - 1 ELSE 3
      delta == [s \in Seats |-> IF s = w THEN takes ELSE -pays(s)]
  IN Logged([e EXCEPT !.scores = Plus(@, delta), !.pot = 0,
                      !.won = Append(@, [seat |-> w, honba |-> honba, base |-> base])],
            [kind |-> "hora", actor |-> w, target |-> e.turn, delta |-> delta])

\* One or two winners, in turn order after the Seat that pays.
Winners(e, ws) ==
  LET after(s) == (s - e.turn + N) % N
      first == CHOOSE s \in ws : \A o \in ws : after(s) <= after(o)
      one == Won(e, first)
      won == IF ws = {first} THEN one ELSE Won(one, CHOOSE s \in ws : s # first)
  IN IF e.dealer \in ws THEN Over(won, e.dealer, e.honba + 1)
     ELSE Over(won, NextDealer(e), 0)

\* One command of a batch.
Step(e, command, luck) ==
  CASE command.do = "riichi" -> Logged([e EXCEPT !.pending = e.turn], Is("reach"))
    [] command.do = "discard" ->
         LET d == Logged(e, Is("dahai")) IN
         IF luck.heard THEN [d EXCEPT !.phase = "respond"] ELSE Passed(d, luck)
    [] command.do = "pass" -> Passed(e, luck)
    [] command.do = "nine" -> Draw(e, "kyushu_kyuhai", Zero, Zero)
    [] command.do = "win" -> Winners([e EXCEPT !.pending = 0], command.who)

\* A batch of one or two commands, on the Match or on a copy that stops with the Kyoku.
Run(e, single, batch, luck) ==
  LET one == Step(e, batch[1], luck)
      all == IF Len(batch) = 1 THEN one ELSE Step(one, batch[2], luck)
  IN IF all.phase = "over" THEN Ended(all, single) ELSE all

\* The legal batches of a turn: a riichi is declared together with its discard.
Turns(e) ==
  {<<[do |-> "discard"]>>, <<[do |-> "win", who |-> {e.turn}]>>}
  \cup (IF e.left = Wall - 1 THEN {<<[do |-> "nine"]>>} ELSE {})
  \cup (IF e.turn \notin e.reached /\ e.scores[e.turn] >= Stick
        THEN {<<[do |-> "riichi"], [do |-> "discard"]>>} ELSE {})

\* All answers to a discard are one batch of one command.
Answers(e) ==
  {<<[do |-> "pass"]>>} \cup {<<[do |-> "win", who |-> ws]>> :
      ws \in {ws \in SUBSET (Seats \ {e.turn}) : Cardinality(ws) \in 1..2}}

\* What the hands and the wall decide.
Lucks(e) ==
  {[heard |-> h, abort |-> a, tenpai |-> t, nagashi |-> n] :
     h \in BOOLEAN, a \in BOOLEAN, n \in {0} \cup (IF e.left = 0 THEN {N} ELSE {}),
     t \in IF e.left = 0 THEN Draws ELSE {{}}}

-----------------------------------------------------------------------------
(* The adapter *)

\* The pot goes to the best when the Match ends with it.
AwardedByEnd(copy, real) ==
  IF real.done /\ copy.pot > 0 /\ real.pot = 0
  THEN [copy.scores EXCEPT ![Top(copy.scores)] = @ + copy.pot * Stick]
  ELSE copy.scores

\* The copy stopped where the Kyoku ended, with the same terminal events, one result
\* for each winner, and the scores and pot the real step left.
CaptureAgrees(copy, real, new) ==
  /\ copy.done /\ ~Has(copy.log, "start_kyoku")
  /\ Terminals(copy.log) = Terminals(new)
  /\ Len(copy.won) = Cardinality(At(new, {"hora"}))
  /\ real.pot = copy.pot \/ (real.done /\ real.pot = 0)
  /\ real.scores = AwardedByEnd(copy, real)

\* What the engine paid a winner is what the adapter calculates, and the honba goes to
\* the first winner of a discard only.
Agreed(before, adjudicated, later, tsumo, points) ==
  /\ adjudicated.base = points
  /\ adjudicated.honba = IF tsumo \/ ~later THEN before.honba ELSE 0

WinRecord(before, copy, new, first, i) ==
  LET ev == new[i]
      later == \E j \in 1..i - 1 : new[j].kind = "hora"
      adjudicated == copy.won[CHOOSE k \in DOMAIN copy.won : copy.won[k].seat = ev.actor]
      tsumo == ev.actor = ev.target
      points == WinPoints(ev.actor = before.dealer, tsumo)
  IN [index |-> first + i - 1, seat |-> ev.actor, target |-> ev.target, tsumo |-> tsumo,
      points |-> points, agreed |-> Agreed(before, adjudicated, later, tsumo, points)]

\* The settlement starts before the batch that ends the Kyoku and ends with the real
\* scores.
Settled(before, real) ==
  [s \in Seats |-> [before |-> before.scores[s], after |-> real.scores[s],
                    delta |-> real.scores[s] - before.scores[s]]]

\* An emitted draw delta may hold payments made earlier: what it holds beyond the
\* movement of the batch is kept as evidence.
Adjustment(before, copy, draw) == Less(draw.delta, Less(copy.scores, before.scores))

ResultRecord(before, copy, real, new, sequence, first) ==
  LET wins == At(new, {"hora"})
      draws == At(new, {"ryukyoku"})
      draw == new[Nth(draws, 1)]
  IN [seq |-> sequence,
      end |-> first + Nth(At(new, {"end_kyoku"}), 1) - 1,
      wins |-> [k \in 1..Cardinality(wins) |->
                  WinRecord(before, copy, new, first, Nth(wins, k))],
      changes |-> Settled(before, real),
      potBefore |-> before.pot, potAfter |-> real.pot,
      reason |-> IF draws = {} THEN "" ELSE draw.reason,
      adjustment |-> IF draws = {} THEN <<>> ELSE <<Adjustment(before, copy, draw)>>]

\* What a win of a record must satisfy, for the writer and for the reader.
WinValid(r, i) ==
  LET w == r.wins[i] IN
  /\ \A j \in 1..i - 1 : r.wins[j].seat # w.seat /\ r.wins[j].index < w.index
  /\ w.tsumo = (w.seat = w.target) /\ w.index < r.end
  /\ w.points \in {WinPoints(d, w.tsumo) : d \in BOOLEAN}

RecordValid(r) ==
  /\ r.seq # 0
  /\ \A s \in Seats : r.changes[s].before + r.changes[s].delta = r.changes[s].after
  /\ (r.wins = <<>>) = (r.reason # "")
  /\ (r.wins = <<>>) = (r.adjustment # <<>>)
  /\ \A i \in DOMAIN r.wins : WinValid(r, i)

\* Ranks follow the scores, equal ones the Seats.
Ranks(scores) ==
  [s \in Seats |-> 1 + Cardinality({o \in Seats : scores[o] > scores[s]
                                      \/ (scores[o] = scores[s] /\ o < s)})]

Init ==
  /\ engine = [Dealt([scores |-> [s \in Seats |-> Points0], pot |-> 0, dealer |-> 1,
                      honba |-> 0, kyoku |-> 0, turn |-> 1, left |-> 0, pending |-> 0,
                      reached |-> {}, owed |-> Zero, phase |-> "act", won |-> <<>>,
                      done |-> FALSE, log |-> <<>>])
               EXCEPT !.log = <<>>]
  /\ events = <<Is("start_game"),
                [kind |-> "start_kyoku", scores |-> [s \in Seats |-> Points0],
                 kyotaku |-> 0, oya |-> 1]>>
  /\ records = <<>> /\ status = "ok"

\* finish_apply, and the Machine's record_outcome, on what the step and its copy left.
Resolve(real, copy) ==
  LET new == real.log
      sequence == Cardinality(At(events, {"start_kyoku"}))
      record == ResultRecord(engine, copy, real, new, sequence, Len(events) + 1)
  IN
  /\ engine' = [real EXCEPT !.log = <<>>]
  /\ CASE ~Has(new, "end_kyoku") ->
            events' = events \o new /\ UNCHANGED <<records, status>>
       [] Has(new, "end_kyoku") /\ CaptureAgrees(copy, real, new)
             /\ RecordValid(record) /\ \A i \in DOMAIN record.wins : record.wins[i].agreed ->
            events' = events \o new /\ records' = Append(records, record) /\ UNCHANGED status
       [] OTHER -> status' = "diverged" /\ UNCHANGED <<events, records>>

\* A batch, on a Match that goes on.
Apply(batch, luck) ==
  /\ status = "ok" /\ ~engine.done
  /\ Resolve(Run(engine, FALSE, batch, luck), Run(engine, TRUE, batch, luck))

\* apply.
Act ==
  /\ engine.phase = "act"
  /\ \E batch \in Turns(engine), luck \in Lucks(engine) : Apply(batch, luck)

\* apply_simultaneous.
Respond ==
  /\ engine.phase = "respond"
  /\ \E batch \in Answers(engine), luck \in Lucks(engine) : Apply(batch, luck)

Next == Act \/ Respond

Spec == Init /\ [][Next]_vars

-----------------------------------------------------------------------------
(* The reader *)

\* The scores and the pot a frame shows before the results are joined: a riichi
\* deposit moves the pot only.
Shown(f, ev) ==
  CASE ev.kind = "start_kyoku" -> [scores |-> ev.scores, pot |-> ev.kyotaku]
    [] ev.kind = "reach_accepted" -> [f EXCEPT !.pot = @ + 1]
    [] ev.kind = "hora" -> [f EXCEPT !.pot = 0]
    [] OTHER -> f

Frames ==
  LET blank == [scores |-> Zero, pot |-> 0]
      at[i \in 0..Len(events)] == IF i = 0 THEN blank ELSE Shown(at[i - 1], events[i])
  IN [i \in DOMAIN events |-> at[i]]

Starts == At(events, {"start_kyoku"})
Start(k) == Nth(Starts, k)
NextStart(k) == IF k < Cardinality(Starts) THEN Start(k + 1) ELSE Len(events) + 1
TerminalsIn(start, end) ==
  {i \in start + 1..end - 1 : events[i].kind \in {"hora", "ryukyoku"}}

\* One record for each Kyoku, in order, ending inside it.
BoundaryFits(k, r) ==
  /\ r.seq = k /\ r.end \in Start(k) + 1..NextStart(k) - 1 /\ r.end <= Len(events)
  /\ events[r.end].kind = "end_kyoku"
  /\ \A i \in DOMAIN r.wins :
       /\ r.wins[i].index \in Start(k) + 1..r.end - 1
       /\ events[r.wins[i].index].kind = "hora"

\* The wins or the draw of a record are the terminal events of its Kyoku.
TerminalsFit(k, r) ==
  LET terminal == TerminalsIn(Start(k), r.end)
      oya == events[Start(k)].oya
  IN
  /\ terminal # {} /\ Cardinality(terminal) = Len(r.wins) + IF r.wins = <<>> THEN 1 ELSE 0
  /\ \A i \in DOMAIN r.wins : r.wins[i].points = WinPoints(r.wins[i].seat = oya, r.wins[i].tsumo)
  /\ \A t \in terminal :
       LET ev == events[t] IN
       IF ev.kind = "hora"
       THEN \E i \in DOMAIN r.wins :
              r.wins[i].index = t /\ r.wins[i].seat = ev.actor /\ r.wins[i].target = ev.target
       ELSE r.wins = <<>> /\ ev.reason = r.reason

\* What the events of the Kyoku say was reached at event `to`.
Deposits(start, to) == {i \in start + 1..to : events[i].kind = "reach_accepted"}
DepositsOf(s, start, to) == {i \in Deposits(start, to) : events[i].actor = s}
Reached(start, to) ==
  [pot |-> events[start].kyotaku + Cardinality(Deposits(start, to)),
   scores |-> [s \in Seats |->
                 events[start].scores[s] - Stick * Cardinality(DepositsOf(s, start, to))]]

\* Slip: the record may start anywhere in the Kyoku.
BeforeAnywhere(start, terminal, end, r) ==
  \E i \in start..terminal - 1 :
    Reached(start, i) = [pot |-> r.potBefore, scores |-> [s \in Seats |-> r.changes[s].before]]

\* The record starts at the last point of the Kyoku with its scores and pot; one riichi
\* may be accepted after it, directly before the terminal event.
BeforeFits(start, terminal, end, r) ==
  LET before == [pot |-> r.potBefore, scores |-> [s \in Seats |-> r.changes[s].before]]
      deposits == Deposits(start, terminal - 1)
      fits == {i \in {start} \cup deposits : Reached(start, i) = before}
      later == {i \in deposits : \A b \in fits : b < i}
  IN /\ fits # {}
     /\ later = {} \/ later = {terminal - 1}
     /\ Deposits(terminal - 1, end - 1) = {}

\* The Kyoku that follows starts with what the record left.
NextFits(k, r) ==
  k < Cardinality(Starts) =>
    LET next == events[Start(k + 1)] IN
    next.kyotaku = r.potAfter /\ next.scores = [s \in Seats |-> r.changes[s].after]

\* One win pays after the other; a Kyoku has at most two.
Paid(scores, first, last) ==
  LET one == Plus(scores, events[first].delta) IN
  IF first = last THEN one ELSE Plus(one, events[last].delta)

SettlementFits(k, r) ==
  LET start == Start(k)
      terminal == TerminalsIn(start, r.end)
      first == Nth(terminal, 1)
      reached == Reached(start, first - 1)
      award == /\ k = Cardinality(Starts) /\ r.wins = <<>> /\ reached.pot > 0
               /\ \E i \in r.end + 1..Len(events) : events[i].kind = "end_game"
      after == [s \in Seats |-> r.changes[s].after]
      before == [s \in Seats |-> r.changes[s].before]
      unawarded == IF award THEN [after EXCEPT ![Top(after)] = @ - reached.pot * Stick] ELSE after
  IN
  /\ BeforeFits(start, first, r.end, r)
  /\ r.potAfter = IF r.wins # <<>> \/ award THEN 0 ELSE reached.pot
  /\ IF r.wins = <<>>
     THEN /\ Cardinality(terminal) = 1
          /\ award => Top(unawarded) = Top(after)
          /\ Plus(Less(unawarded, before), r.adjustment[1]) = events[first].delta
     ELSE Paid(reached.scores, first, Nth(terminal, Cardinality(terminal))) = after
  /\ NextFits(k, r)

\* attach_result_records.
Joins(rs) ==
  /\ Len(rs) = Cardinality(Starts) /\ rs # <<>>
  /\ \A k \in DOMAIN rs : BoundaryFits(k, rs[k])
  /\ \A k \in DOMAIN rs : RecordValid(rs[k]) /\ TerminalsFit(k, rs[k]) /\ SettlementFits(k, rs[k])

\* From the end of a Kyoku to the next one the joined frames show its settlement.
Joined ==
  [i \in DOMAIN events |->
     LET ks == {k \in DOMAIN records : i \in records[k].end..NextStart(k) - 1} IN
     IF ks = {} THEN Frames[i]
     ELSE LET r == records[CHOOSE k \in ks : TRUE] IN
          [scores |-> [s \in Seats |-> r.changes[s].after], pot |-> r.potAfter]]

-----------------------------------------------------------------------------

\* Legal play never diverges from its copy, and the results of a whole Match are
\* accepted by the reader, whose frames end with the Machine's own scores and rank
\* first whom the engine gave the pot (engine.rs finish_apply, frames.rs
\* attach_result_records).
ResultsAreReadable ==
  /\ status = "ok"
  /\ engine.done =>
       LET joined == Joined[Len(events)] IN
       /\ Joins(records)
       /\ joined = [scores |-> engine.scores, pot |-> engine.pot]
       /\ \A s \in Seats : Ranks(engine.scores)[s] = 1 => s = Top(joined.scores)

\* There are three or four Seats.
Total(scores) == scores[1] + scores[2] + scores[3] + IF N = 4 THEN scores[4] ELSE 0

\* No point and no deposit is lost or made: in every frame that shows the end of a
\* Kyoku, and in the results, they add up (engine.rs result_record, frames.rs
\* apply_settlement_projection).
PointsAreKept ==
  \A k \in DOMAIN records :
    /\ Total([s \in Seats |-> records[k].changes[s].after]) + records[k].potAfter * Stick
         = N * Points0
    /\ engine.done => LET f == Joined[records[k].end] IN
                      Total(f.scores) + f.pot * Stick = N * Points0

\* The settlement told from the start of the Kyoku, the evidence of a draw with it.
FromStart(r, ev) ==
  LET before == [s \in Seats |-> r.changes[s].before] IN
  [r EXCEPT !.potBefore = ev.kyotaku,
            !.changes = [s \in Seats |-> [@[s] EXCEPT !.before = ev.scores[s],
                                                     !.delta = r.changes[s].after - ev.scores[s]]],
            !.adjustment = IF @ = <<>> THEN @
                           ELSE <<Plus(@[1], Less(ev.scores, before))>>]

\* The settlement of a draw with another score, the evidence with it.  The reader can
\* tell by the Kyoku that follows only.
WithEvidence(r) ==
  IF r.adjustment = <<>> THEN {}
  ELSE {[r EXCEPT !.changes[s].after = @ + Stick, !.changes[s].delta = @ + Stick,
                  !.adjustment[1][s] = @ - Stick] : s \in Seats}

\* The money of a Seat, before or after the settlement, changed by x.
BeforeBy(r, s, x) == [r EXCEPT !.changes[s].before = @ - x, !.changes[s].delta = @ + x]
AfterBy(r, s, x) == [r EXCEPT !.changes[s].after = @ - x, !.changes[s].delta = @ - x]
OtherMoney(r, s) ==
  {BeforeBy(r, s, Stick), BeforeBy(r, s, -Stick), AfterBy(r, s, Stick), AfterBy(r, s, -Stick)}

\* Another winner, another payment for a win.
WonByOther(r, i, s) ==
  LET tsumo == s = r.wins[i].target IN
  [r EXCEPT !.wins[i] = [@ EXCEPT !.seat = s, !.tsumo = tsumo]]
WonFor(r, i, p) == [r EXCEPT !.wins[i].points = p]
Payments == {WinPoints(d, TRUE) : d \in BOOLEAN} \cup {WinPoints(d, FALSE) : d \in BOOLEAN}
OtherWin(r, i) ==
  {WonByOther(r, i, s) : s \in Seats \ {r.wins[j].seat : j \in DOMAIN r.wins}}
  \cup {WonFor(r, i, p) : p \in Payments}

\* Another reason for a draw, a win less.
OtherEnd(r) ==
  IF r.wins = <<>> THEN {[r EXCEPT !.reason = "other"], [r EXCEPT !.reason = ""]}
  ELSE {[r EXCEPT !.wins = SubSeq(@, 1, Len(@) - 1)]}

\* A record with one of its facts changed.
Changed(r) ==
  {[r EXCEPT !.potBefore = @ + 1], [r EXCEPT !.potAfter = @ + 1], [r EXCEPT !.seq = @ + 1],
   [r EXCEPT !.end = @ - 1], [r EXCEPT !.end = @ + 1]}
  \cup (UNION {OtherMoney(r, s) : s \in Seats})
  \cup (UNION {OtherWin(r, i) : i \in DOMAIN r.wins})
  \cup OtherEnd(r)

\* The reader accepts no record that says anything else than the Match did (frames.rs
\* validate_canonical_settlement).
ChangedResultsAreRefused ==
  engine.done =>
    \A k \in DOMAIN records :
      LET r == records[k]
          told == Changed(r) \cup {FromStart(r, events[Start(k)])}
                  \cup (IF k < Len(records) THEN WithEvidence(r) ELSE {})
      IN \A c \in told \ {r} : ~Joins([records EXCEPT ![k] = c])
=============================================================================
