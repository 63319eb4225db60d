---------------------------- MODULE ReplayFrames ----------------------------
(***************************************************************************)
(* From the table to the frames of a replay: the engine's log is parsed     *)
(* into events (parse_event, crates/double_riichi_core/src/engine.rs),      *)
(* written as MJSON and parsed again (event_value, parse_value,             *)
(* crates/double_riichi_replay/src/mjson.rs), and the events rebuild the    *)
(* table (ReplayState::apply, frames.rs).                                   *)
(*                                                                          *)
(* A tile is a kind and a copy, a name has the kind and whether it is the   *)
(* red five: on its way through the file a tile loses its copy.  The reader *)
(* is run along with the table, event by event, as it folds the whole file  *)
(* later; of a hand it keeps how often it has each tile, the order is left  *)
(* out.  The engine's rules are external, reduced to who may take which     *)
(* tiles; hands have HandSize tiles.                                        *)
(***************************************************************************)
EXTENDS Integers, Sequences, FiniteSets, SequencesExt

CONSTANTS
  N,         \* Seats
  Sanma,     \* whether this is a three-player mode: kita, no chi
  HandSize,  \* tiles of a hand (13 in the code)
  Kinds,     \* the kinds of tiles (34 in the code)
  Fives,     \* the kinds with a red copy, copy 0
  North,     \* the kind of the North tile
  Deals,     \* the deals of a Kyoku: hands of tiles and the wall
  Kyokus     \* bound: Kyoku of a Match

VARIABLES
  table,  \* what the engine has
  frame   \* what the reader has rebuilt from the file so far

vars == <<table, frame>>

Seats == 1..N
Tiles == Kinds \X (0..3)

\* The tiles of a deal are all different.
DealAssumption(deal) ==
  LET hands == deal.hands wall == deal.wall IN
  /\ hands \in [Seats -> Seq(Tiles)] /\ wall \in Seq(Tiles)
  /\ \A s \in Seats : Len(hands[s]) = HandSize /\ IsInjective(hands[s])
                     /\ ToSet(hands[s]) \cap ToSet(wall) = {}
  /\ \A s, r \in Seats : s # r => ToSet(hands[s]) \cap ToSet(hands[r]) = {}
  /\ IsInjective(wall)

Assumption ==
  /\ N \in Nat \ {0} /\ HandSize \in Nat /\ Kyokus \in Nat /\ Sanma \in BOOLEAN
  /\ Kinds \subseteq Nat /\ Fives \subseteq Kinds /\ North \in Kinds \ Fives
  /\ \A deal \in Deals : DealAssumption(deal)

Kind(t) == t[1]
Red(t) == Kind(t) \in Fives /\ t[2] = 0

-----------------------------------------------------------------------------
(* Names *)

\* tile_name.
Name(t) == [kind |-> Kind(t), red |-> Red(t)]

\* Slip: a five is read as the first copy of its kind, which is the red one.
FirstCopy(n) == <<n.kind, 0>>

\* parse_tile: the red five, or the first copy that is not red.
Parsed(n) == <<n.kind, IF ~n.red /\ n.kind \in Fives THEN 1 ELSE 0>>

Blank == [kind |-> "", actor |-> 1, target |-> 1, tile |-> <<>>, tiles |-> <<>>, hands |-> <<>>]

Each(seq, op(_)) == [i \in DOMAIN seq |-> op(seq[i])]
EachHand(hands, op(_)) == [s \in DOMAIN hands |-> Each(hands[s], op)]
Mapped(ev, op(_)) ==
  [ev EXCEPT !.tile = Each(@, op), !.tiles = Each(@, op), !.hands = EachHand(@, op)]

\* event_value and parse_value.
Written(ev) == Mapped(ev, Name)
Read(line) == Mapped(line, Parsed)

\* The engine logs names.  It does not log what a kakan adds to: that is taken from
\* the applied action, with the copies.
Logged(ev) ==
  LET parsed == Read(Written(ev)) IN
  IF ev.kind = "kakan" THEN [parsed EXCEPT !.tiles = ev.tiles] ELSE parsed

-----------------------------------------------------------------------------
(* The reader *)

Open == {"pon", "chi", "daiminkan"}

\* validate_event.
EventValid(ev) ==
  /\ ev.actor \in Seats /\ ev.target \in Seats
  /\ ev.kind = "start_kyoku" =>
       Len(ev.hands) = N /\ \A s \in Seats : Len(ev.hands[s]) = HandSize
  /\ ev.kind \in {"pon", "chi"} => Len(ev.tiles) = 2
  /\ ev.kind \in {"daiminkan", "kakan"} => Len(ev.tiles) = 3
  /\ ev.kind = "ankan" => Len(ev.tiles) = 4
  /\ ev.kind = "kita" => Sanma

\* A hand is how often it has each tile.
Count(seq, t) == Cardinality({i \in DOMAIN seq : seq[i] = t})
HandOf(seq) == [t \in Tiles |-> Count(seq, t)]
Holds(hand, tiles) == \A t \in Tiles : hand[t] >= Count(tiles, t)
Without(hand, tiles) == [t \in Tiles |-> hand[t] - Count(tiles, t)]
Plus(hand, tiles) == [t \in Tiles |-> hand[t] + Count(tiles, t)]

\* Three kinds in a row, whatever their suits: the honors begin three kinds before North.
IsSequence(kinds) == \E k \in kinds : kinds = k..k + 2 /\ k + 2 < North - 3

\* A sequence, or tiles of one kind.
KindsOf(seq) == {Kind(t) : t \in ToSet(seq)}
MeldValid(ev) ==
  LET kinds == KindsOf(ev.tiles \o ev.tile) IN
  IF ev.kind = "chi" THEN IsSequence(kinds)
  ELSE kinds = {Kind(ev.tile[1])}

\* The open triplet a kakan adds to: the first of its kind.
Triplets(melds, tile) ==
  {i \in DOMAIN melds : melds[i].opened /\ Len(melds[i].tiles) = 3
                        /\ KindsOf(melds[i].tiles) = {Kind(tile)}}

Norths(hand) == {t \in Tiles : Kind(t) = North /\ hand[t] > 0}
First(S) == CHOOSE i \in S : \A j \in S : i <= j

\* What ReplayState::apply returns an error for.
Fits(f, ev) ==
  LET hand == f.hands[ev.actor] IN
  CASE ev.kind = "start_kyoku" -> ~f.active
    [] ev.kind = "end_game" -> TRUE
    [] ev.kind = "dahai" -> f.active /\ Holds(hand, ev.tile)
    [] ev.kind \in Open -> f.active /\ ev.actor # ev.target /\ MeldValid(ev) /\ Holds(hand, ev.tiles)
    [] ev.kind = "kakan" -> f.active /\ Holds(hand, ev.tile) /\ Triplets(f.melds[ev.actor], ev.tile[1]) # {}
    [] ev.kind = "ankan" -> f.active /\ KindsOf(ev.tiles) = {Kind(ev.tiles[1])}
                            /\ Holds(hand, ev.tiles)
    [] ev.kind = "kita" -> f.active /\ Norths(hand) # {}
    [] OTHER -> f.active

\* A Kyoku clears what the last one left.
Started(f, ev) ==
  [f EXCEPT !.active = TRUE, !.hands = [s \in Seats |-> HandOf(ev.hands[s])],
            !.discards = [s \in Seats |-> <<>>], !.melds = [s \in Seats |-> <<>>],
            !.riichi = {}, !.pending = {}, !.index = [s \in Seats |-> 0]]

Discarded(f, ev) ==
  LET a == ev.actor
      d == [f EXCEPT !.hands[a] = Without(@, ev.tile), !.discards[a] = @ \o ev.tile]
  IN IF a \notin f.pending THEN d
     ELSE [d EXCEPT !.pending = @ \ {a}, !.index[a] = Len(f.discards[a]) + 1]

Called(f, ev) ==
  [f EXCEPT !.hands[ev.actor] = Without(@, ev.tiles),
            !.melds[ev.actor] = Append(@, [tiles |-> ev.tiles \o ev.tile, opened |-> ev.kind \in Open,
                                           from |-> ev.target])]

Added(f, ev) ==
  LET i == First(Triplets(f.melds[ev.actor], ev.tile[1])) IN
  [f EXCEPT !.hands[ev.actor] = Without(@, ev.tile), !.melds[ev.actor][i].tiles = @ \o ev.tile]

Applied(f, ev) ==
  CASE ev.kind = "start_kyoku" -> Started(f, ev)
    [] ev.kind = "tsumo" -> [f EXCEPT !.hands[ev.actor] = Plus(@, ev.tile)]
    [] ev.kind = "dahai" -> Discarded(f, ev)
    [] ev.kind \in Open \cup {"ankan"} -> Called(f, ev)
    [] ev.kind = "kakan" -> Added(f, ev)
    [] ev.kind = "kita" ->
         [f EXCEPT !.hands[ev.actor] = Without(@, <<CHOOSE t \in Norths(@) : TRUE>>)]
    [] ev.kind = "reach" -> [f EXCEPT !.riichi = @ \cup {ev.actor}, !.pending = @ \cup {ev.actor}]
    [] ev.kind = "end_kyoku" -> [f EXCEPT !.active = FALSE]
    [] OTHER -> f

\* build_replay_frames: one event that does not fit, and there are no frames.
Framed(f, ev) ==
  LET r == Read(Written(Logged(ev))) IN
  IF f.ok /\ EventValid(r) /\ Fits(f, r) THEN Applied(f, r) ELSE [f EXCEPT !.ok = FALSE]

-----------------------------------------------------------------------------
(* The table *)

Ev(kind, actor) == [Blank EXCEPT !.kind = kind, !.actor = actor]
With(kind, actor, tile, tiles) == [Ev(kind, actor) EXCEPT !.tile = <<tile>>, !.tiles = tiles]
From(ev, target) == [ev EXCEPT !.target = target]

\* The engine's step, and the frame after the events it logs.
Step(t, f) == table' = t /\ frame' = f

DealOf(deal, kyoku) ==
  [hands |-> [s \in Seats |-> ToSet(deal.hands[s])], wall |-> deal.wall,
   melds |-> [s \in Seats |-> <<>>], discards |-> [s \in Seats |-> <<>>],
   riichi |-> {}, index |-> [s \in Seats |-> 0], turn |-> 1, phase |-> "draw", last |-> <<>>,
   drawn |-> <<>>, kyoku |-> kyoku]
StartOf(deal) == [Ev("start_kyoku", 1) EXCEPT !.hands = deal.hands]

Init ==
  \E deal \in Deals :
    /\ table = DealOf(deal, 1)
    /\ frame = Framed([ok |-> TRUE, active |-> FALSE, hands |-> [s \in Seats |-> HandOf(<<>>)],
                       melds |-> [s \in Seats |-> <<>>], discards |-> [s \in Seats |-> <<>>],
                       riichi |-> {}, pending |-> {}, index |-> [s \in Seats |-> 0]], StartOf(deal))

Hand == table.hands[table.turn]

Draw ==
  /\ table.phase = "draw" /\ table.wall # <<>>
  /\ LET tile == Head(table.wall) IN
     Step([table EXCEPT !.hands[table.turn] = @ \cup {tile}, !.wall = Tail(@),
                        !.phase = "act", !.drawn = <<tile>>],
          Framed(frame, With("tsumo", table.turn, tile, <<>>)))

\* After a riichi the drawn tile must go.
Discard(declare) ==
  /\ table.phase = "act"
  /\ declare => table.turn \notin table.riichi /\ table.wall # <<>>
                /\ \A i \in DOMAIN table.melds[table.turn] : ~table.melds[table.turn][i].opened
  /\ \E tile \in Hand :
       /\ table.turn \in table.riichi => <<tile>> = table.drawn
       /\ LET t == [table EXCEPT !.hands[table.turn] = @ \ {tile},
                                 !.discards[table.turn] = Append(@, tile),
                                 !.phase = "respond", !.last = <<tile>>, !.drawn = <<>>]
              dahai == With("dahai", table.turn, tile, <<>>)
          IN IF declare
             THEN Step([t EXCEPT !.riichi = @ \cup {table.turn},
                                 !.index[table.turn] = Len(table.discards[table.turn]) + 1],
                       Framed(Framed(frame, Ev("reach", table.turn)), dahai))
             ELSE Step(t, Framed(frame, dahai))

\* Another Seat takes the discard, with a triplet, a sequence or a quad of its hand.
CallWith(kind, caller, used) ==
  LET tile == table.last[1]
      tiles == SetToSeq(used)
      meld == [tiles |-> Append(tiles, tile), opened |-> TRUE, from |-> table.turn]
  IN Step([table EXCEPT !.hands[caller] = @ \ used, !.melds[caller] = Append(@, meld),
                        !.turn = caller, !.last = <<>>,
                        !.phase = IF kind = "daiminkan" THEN "draw" ELSE "act"],
          Framed(frame, From(With(kind, caller, tile, tiles), table.turn)))

Call ==
  /\ table.phase = "respond" /\ table.wall # <<>>
  /\ \E caller \in Seats \ ({table.turn} \cup table.riichi) :
     \E used \in SUBSET table.hands[caller] :
       LET tile == table.last[1]
           kinds == {Kind(t) : t \in used \cup {tile}}
       IN
       \/ /\ kinds = {Kind(tile)} /\ Cardinality(used) = 2
          /\ CallWith("pon", caller, used)
       \/ /\ kinds = {Kind(tile)} /\ Cardinality(used) = 3
          /\ CallWith("daiminkan", caller, used)
       \/ /\ ~Sanma /\ caller = (table.turn % N) + 1 /\ Cardinality(used) = 2
          /\ IsSequence(kinds)
          /\ CallWith("chi", caller, used)

Kan ==
  /\ table.phase = "act" /\ table.drawn # <<>> /\ table.wall # <<>>
  /\ \E used \in SUBSET Hand :
       /\ Cardinality(used) = 4 /\ \A t, u \in used : Kind(t) = Kind(u)
       /\ LET tiles == SetToSeq(used)
              meld == [tiles |-> tiles, opened |-> FALSE, from |-> table.turn]
          IN Step([table EXCEPT !.hands[table.turn] = @ \ used, !.phase = "draw", !.drawn = <<>>,
                                !.melds[table.turn] = Append(@, meld)],
                  Framed(frame, From([Ev("ankan", table.turn) EXCEPT !.tiles = tiles], table.turn)))

AddToPon ==
  /\ table.phase = "act" /\ table.drawn # <<>> /\ table.wall # <<>>
  /\ \E i \in DOMAIN table.melds[table.turn], tile \in Hand :
       LET meld == table.melds[table.turn][i] IN
       /\ meld.opened /\ Len(meld.tiles) = 3 /\ KindsOf(meld.tiles) = {Kind(tile)}
       /\ Step([table EXCEPT !.hands[table.turn] = @ \ {tile}, !.phase = "draw", !.drawn = <<>>,
                             !.melds[table.turn][i].tiles = Append(@, tile)],
               Framed(frame, With("kakan", table.turn, tile, meld.tiles)))

Kita ==
  /\ Sanma /\ table.phase = "act" /\ table.drawn # <<>> /\ table.wall # <<>>
  /\ \E tile \in Hand :
       /\ Kind(tile) = North
       /\ table.turn \in table.riichi => <<tile>> = table.drawn
       /\ Step([table EXCEPT !.hands[table.turn] = @ \ {tile}, !.phase = "draw", !.drawn = <<>>],
               Framed(frame, Ev("kita", table.turn)))

\* The Kyoku ends with a win, at any turn or discard, or with the wall; the next one
\* is dealt in the same batch.
End(kind) ==
  LET ended == Framed(Framed(frame, Ev(kind, table.turn)), Ev("end_kyoku", 1)) IN
  IF table.kyoku = Kyokus
  THEN Step([table EXCEPT !.phase = "over"], Framed(ended, Ev("end_game", 1)))
  ELSE \E deal \in Deals : Step(DealOf(deal, table.kyoku + 1), Framed(ended, StartOf(deal)))

Win == table.phase \in {"act", "respond"} /\ End("hora")

Pass ==
  /\ table.phase = "respond"
  /\ IF table.wall = <<>> THEN End("ryukyoku")
     ELSE Step([table EXCEPT !.turn = (@ % N) + 1, !.phase = "draw", !.last = <<>>],
               IF table.turn \in table.riichi /\ table.index[table.turn] = Len(table.discards[table.turn])
               THEN Framed(frame, Ev("reach_accepted", table.turn)) ELSE frame)

Next ==
  \/ Draw \/ Discard(FALSE) \/ Discard(TRUE) \/ Call \/ Kan \/ AddToPon \/ Kita \/ Win \/ Pass

Spec == Init /\ [][Next]_vars

-----------------------------------------------------------------------------

\* How often a hand of the reader has a name.
Shows(hand, n) ==
  LET of(copy) == IF Name(<<n.kind, copy>>) = n THEN hand[<<n.kind, copy>>] ELSE 0
  IN  of(0) + of(1) + of(2) + of(3)

\* The file of a Match can be read, and each frame has the hands, the melds and the
\* riichi of the table, although the file tells the copies of a tile apart by the red
\* five alone (frames.rs ReplayState::apply, mjson.rs tile_name, parse_tile).
FramesShowTheTable ==
  /\ frame.ok
  /\ frame.active = (table.phase # "over")
  /\ frame.active =>
       \A s \in Seats :
         /\ \A n \in {Name(t) : t \in Tiles} :
              Shows(frame.hands[s], n) = Cardinality({t \in table.hands[s] : Name(t) = n})
         /\ Len(frame.melds[s]) = Len(table.melds[s])
         /\ \A i \in DOMAIN table.melds[s] :
              LET shown == frame.melds[s][i] real == table.melds[s][i] IN
              /\ Each(shown.tiles, Name) = Each(real.tiles, Name)
              /\ shown.opened = real.opened /\ shown.from = real.from
         /\ (s \in frame.riichi) = (s \in table.riichi)
         /\ frame.index[s] = table.index[s]
=============================================================================
