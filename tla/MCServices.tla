----------------------------- MODULE MCServices -----------------------------
(* Small instances of Services for TLC. *)
EXTENDS Services

\* Two sessions of one Bot Token.
McpInstance ==
  [S |-> {"s1", "s2"}, Id |-> {"bot"}, Token |-> {"token"},
   IdOf |-> [s \in {"s1", "s2"} |-> "bot"], TokenOf |-> [i \in {"bot"} |-> "token"],
   Stateless |-> {}, MaxJoins |-> 2]

\* An identity of the ChatGPT gateway.
GatewayInstance ==
  [S |-> {"user"}, Id |-> {"user"}, Token |-> {"gateway"},
   IdOf |-> [s \in {"user"} |-> "user"], TokenOf |-> [i \in {"user"} |-> "gateway"],
   Stateless |-> {"user"}, MaxJoins |-> 2]

\* Three sockets of one Human.
HumanInstance ==
  [C |-> {"c1", "c2", "c3"}, Humans |-> {"human"}, Agents |-> {}, MaxLock |-> 3]

\* Three sockets of one Mjai agent.
AgentInstance ==
  [C |-> {"c1", "c2", "c3"}, Humans |-> {}, Agents |-> {"agent"}, MaxLock |-> 3]

\* Two requests of the Admin.
AuditInstance ==
  [R |-> {"r1", "r2"}]

\* Two pages, one pending authorization, two requests, three token pairs.
OAuthInstance ==
  [F |-> {"f1", "f2"}, Q |-> {"q1", "q2"}, MaxPending |-> 1, FlowLife |-> 2, CodeLife |-> 1,
   AccessLife |-> 2, FamilyLife |-> 2, MaxPairs |-> 3, MaxTime |-> 3]

\* Two tokens: the channel overflows.
TokensInstance ==
  [T |-> {"t1", "t2"}, Rm |-> {"r1"}, Stream |-> 1, Box |-> 1]

\* Two Rooms: one is delivered to after the other.
RoomsInstance ==
  [T |-> {"t1"}, Rm |-> {"r1", "r2"}, Stream |-> 1, Box |-> 2]

\* An agent that waits for its turn.
WakeInstance ==
  [Tasks |-> {"watcher"}, Queue |-> 3, MaxRev |-> 3]

\* An agent that also listens for notifications.
ListenInstance ==
  [Tasks |-> {"watcher", "listener"}, Queue |-> 3, MaxRev |-> 2]

\* A Run of three Matches.
BenchInstance ==
  [Target |-> 3, Queue |-> 2]

\* Two Kyoku of three Seats.
SeenInstance ==
  [N |-> 3, Kyokus |-> 2, Draws |-> 1, Box |-> 0, Watchers |-> {0}]

\* Two Kyoku of two Seats, with the socket of one.
SocketInstance ==
  [N |-> 2, Kyokus |-> 2, Draws |-> 0, Box |-> 4, Watchers |-> {2}]

\* A Mjai Bot in a Room, with two Matches of two Decisions.
PlayerInstance ==
  [Matches |-> 2, Decisions |-> 2, Box |-> 2, LongTime |-> FALSE]

\* The same with the time of Unlimited.
PatientInstance ==
  [Matches |-> 1, Decisions |-> 2, Box |-> 2, LongTime |-> TRUE]

\* A Match of two Kyoku of three Seats, three draws each.
ResultsInstance ==
  [N |-> 3, Kyokus |-> 2, Wall |-> 3, Points0 |-> 20, Draws |-> {{}, {1}, {1, 2}}]

\* Hands of four tiles: 4, 5 and 6 of a suit, with the red five.
YonmaInstance ==
  [N |-> 2,
   Sanma |-> FALSE,
   HandSize |-> 4,
   Kinds |-> {3, 4, 5, 30},
   Fives |-> {4},
   North |-> 30,
   Kyokus |-> 2,
   Deals |-> {[hands |-> <<(<< <<4, 0>>, <<4, 1>>, <<3, 0>>, <<5, 0>> >>),
                         (<< <<4, 2>>, <<3, 1>>, <<3, 2>>, <<5, 1>> >>)>>,
             wall |-> << <<3, 3>>, <<4, 3>>, <<5, 2>> >>],
            [hands |-> <<(<< <<4, 1>>, <<4, 2>>, <<4, 3>>, <<3, 0>> >>),
                         (<< <<3, 1>>, <<3, 2>>, <<3, 3>>, <<5, 1>> >>)>>,
             wall |-> << <<4, 0>>, <<5, 2>>, <<30, 0>> >>]}]

\* The same with fives, sixes and Norths.
SanmaInstance ==
  [N |-> 2,
   Sanma |-> TRUE,
   HandSize |-> 4,
   Kinds |-> {13, 14, 30},
   Fives |-> {13},
   North |-> 30,
   Kyokus |-> 1,
   Deals |-> {[hands |-> <<(<< <<13, 0>>, <<13, 1>>, <<30, 0>>, <<14, 0>> >>),
                         (<< <<13, 2>>, <<30, 1>>, <<30, 2>>, <<14, 1>> >>)>>,
             wall |-> << <<13, 3>>, <<30, 3>>, <<14, 2>>, <<14, 3>> >>]}]
=============================================================================
