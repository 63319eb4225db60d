----------------------------- MODULE RoomAgent -----------------------------
(***************************************************************************)
(* The socket of a Mjai Bot in a Room: from the Room's notifications to     *)
(* requests, and from the Bot's replies to actions (run_room_socket,        *)
(* sync_room, room_reply, crates/double_riichi_server/src/compat.rs; the    *)
(* ReplyTracker of crates/double_riichi_mjai/src/lib.rs).                   *)
(*                                                                          *)
(* A notification says nothing but that something changed: the socket reads *)
(* the Room again.  It reads it once more when a reply arrives, and the     *)
(* Room may change before the action is submitted.  Decisions are numbered  *)
(* from 1 in every Match.                                                   *)
(***************************************************************************)
EXTENDS Naturals, Sequences

CONSTANTS
  Matches,    \* bound: Matches in the Room
  Decisions,  \* bound: Decisions in a Match
  Box,        \* notifications a subscriber has room for (64 in the code)
  LongTime    \* whether a Decision may outlast LEGACY_REPLY_TTL: Unlimited's watchdog

VARIABLES
  room,    \* what the Room has for this Participant
  notes,   \* the notifications that wait
  on,      \* whether the Room still sends any
  agent,   \* the socket's state
  old,     \* pending requests older than LEGACY_REPLY_TTL
  action,  \* the action being submitted
  asked,   \* the Decision of each request
  taken    \* the accepted replies: the request and the Decision it went to

vars == <<room, notes, on, agent, old, action, asked, taken>>

None == 0
NoAction == [request |-> None, id |-> 0]

-----------------------------------------------------------------------------
(* The Room *)

Place == <<room.match, room.id>>

\* GetMatchView, GetProjection: a Player has actions to choose from.
Chooses == room.st = "playing" /\ room.asks /\ ~room.answered

Notify == IF on /\ notes < Box THEN notes' = notes + 1 /\ UNCHANGED on
          ELSE on' = FALSE /\ UNCHANGED notes

\* The Room at a Decision nobody has answered.
At(st, match, log, id, asks) ==
  [st |-> st, match |-> match, log |-> log, id |-> id, asks |-> asks,
   answered |-> FALSE, time |-> TRUE]

\* What may follow the open Decision: the results of the Kyoku, or another Decision.
Resolutions(r) ==
  {At("held", r.match, r.log + 1, r.id, FALSE)} \cup
  IF r.id = Decisions THEN {}
  ELSE {At("playing", r.match, r.log + 1, r.id + 1, asks) : asks \in BOOLEAN}

Changes(r) ==
  /\ agent.open /\ room' = r /\ Notify
  /\ UNCHANGED <<agent, old, action, asked, taken>>

Start ==
  /\ room.st \in {"lobby", "post"} /\ room.match < Matches
  /\ \E asks \in BOOLEAN : Changes(At("playing", room.match + 1, 1, 1, asks))

\* The others have answered, and this Player too, or it was too late.
Resolve ==
  /\ room.st = "playing" /\ (Chooses => ~room.time)
  /\ \E r \in Resolutions(room) : Changes(r)

\* Somebody else does something.
Other == room.st # "closed" /\ Changes(room)

\* The time of the Decision ends; the Room is only told by its next tick.
Late ==
  /\ agent.open /\ Chooses /\ room.time
  /\ room' = [room EXCEPT !.time = FALSE]
  /\ UNCHANGED <<notes, on, agent, old, action, asked, taken>>

Release ==
  /\ room.st = "held"
  /\ \/ Changes(At("post", room.match, room.log + 1, room.id, FALSE))
     \/ /\ room.id < Decisions
        /\ \E asks \in BOOLEAN :
             Changes(At("playing", room.match, room.log + 1, room.id + 1, asks))

\* abort_match: the engine fails, or the Match cannot go on.
Abort == room.st \in {"playing", "held"} /\ Changes([room EXCEPT !.st = "lobby"])

\* Back to the Lobby; and the Room or the Participant goes.
BackToLobby == room.st = "post" /\ Changes([room EXCEPT !.st = "lobby"])
Close == room.st # "closed" /\ Changes([room EXCEPT !.st = "closed"])

-----------------------------------------------------------------------------
(* ReplyTracker *)

Live(a) == a.pending \ old

\* retire_request: without one, nothing.
Retired(a) == [a EXCEPT !.pending = @ \ {a.request}, !.request = None]

\* open_request_with_time: the old are pruned.
Opened(a) ==
  [open |-> a.open, match |-> a.match, cursor |-> a.cursor, decision |-> room.id,
   request |-> a.next, pending |-> Live(a) \cup {a.next}, next |-> a.next + 1]

\* peek, classify_at: the request a reply is for, or what is wrong with it.
Peeked(a, r) ==
  IF r = None THEN IF Live(a) = {} THEN "missing" ELSE "current"
  ELSE IF r \in Live(a) THEN "current" ELSE IF r < a.next THEN "stale" ELSE "future"

\* Requests are numbered as they are asked: the first is the oldest.
Meant(a, r) == IF r = None THEN CHOOSE q \in Live(a) : \A p \in Live(a) : q <= p ELSE r

-----------------------------------------------------------------------------
(* sync_room *)

\* Another Match than the last: everything starts over.
Turned(a) ==
  LET match == IF room.st = "lobby" THEN 0 ELSE room.match IN
  IF a.match = match THEN a
  ELSE [Retired(a) EXCEPT !.decision = None, !.cursor = 0, !.match = match]

\* Slip: the last Decision is remembered into the next Match.
SyncedKeeping(a) ==
  LET match == IF room.st = "lobby" THEN 0 ELSE room.match
      b == [a EXCEPT !.cursor = IF match = 0 THEN 0 ELSE room.log, !.match = match] IN
  IF room.st = "lobby" THEN b
  ELSE IF ~Chooses THEN [Retired(b) EXCEPT !.decision = None]
  ELSE IF b.decision = room.id THEN b
  ELSE IF room.time THEN Opened(Retired(b)) ELSE Retired(b)

\* Events, then the request, once for every Decision with time left.
Synced(a) ==
  LET b == Turned(a)
      c == [b EXCEPT !.cursor = room.log] IN
  IF room.st = "lobby" THEN b
  ELSE IF ~Chooses THEN [Retired(c) EXCEPT !.decision = None]
  ELSE IF c.decision = room.id THEN c
  ELSE IF room.time THEN Opened(Retired(c)) ELSE Retired(c)

Remember(a) ==
  /\ agent' = a
  /\ asked' = IF a.next = agent.next THEN asked ELSE Append(asked, Place)
  /\ old' = old \cap a.pending

Idle == agent.open /\ action = NoAction

\* A notification is read; the queue of the Bot may be full, and then, or when the
\* Room refuses, the socket ends.
Sync ==
  /\ Idle /\ notes > 0 /\ notes' = notes - 1
  /\ \/ room.st # "closed" /\ Remember(Synced(agent))
     \/ agent' = [agent EXCEPT !.open = FALSE] /\ UNCHANGED <<old, asked>>
  /\ UNCHANGED <<room, on, action, taken>>

\* The Room has dropped the subscriber, and everything it sent is read.
Dropped ==
  /\ Idle /\ ~on /\ notes = 0
  /\ agent' = [agent EXCEPT !.open = FALSE]
  /\ UNCHANGED <<room, notes, on, old, action, asked, taken>>

\* A pending request gets old.
Age ==
  /\ agent.open
  /\ \E r \in agent.pending \ old :
       /\ LongTime \/ asked[r] # Place \/ ~room.time
       /\ old' = old \cup {r}
  /\ UNCHANGED <<room, notes, on, agent, action, asked, taken>>

-----------------------------------------------------------------------------
(* room_reply *)

\* A reply to a request that is current, read against the Room as it is now: it
\* is submitted, or the request is retired, or it was no legal action.  All other
\* replies change nothing.
Reply(r) ==
  /\ Idle /\ Peeked(agent, r) = "current"
  /\ room.st = "playing" /\ room.asks
  /\ LET request == Meant(agent, r) IN
     IF agent.decision = room.id /\ agent.request = request /\ Chooses
     THEN action' = [request |-> request, id |-> room.id] /\ UNCHANGED <<agent, old>>
     ELSE LET a == Retired([agent EXCEPT !.request = IF @ = None THEN request ELSE @]) IN
          /\ agent' = [a EXCEPT !.decision = None]
          /\ old' = old \cap agent'.pending
          /\ UNCHANGED action
  /\ UNCHANGED <<room, notes, on, asked, taken>>

\* submit_action: accepted only by the Decision it names.
Submit ==
  /\ agent.open /\ action # NoAction /\ action' = NoAction
  /\ IF Chooses /\ room.time /\ room.id = action.id
     THEN /\ taken' = taken \cup {<<action.request, Place>>}
          /\ room' \in {[room EXCEPT !.answered = TRUE]} \cup Resolutions(room)
          /\ agent' = [agent EXCEPT !.pending = Live(agent) \ {action.request},
                                    !.request = None,
                                    !.decision = IF room'.answered THEN @ ELSE None]
          /\ old' = {} /\ Notify
     ELSE UNCHANGED <<room, notes, on, agent, old, taken>>
  /\ UNCHANGED asked

-----------------------------------------------------------------------------

\* A socket that has just come reads the Room as it is, at any point.
Init ==
  /\ \E asks \in BOOLEAN : room \in {At("playing", 1, 1, 1, asks), At("lobby", 0, 1, 1, asks)}
  /\ notes = 1 /\ on = TRUE
  /\ agent = [open |-> TRUE, match |-> 0, cursor |-> 0, decision |-> None, request |-> None,
              pending |-> {}, next |-> 1]
  /\ old = {} /\ action = NoAction /\ asked = <<>> /\ taken = {}

Next ==
  \/ Start \/ Resolve \/ Other \/ Late \/ Release \/ Abort \/ BackToLobby \/ Close
  \/ Sync \/ Dropped \/ Age \/ Submit
  \/ \E r \in 0 .. Len(asked) + 1 : Reply(r)

Spec == Init /\ [][Next]_vars

-----------------------------------------------------------------------------
(* Properties *)

Caught == agent.open /\ on /\ notes = 0 /\ action = NoAction

\* A Bot that has read all its notifications has been asked about the Decision that
\* is open for it, if there is time left, and about nothing else (compat.rs
\* sync_room, its last_match_id, last_decision and last_request_id).
AsksWhatIsOpen ==
  Caught /\ room.st # "closed" =>
    /\ Chooses /\ room.time => agent.request # None /\ asked[agent.request] = Place
    /\ agent.request # None => Chooses /\ asked[agent.request] = Place
    /\ room.st # "lobby" => agent.cursor = room.log

\* At most one request is pending, and one reply to it is accepted; it goes to the
\* Decision it was asked about, unless a Decision of the same number of another
\* Match took its place before the socket heard of it (compat.rs room_reply, mjai
\* lib.rs classify_at).
AnswersWhatWasAsked ==
  /\ \A q, r \in agent.pending : q = r
  /\ \A t \in taken : asked[t[1]][2] = t[2][2]
  /\ \A t, u \in taken : t[1] = u[1] \/ t[2] = u[2] => t = u

\* A reply to the open Decision, in time, is not refused as stale: the request is
\* still pending (spec/implementation-v1.md, 7.1: "MJAI: five-minute safety watchdog
\* whether connected or disconnected").
TimeIsKept == Caught /\ Chooses /\ room.time => agent.request \in Live(agent)

BotsAnswer == AsksWhatIsOpen /\ AnswersWhatWasAsked /\ (~LongTime => TimeIsKept)

-----------------------------------------------------------------------------
(* The inductive invariant behind them *)

Rooms ==
  [st : {"lobby", "playing", "held", "post", "closed"}, match : Nat, log : Nat, id : Nat \ {0},
   asks : BOOLEAN, answered : BOOLEAN, time : BOOLEAN]

Agents ==
  [open : BOOLEAN, match : Nat, cursor : Nat, decision : Nat, request : Nat,
   pending : SUBSET Nat, next : Nat]

TypeOK ==
  /\ room \in Rooms /\ agent \in Agents /\ notes \in Nat /\ on \in BOOLEAN
  /\ action \in [request : Nat, id : Nat]
  /\ asked \in Seq(Nat \X (Nat \ {0})) /\ agent.next = Len(asked) + 1
  /\ old \subseteq agent.pending
  /\ taken \subseteq (1 .. Len(asked)) \X (Nat \X (Nat \ {0}))
  /\ room.st \in {"playing", "held", "post"} => room.match # 0

\* Decisions the Room is past, or at without a choice for this Player: no such
\* Decision is ever open for it again.
Before(p) == p[1] < room.match \/ (p[1] = room.match /\ p[2] < room.id)
Passed(p) == Before(p) \/ (p = Place /\ ~Chooses)

\* The request that is pending is about the last Decision the socket has seen; without one
\* that Decision is past.
TrackerInv ==
  /\ agent.pending = {agent.request} \ {None}
  /\ agent.request # None =>
       /\ agent.request \in 1 .. Len(asked) /\ agent.decision # None
       /\ asked[agent.request] = <<agent.match, agent.decision>>
  /\ agent.decision # None =>
       LET p == <<agent.match, agent.decision>> IN
       (Before(p) \/ p = Place) /\ agent.match # 0 /\ (agent.request = None => Passed(p))
  /\ action # NoAction =>
       action.request = agent.request /\ action.id = agent.decision /\ agent.request # None

\* A socket that has read all notifications is where the Room is.
CaughtInv ==
  agent.open /\ on /\ notes = 0 /\ room.st # "closed" =>
    /\ Chooses /\ room.time => agent.request # None
    /\ agent.request # None => Chooses /\ asked[agent.request] = Place
    /\ room.st # "lobby" => agent.cursor = room.log

TakenInv ==
  /\ \A t \in taken : t[1] # agent.request /\ asked[t[1]][2] = t[2][2] /\ Passed(t[2])
  /\ \A t, u \in taken : t[1] = u[1] \/ t[2] = u[2] => t = u

\* Without the time of Unlimited a request gets old no sooner than its Decision.
OldInv ==
  ~LongTime => \A r \in old : Passed(asked[r]) \/ (asked[r] = Place /\ ~room.time)

AgentInv == TypeOK /\ TrackerInv /\ CaughtInv /\ TakenInv /\ OldInv
=============================================================================
